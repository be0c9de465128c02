--------------------------- MODULE MCGameSession ---------------------------
(***************************************************************************)
(* Small instances of GameSession: which members exist, and who of them is *)
(* seated, connected and linked before the first step.                     *)
(***************************************************************************)
EXTENDS GameSession

CONSTANTS h, a, b, x, y

\* The host alone; with a guest who is player 2; and with an observer besides.
Alone == [i \in Slot |-> IF i = 1 THEN h ELSE None]
Pair  == [i \in Slot |-> CASE i = 1 -> h [] i = 2 -> a [] OTHER -> None]
Trio  == [i \in Slot |-> CASE i = 1 -> h [] i = 2 -> a [] i = 3 -> b [] OTHER -> None]
=============================================================================
