--------------------------- MODULE SharedTimeline ---------------------------
(***************************************************************************)
(* What a shared game promises to those who play it.  The host commits one *)
(* frame after another until it settles at the last one.  What each member *)
(* watches is one of the frames that were committed, and moves from one to *)
(* the next; to skip frames it has to take the host's state as a whole.    *)
(* An emulator that strays by itself is the only way two members differ.   *)
(***************************************************************************)
EXTENDS Naturals

CONSTANTS Guest, None

VARIABLES
  committed,  \* frames the host committed
  settled,    \* the host commits no more
  view        \* what each guest watches: a frame and a state, or None

vars == <<committed, settled, view>>

Agreed(n) == [at |-> n, state |-> "agrees"]

Init ==
  /\ committed = 0 /\ settled = FALSE
  /\ view \in [Guest -> {None, Agreed(0)}]

Commit == ~settled /\ committed' = committed + 1 /\ UNCHANGED <<settled, view>>
Settle == ~settled /\ settled' = TRUE /\ UNCHANGED <<committed, view>>
CommitAndSettle == ~settled /\ committed' = committed + 1 /\ settled' = TRUE /\ UNCHANGED view

Follow(g) ==
  /\ view[g] # None /\ view[g].at < committed
  /\ view' = [view EXCEPT ![g].at = @ + 1]
  /\ UNCHANGED <<committed, settled>>

Adopt(g) ==
  /\ view[g] = None
  /\ \E n \in 0..committed : view' = [view EXCEPT ![g] = Agreed(n)]
  /\ UNCHANGED <<committed, settled>>

Leave(g) == view' = [view EXCEPT ![g] = None] /\ UNCHANGED <<committed, settled>>

Stray(g) ==
  /\ view[g] # None
  /\ view' = [view EXCEPT ![g].state = "strayed"]
  /\ UNCHANGED <<committed, settled>>

Next ==
  \/ Commit \/ Settle \/ CommitAndSettle
  \/ \E g \in Guest : Follow(g) \/ Adopt(g) \/ Leave(g) \/ Stray(g)

Spec == Init /\ [][Next]_vars
=============================================================================
