-------------------------- MODULE MCLocalProgress --------------------------
(* Two tabs of one browser that play the same game.                        *)
EXTENDS LocalProgress, TLC
Symmetry == Permutations(Tab)
=============================================================================
