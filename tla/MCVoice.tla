------------------------------ MODULE MCVoice ------------------------------
(* One member's microphone, and peers that come and go while it is captured. *)
EXTENDS Voice, TLC
Symmetry == Permutations(Peer)
=============================================================================
