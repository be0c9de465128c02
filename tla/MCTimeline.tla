----------------------------- MODULE MCTimeline -----------------------------
(* Instances of Timeline for the model checker. *)
EXTENDS Timeline
=============================================================================
