---------------------------- MODULE MCSharedLoad ----------------------------
(* Instances of SharedLoad for the model checker. *)
EXTENDS SharedLoad
=============================================================================
