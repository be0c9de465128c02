---------------------------- MODULE MCInputLease ----------------------------
(* A player that moves up and a watcher that is promoted.  *)
EXTENDS InputLease
MCCourses == {<<2, 1>>, <<0, 2>>}
=============================================================================
