----------------------------- MODULE MCRoomEntry -----------------------------
(* A tab that opens rooms and a tab that enters them.                      *)
EXTENDS RoomEntry
=============================================================================
