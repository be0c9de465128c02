----------------------------- MODULE MCGameFiles -----------------------------
(* One room, and the archives that share its space.                        *)
EXTENDS GameFiles
=============================================================================
