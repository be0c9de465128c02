----------------------------- MODULE MCPeerLink -----------------------------
(* One pair with a relay slot that other pairs compete for.                *)
EXTENDS PeerLink
=============================================================================
