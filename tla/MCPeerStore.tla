---------------------------- MODULE MCPeerStore ----------------------------
(***************************************************************************)
(* PeerStore for two peers and two requests at a time: any two operations  *)
(* on one peer against each other, and on different peers, where the flush *)
(* of one makes the half-done work of the other durable.                   *)
(***************************************************************************)
EXTENDS PeerStore, TLC

CONSTANTS p1, p2, r1, r2

MCPeers == {p1, p2}
MCRequests == {r1, r2}

Symmetry == Permutations(MCPeers) \cup Permutations(MCRequests)
=============================================================================
