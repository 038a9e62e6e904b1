-------------------------- MODULE MCPeerConnection --------------------------
(* Model checking of PeerConnection. *)
EXTENDS PeerConnection, TLC

Symmetry == Permutations(Nodes)
=============================================================================
