---------------------------- MODULE MCPeerConns -----------------------------
(***************************************************************************)
(* Two remote peers and room for one connection of each kind.              *)
(***************************************************************************)
EXTENDS PeerConns

CONSTANTS p1, p2, k1, k2
=============================================================================
