-------------------------- MODULE MCPeerConnector --------------------------
(***************************************************************************)
(* PeerConnector for TLC: interchangeable peers and session objects.       *)
(***************************************************************************)
EXTENDS PeerConnector, TLC

ConnectorSymmetry == Permutations(Peers) \cup Permutations(SessionIds)
=============================================================================
