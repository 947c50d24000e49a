--------------------------- MODULE MCPeerSession ---------------------------
(***************************************************************************)
(* PeerSession for TLC: a piece 0 of two blocks, a last, shorter piece of  *)
(* a single block; interchangeable sessions.                               *)
(***************************************************************************)
EXTENDS PeerSession, TLC

MCBlockCount == [i \in Index |-> IF i = 0 THEN 2 ELSE 1]

SessionSymmetry == Permutations(Sessions)
=============================================================================
