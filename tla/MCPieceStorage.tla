--------------------------- MODULE MCPieceStorage ---------------------------
(***************************************************************************)
(* PieceStorage for TLC: two pieces, the first of two blocks and the last, *)
(* shorter one of a single block; interchangeable session threads.         *)
(***************************************************************************)
EXTENDS PieceStorage, TLC

MCBlockCount == [i \in Index |-> IF i = 0 THEN 2 ELSE 1]

SessionSymmetry == Permutations(Sessions)
=============================================================================
