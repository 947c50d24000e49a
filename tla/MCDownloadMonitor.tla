------------------------- MODULE MCDownloadMonitor -------------------------
(***************************************************************************)
(* DownloadMonitor for TLC.                                                *)
(***************************************************************************)
EXTENDS DownloadMonitor, TLC

OneBlockEach == [i \in Index |-> 1]

SessionSymmetry == Permutations(Sessions)
=============================================================================
