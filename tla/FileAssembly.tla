---------------------------- MODULE FileAssembly ----------------------------
(***************************************************************************)
(* What PieceStorage promises about the output file, whatever the number   *)
(* of session threads and however their steps interleave: each piece is    *)
(* committed exactly once, with its verified bytes, while the file is      *)
(* open, and nothing else ever changes the file.  A disk error cuts one    *)
(* commit short; the commits after it are counted but write nothing.  The  *)
(* file is closed when every piece is committed, or with what it holds     *)
(* then once the missing pieces are given up, which may be at any time.    *)
(***************************************************************************)
CONSTANT Index

VARIABLES
  committed,  \* the pieces that count as saved
  file,       \* what the file holds where each piece belongs
  disk_ok,    \* no write has failed so far
  open,       \* the file is open
  given_up    \* the missing pieces are no longer waited for

vars == <<committed, file, disk_ok, open, given_up>>

Init ==
  /\ committed = {}
  /\ file = [i \in Index |-> "zero"]
  /\ disk_ok = TRUE
  /\ open = TRUE
  /\ given_up = FALSE

Count(i) ==
  /\ open
  /\ i \notin committed
  /\ committed' = committed \cup {i}
  /\ UNCHANGED <<open, given_up>>

Commit(i) ==
  /\ Count(i)
  /\ disk_ok
  /\ file' = [file EXCEPT ![i] = "good"]
  /\ UNCHANGED disk_ok

CommitCutShort(i) ==
  /\ Count(i)
  /\ disk_ok
  /\ file' = [file EXCEPT ![i] = "torn"]
  /\ disk_ok' = FALSE

CommitLost(i) ==
  /\ Count(i)
  /\ ~disk_ok
  /\ UNCHANGED <<file, disk_ok>>

GiveUp ==
  /\ open
  /\ given_up' = TRUE
  /\ UNCHANGED <<committed, file, disk_ok, open>>

Close ==
  /\ committed = Index \/ given_up
  /\ open' = FALSE
  /\ UNCHANGED <<committed, file, disk_ok, given_up>>

Next ==
  \/ \E i \in Index : Commit(i) \/ CommitCutShort(i) \/ CommitLost(i)
  \/ GiveUp
  \/ Close

Spec == Init /\ [][Next]_vars
=============================================================================
