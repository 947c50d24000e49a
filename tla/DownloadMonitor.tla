-------------------------- MODULE DownloadMonitor --------------------------
(***************************************************************************)
(* The thread of TorrentSession::RunSession from its search for peers on:  *)
(* DownloadMonitor::WaitForCompletion (download/DownloadMonitor.cpp) next  *)
(* to the session threads and the storage of PieceStorage, and then, when  *)
(* the download is complete or WaitForCompletion has thrown, the shutdown: *)
(* stop the sessions, update the task, set its status, close the file.     *)
(*                                                                         *)
(* Every call the monitor makes on the storage takes a lock of its own, so *)
(* what one call told it may be stale at the next: each call is a step.    *)
(*    fetch      in FetchInitialPeers; no session has been started         *)
(*    check      the loop's condition, IsDownloadComplete                  *)
(*    count      UpdateTask, before PiecesSavedToDiskCount                 *)
(*    missing    UpdateTask, before GetMissingPieces                       *)
(*    endgame    ManageEndgameMode, before GetMissingPieces                *)
(*    queue      ManageEndgameMode, before QueueIsEmpty                    *)
(*    requeue    ManageEndgameMode, before ForceRequeueMissingPieces       *)
(*    stop       WaitForCompletion has returned, or its exception has been *)
(*               caught                                                    *)
(*    joined     every session thread is joined                            *)
(*    status     the task's counts are final, before IsDownloadComplete    *)
(*    close      the task is up to date, the file still open               *)
(*    finished   is_finished                                               *)
(*    cleanup    no peer was found: in CleanupComponents                   *)
(*    no_peers   is_finished, without a download                           *)
(* WaitForCompletion throws when memory runs out, in any of its calls; the *)
(* same in UpdateTask after the join would end the program and is not      *)
(* modelled.                                                               *)
(***************************************************************************)
EXTENDS PieceStorage

CONSTANT EndgameThreshold   \* kEndgameThreshold

ASSUME MonitorAssumption ==
  /\ EndgameThreshold \in Nat
  /\ IsFiniteSet(Sessions)

VARIABLES
  at,             \* where the monitor's thread stands
  after_update,   \* where UpdateTask returns to
  endgame_mode,
  requeue_due,    \* more than kRequeueInterval since last_requeue_time
  task,           \* the counts of the TorrentTask the user interface shows
  status          \* its status

monitor_vars == <<at, after_update, endgame_mode, requeue_due, task, status>>
mvars == <<vars, monitor_vars>>

(* In WaitForCompletion (and, at count and missing, in the last UpdateTask).*)
Waiting == {"check", "count", "missing", "endgame", "queue", "requeue"}

Ended == {"finished", "no_peers"}

MonitorTypeOK ==
  /\ TypeOK
  /\ at \in Waiting \cup {"fetch", "stop", "joined", "status", "close",
                        "finished", "cleanup", "no_peers"}
  /\ after_update \in {"endgame", "stop", "status"}
  /\ endgame_mode \in BOOLEAN
  /\ requeue_due \in BOOLEAN
  /\ task \in [downloaded_pieces_count : 0 .. PieceCount,
               missing_pieces : SUBSET Index]
  /\ status \in {"connected", "downloading", "error", "completed"}

MonitorInit ==
  /\ Init
  /\ at = "fetch"
  /\ after_update = "endgame"
  /\ endgame_mode = FALSE
  /\ requeue_due = FALSE
  /\ task = [downloaded_pieces_count |-> 0, missing_pieces |-> {}]
  /\ status = "connected"

(* FetchInitialPeers has found peers; sessions may start.                   *)
PeersFound ==
  /\ at = "fetch"
  /\ at' = "check"
  /\ status' = "downloading"
  /\ UNCHANGED <<vars, after_update, endgame_mode, requeue_due, task>>

NoPeersFound ==
  /\ at = "fetch"
  /\ GiveUp
  /\ at' = "cleanup"
  /\ status' = "error"
  /\ UNCHANGED <<after_update, endgame_mode, requeue_due, task>>

UpdateTaskThen(label) == at' = "count" /\ after_update' = label

(* kStatusUpdateInterval may have passed or not.  On completion the task is *)
(* updated once more.                                                       *)
CheckComplete ==
  /\ at = "check"
  /\ IF IsDownloadComplete
     THEN UpdateTaskThen("stop")
     ELSE \/ UpdateTaskThen("endgame")
          \/ at' = "endgame" /\ UNCHANGED after_update
  /\ UNCHANGED <<vars, endgame_mode, requeue_due, task, status>>

(* A mutant: an off-by-one.                                                 *)
CountFromOne ==
  /\ at = "count"
  /\ task' = [task EXCEPT !.downloaded_pieces_count = Cardinality(saved_pieces) + 1]
  /\ at' = "missing"
  /\ UNCHANGED <<vars, after_update, endgame_mode, requeue_due, status>>

ReadSavedCount ==
  /\ at = "count"
  /\ task' = [task EXCEPT !.downloaded_pieces_count = Cardinality(saved_pieces)]
  /\ at' = "missing"
  /\ UNCHANGED <<vars, after_update, endgame_mode, requeue_due, status>>

(* A mutant: the missing pieces are read only once.                         *)
ReadMissingOnce ==
  /\ at = "missing"
  /\ task' = [task EXCEPT !.missing_pieces = IF @ = {} THEN GetMissingPieces ELSE @]
  /\ at' = after_update
  /\ UNCHANGED <<vars, after_update, endgame_mode, requeue_due, status>>

ReadMissingPieces ==
  /\ at = "missing"
  /\ task' = [task EXCEPT !.missing_pieces = GetMissingPieces]
  /\ at' = after_update
  /\ UNCHANGED <<vars, after_update, endgame_mode, requeue_due, status>>

(* Mutants: the queue is looked at outside endgame mode too; the threshold  *)
(* is compared with the saved pieces.                                       *)
RequeueAtAnyTime ==
  /\ at = "endgame"
  /\ endgame_mode' =
       (endgame_mode \/ Cardinality(GetMissingPieces) <= EndgameThreshold)
  /\ at' = "queue"
  /\ UNCHANGED <<vars, after_update, requeue_due, task, status>>

CompareSavedCount ==
  /\ at = "endgame"
  /\ endgame_mode' = (endgame_mode \/ Cardinality(saved_pieces) <= EndgameThreshold)
  /\ at' = IF endgame_mode' THEN "queue" ELSE "check"
  /\ UNCHANGED <<vars, after_update, requeue_due, task, status>>

EnterEndgameMode ==
  /\ at = "endgame"
  /\ endgame_mode' =
       (endgame_mode \/ Cardinality(GetMissingPieces) <= EndgameThreshold)
  /\ at' = IF endgame_mode' THEN "queue" ELSE "check"
  /\ UNCHANGED <<vars, after_update, requeue_due, task, status>>

(* A mutant: nothing is requeued while a session has a piece.               *)
RequeueWhenIdle ==
  /\ at = "queue"
  /\ at' = IF QueueIsEmpty /\ active_pieces = {} /\ requeue_due
           THEN "requeue" ELSE "check"
  /\ UNCHANGED <<vars, after_update, endgame_mode, requeue_due, task, status>>

LookAtQueue ==
  /\ at = "queue"
  /\ at' = IF QueueIsEmpty /\ requeue_due THEN "requeue" ELSE "check"
  /\ UNCHANGED <<vars, after_update, endgame_mode, requeue_due, task, status>>

Requeue ==
  /\ at = "requeue"
  /\ ForceRequeueMissingPieces
  /\ requeue_due' = FALSE
  /\ at' = "check"
  /\ UNCHANGED <<after_update, endgame_mode, task, status>>

RequeueIntervalPasses ==
  /\ ~requeue_due
  /\ at \in Waiting
  /\ requeue_due' = TRUE
  /\ UNCHANGED <<vars, at, after_update, endgame_mode, task, status>>

(* Memory runs out in a call of WaitForCompletion; RunSession catches it.   *)
WaitForCompletionThrows ==
  /\ at \in Waiting
  /\ at \in {"count", "missing"} => after_update # "status"
  /\ GiveUp
  /\ at' = "stop"
  /\ status' = "error"
  /\ UNCHANGED <<after_update, endgame_mode, requeue_due, task>>

RequeueFails ==
  /\ at = "requeue"
  /\ RequeueThrows
  /\ at' = "stop"
  /\ status' = "error"
  /\ UNCHANGED <<after_update, endgame_mode, requeue_due, task>>

(* RunSession: PeerConnector::Stop begins ...                               *)
BeginStop ==
  /\ at \in {"stop", "cleanup"}
  /\ StopSessions
  /\ UNCHANGED monitor_vars

(* ... and has joined the last session thread; the task is updated again.   *)
JoinSessions ==
  /\ at = "stop"
  /\ stopping
  /\ \A s \in Sessions : pc[s] = "stopped"
  /\ at' = "joined"
  /\ UNCHANGED <<vars, after_update, endgame_mode, requeue_due, task, status>>

UpdateTaskAfterJoin ==
  /\ at = "joined"
  /\ UpdateTaskThen("status")
  /\ UNCHANGED <<vars, endgame_mode, requeue_due, task, status>>

(* A mutant: an error stays an error, the storage is not asked again.       *)
KeepErrorStatus ==
  /\ at = "status"
  /\ status' = IF status = "error" THEN "error" ELSE "completed"
  /\ at' = "close"
  /\ UNCHANGED <<vars, after_update, endgame_mode, requeue_due, task>>

SetFinalStatus ==
  /\ at = "status"
  /\ status' = IF IsDownloadComplete THEN "completed" ELSE "error"
  /\ at' = "close"
  /\ UNCHANGED <<vars, after_update, endgame_mode, requeue_due, task>>

Finish ==
  /\ at = "close"
  /\ CloseOutputFile
  /\ at' = "finished"
  /\ UNCHANGED <<after_update, endgame_mode, requeue_due, task, status>>

(* CleanupComponents closes the file after it has stopped the connector.    *)
CleanupComponents ==
  /\ at = "cleanup"
  /\ CloseOutputFile
  /\ at' = "no_peers"
  /\ UNCHANGED <<after_update, endgame_mode, requeue_due, task, status>>

MonitorStep ==
  \/ CheckComplete
  \/ ReadSavedCount
  \/ ReadMissingPieces
  \/ EnterEndgameMode
  \/ LookAtQueue
  \/ Requeue
  \/ BeginStop
  \/ JoinSessions
  \/ UpdateTaskAfterJoin
  \/ SetFinalStatus
  \/ Finish
  \/ CleanupComponents

(* What no thread can be relied on to do.                                   *)
MonitorMay ==
  \/ PeersFound
  \/ NoPeersFound
  \/ WaitForCompletionThrows
  \/ RequeueFails

(* There is no session before the first peers are found, nor without any.   *)
Beside(step) == at \notin {"fetch", "cleanup"} /\ step /\ UNCHANGED monitor_vars

StorageStep(s) == Beside(SessionStep(s))

(* The session is over: nothing is left to happen.                          *)
Finished == at \in Ended /\ UNCHANGED mvars

MonitorNext ==
  \/ \E s \in Sessions : StorageStep(s)
  \/ MonitorStep
  \/ MonitorMay
  \/ RequeueIntervalPasses
  \/ Finished

MonitorSpec == MonitorInit /\ [][MonitorNext]_mvars

-----------------------------------------------------------------------------
(* How many times index i is queued, with a session, or saved.              *)
Places(i) ==
  Cardinality({k \in DOMAIN queue : IndexOf(queue[k]) = i})
    + Cardinality({s \in Sessions : \E o \in Object : Owns(s, o) /\ IndexOf(o) = i})
    + (IF i \in saved_pieces THEN 1 ELSE 0)

(* Before endgame no piece is downloaded twice: an index is in one place    *)
(* only, and in one place exactly until the download is given up.           *)
NoDuplicateWork ==
  ~endgame_mode =>
    \A i \in Index : Places(i) <= 1 /\ (~given_up => Places(i) = 1)

(* The requeue that endgame allows duplicates at most kEndgameThreshold     *)
(* pieces: the count that opened endgame was taken earlier and without a    *)
(* lock on the queue, but it still bounds what is missing now.  Every       *)
(* requeue makes second objects for pieces that are held; those in use and  *)
(* in the queue never exceed one per piece and one per session.             *)
EndgameIsSmall ==
  /\ endgame_mode => Cardinality(GetMissingPieces) <= EndgameThreshold
  /\ Len(queue) + Cardinality({s \in Sessions : Holds(s) /\ pc[s] # "release"})
       <= PieceCount + Cardinality(Sessions)

(* UpdateTask reads the saved count and the missing pieces under two locks, *)
(* while sessions save pieces: outside of it the task never claims a piece  *)
(* both as saved and as missing, and never more than is saved.  (If it      *)
(* throws between the two, the update after the join sets that right.)      *)
TaskIsCoherent ==
  /\ task.downloaded_pieces_count <= Cardinality(saved_pieces)
  /\ at # "missing" /\ (given_up => at \in {"status", "close", "finished"}) =>
       task.downloaded_pieces_count + Cardinality(task.missing_pieces) <= PieceCount

(* The session ends with a closed file that no thread touches any more, and *)
(* what it reports is true: unless the disk failed, the file holds exactly  *)
(* the verified pieces that are counted as saved; the last task shows them, *)
(* the others as missing, and as completed if and only if there is no other *)
(* - whatever exception was caught on the way.  Less than the whole is left *)
(* only when RunSession gave up, and without peers nothing is written.      *)
FinishedIsAsReported ==
  /\ at \in Ended =>
       /\ \A s \in Sessions : pc[s] = "stopped" /\ ~Holds(s)
       /\ ~file_open
       /\ IsDownloadComplete \/ given_up
       /\ stream_ok => \A i \in Index :
                         output_file[i] = IF i \in saved_pieces THEN "good" ELSE "zero"
  /\ at = "finished" =>
       /\ task = [downloaded_pieces_count |-> Cardinality(saved_pieces),
                  missing_pieces |-> GetMissingPieces]
       /\ status = IF IsDownloadComplete THEN "completed" ELSE "error"
  /\ at = "no_peers" => status = "error" /\ saved_pieces = {}

-----------------------------------------------------------------------------
(* What a session's thread does without waiting for its peer.               *)
AwaitedStep(s) ==
  \/ GetNextPieceToDownload(s)
  \/ PieceProcessed(s)
  \/ CheckHash(s)
  \/ SavePieceToDisk(s)
  \/ pc[s] = "mismatch" /\ ReturnPiece(s)
  \/ PushReturnedPiece(s)
  \/ Release(s)

(* The operating system runs every thread: the monitor (peers need not be   *)
(* found, and nothing need be thrown), its interval timer                   *)
(* and the sessions, which when idle poll the queue after each receive or   *)
(* receive timeout.  A session tests is_terminated at every turn of its     *)
(* loop, so one that is being stopped and keeps coming back there ends.     *)
SchedulerIsFair ==
  /\ WF_mvars(MonitorStep)
  /\ WF_mvars(RequeueIntervalPasses)
  /\ \A s \in Sessions :
       /\ WF_mvars(Beside(AwaitedStep(s)))
       /\ SF_mvars(Beside(stopping /\ ExitSession(s)))

FairMonitorSpec == MonitorSpec /\ SchedulerIsFair

(* A peer that keeps serving session s: it is (re)connected, unchoked, and  *)
(* answers requests.                                                        *)
Serves(s) ==
  /\ WF_mvars(Beside(StartSession(s)))
  /\ WF_mvars(Beside(RequestBlock(s)))
  /\ WF_mvars(Beside(ReceiveBlock(s)))

(* From some time on no session puts a piece back (no choke, failure or     *)
(* hash mismatch while it has one) and s does not give up.  The other       *)
(* sessions may then sit on their pieces for ever: no request times out.    *)
Settled(s) ==
  <>[][/\ \A t \in Sessions : ~PushReturnedPiece(t)
       /\ ExitSession(s) => stopping]_mvars

(* Once peers are found, one that serves is enough to complete the download *)
(* and to report it, as long as the silent ones can hold no more pieces     *)
(* than endgame requeues and WaitForCompletion does not throw.              *)
OneServingPeerSuffices ==
  \A s \in Sessions :
    /\ Cardinality(Sessions \ {s}) <= EndgameThreshold
    /\ Serves(s) /\ Settled(s)
    /\ []~given_up
    => (at = "check") ~> (at = "finished" /\ status = "completed")

(* However the wait ended, the shutdown ends, whatever the peers do.        *)
ShutdownEnds == (at \in {"stop", "cleanup"}) ~> (at \in Ended)
=============================================================================
