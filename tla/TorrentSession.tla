--------------------------- MODULE TorrentSession ---------------------------
(***************************************************************************)
(* The program's life, from main (main.cpp) to its end: TorrentClient and  *)
(* TorrentUi in the main thread, TorrentSession::RunSession in the         *)
(* session's thread, and the trackers' thread of TrackerManager.  The      *)
(* download itself is DownloadMonitor's and PeerConnector's; here it is    *)
(* `complete', which becomes true at some time while the peers serve.      *)
(*                                                                         *)
(* `session_at', the session's thread:                                     *)
(*    none -> loading -> initialize -> connected -> collect -> fetch       *)
(*    no_peers -> clean_up                    FetchInitialPeers failed     *)
(*    downloading -> background -> wait       WaitForCompletion            *)
(*    update                                  inside its UpdateTask        *)
(*    last_update                             the one after its loop       *)
(*    stop_timer -> stop_peers -> stop_trackers -> join_trackers           *)
(*    final_update -> set_status -> close -> returned                      *)
(*                                                                         *)
(* `main_at', the main thread:                                             *)
(*    download                                DownloadTorrent              *)
(*    build -> copying -> elapsed -> finished?   a turn of TorrentUi::Run  *)
(*    shown                                   Run has returned             *)
(*    stop -> reset -> trackers -> exit       ~TorrentClient, at its end   *)
(*    crashed                                                              *)
(*                                                                         *)
(* The task is copied for the user interface under task_mutex, which       *)
(* UpdateTaskStatus takes and DownloadMonitor::UpdateTask does not: a copy *)
(* made during an update is undefined.  It may hold anything, or crash.    *)
(***************************************************************************)
EXTENDS TrackerManager

VARIABLES
  session_at,
  main_at,
  task,         \* current_task: its status, and whether it shows every piece
  timer,        \* new, running, stopped
  complete,     \* PieceStorage::IsDownloadComplete
  serving,      \* peers' sessions may run
  connector,    \* the PeerConnector object: none, alive, destroyed
  is_finished,
  snapshot,     \* what the user interface shows: a task, torn, the timer
  last_turn     \* it is the snapshot after IsFinished

session_vars == <<session_at, task, timer, complete, serving, connector, is_finished>>
main_vars == <<main_at, snapshot, last_turn>>
vars == <<tracker_vars, session_vars, main_vars>>

Task == [status : {"no_torrent", "loading", "connected", "downloading", "completed",
                   "error"},
         all_pieces : BOOLEAN]

SessionTypeOK ==
  /\ session_at \in {"none", "loading", "initialize", "connected", "collect", "fetch",
       "no_peers", "clean_up", "downloading", "background", "wait", "update",
       "last_update", "stop_timer", "stop_peers", "stop_trackers", "join_trackers",
       "final_update", "set_status", "close", "returned"}
  /\ main_at \in {"download", "build", "copying", "elapsed", "finished?", "shown",
       "stop", "reset", "trackers", "exit", "crashed"}
  /\ task \in Task
  /\ timer \in {"new", "running", "stopped"}
  /\ complete \in BOOLEAN
  /\ serving \in BOOLEAN
  /\ connector \in {"none", "alive", "destroyed"}
  /\ is_finished \in BOOLEAN
  /\ snapshot \in [task : Task, torn : BOOLEAN, timer : {"new", "running", "stopped"}]
  /\ last_turn \in BOOLEAN

Init ==
  /\ TrackersInit
  /\ session_at = "none"
  /\ main_at = "download"
  /\ task = [status |-> "no_torrent", all_pieces |-> FALSE]
  /\ timer = "new"
  /\ complete = FALSE
  /\ serving = FALSE
  /\ connector = "none"
  /\ is_finished = FALSE
  /\ snapshot = [task |-> task, torn |-> FALSE, timer |-> "new"]
  /\ last_turn = FALSE

Alive == main_at \notin {"exit", "crashed"}

Goes(from, to) == session_at = from /\ session_at' = to

(* The user interface holds task_mutex while it copies the task.            *)
UpdateTaskStatus(status) ==
  /\ main_at # "copying"
  /\ task' = [task EXCEPT !.status = status]

-----------------------------------------------------------------------------
(* RunSession.                                                              *)
Load ==
  /\ Goes("loading", "initialize")
  /\ UpdateTaskStatus("loading")
  /\ UNCHANGED <<tracker_vars, timer, complete, serving, connector, is_finished, main_vars>>

InitializeComponents ==
  /\ Goes("initialize", "connected")
  /\ default_trackers' \in LoadDefaultTrackersFromConfig
  /\ connector' = "alive"
  /\ UNCHANGED <<tracker_urls, is_stopped, background_thread, next_url, known_peers,
                 task, timer, complete, serving, is_finished, main_vars>>

(* PieceStorage cannot open the output file: the exception leaves the       *)
(* thread's function, and std::terminate ends the program.                  *)
InitializeThrows ==
  /\ session_at = "initialize"
  /\ main_at' = "crashed"
  /\ UNCHANGED <<tracker_vars, session_vars, snapshot, last_turn>>

SetConnected ==
  /\ Goes("connected", "collect")
  /\ UpdateTaskStatus("connected")
  /\ UNCHANGED <<tracker_vars, timer, complete, serving, connector, is_finished, main_vars>>

CollectUrls ==
  /\ Goes("collect", "fetch")
  /\ BeginFetch
  /\ UNCHANGED <<task, timer, complete, serving, connector, is_finished, main_vars>>

FetchInitialPeers ==
  /\ session_at = "fetch"
  /\ TryAnnounceToTracker
  /\ UNCHANGED <<session_vars, main_vars>>

FetchEnds ==
  /\ ~FetchGoesOn
  /\ Goes("fetch", IF known_peers > 0 THEN "downloading" ELSE "no_peers")
  /\ UNCHANGED <<tracker_vars, task, timer, complete, serving, connector, is_finished,
                 main_vars>>

ReportNoPeers ==
  /\ Goes("no_peers", "clean_up")
  /\ UpdateTaskStatus("error")
  /\ timer' = "stopped"
  /\ UNCHANGED <<tracker_vars, complete, serving, connector, is_finished, main_vars>>

(* CleanupComponents: there is no peer and no thread to stop.  The mutant   *)
(* returns without a word.                                                  *)
CleanupOnly ==
  /\ Goes("clean_up", "returned")
  /\ SetStopped
  /\ UNCHANGED <<task, timer, complete, serving, connector, is_finished, main_vars>>

CleanupComponents ==
  /\ Goes("clean_up", "returned")
  /\ SetStopped
  /\ is_finished' = TRUE
  /\ UNCHANGED <<task, timer, complete, serving, connector, main_vars>>

SetDownloading ==
  /\ Goes("downloading", "background")
  /\ UpdateTaskStatus("downloading")
  /\ UNCHANGED <<tracker_vars, timer, complete, serving, connector, is_finished, main_vars>>

(* The trackers' thread is started, the first peers are connected, then     *)
(* PeerConnector's discovery goes on.                                       *)
StartThreads ==
  /\ Goes("background", "wait")
  /\ StartBackgroundUpdates
  /\ serving' = TRUE
  /\ UNCHANGED <<task, timer, complete, connector, is_finished, main_vars>>

(* The last missing piece is saved, by a thread of PeerConnector's.         *)
DownloadCompletes ==
  /\ serving
  /\ ~complete
  /\ complete' = TRUE
  /\ UNCHANGED <<tracker_vars, session_at, task, timer, serving, connector, is_finished,
                 main_vars>>

(* WaitForCompletion: a status update, or the last one.                     *)
BeginUpdate ==
  /\ Goes("wait", IF complete THEN "last_update" ELSE "update")
  /\ snapshot' = [snapshot EXCEPT !.torn = @ \/ main_at = "copying"]
  /\ UNCHANGED <<tracker_vars, task, timer, complete, serving, connector, is_finished,
                 main_at, last_turn>>

UpdateTask(from, to) ==
  /\ Goes(from, to)
  /\ task' = [task EXCEPT !.all_pieces = complete]
  /\ UNCHANGED <<tracker_vars, timer, complete, serving, connector, is_finished, main_vars>>

EndUpdate == UpdateTask("update", "wait") \/ UpdateTask("last_update", "stop_timer")

(* It throws, for want of memory: the status is set, the rest goes on.      *)
WaitForCompletionThrows ==
  /\ session_at \in {"wait", "update", "last_update"}
  /\ session_at' = "stop_timer"
  /\ UpdateTaskStatus("error")
  /\ UNCHANGED <<tracker_vars, timer, complete, serving, connector, is_finished, main_vars>>

StopTimer ==
  /\ Goes("stop_timer", "stop_peers")
  /\ timer' = "stopped"
  /\ UNCHANGED <<tracker_vars, task, complete, serving, connector, is_finished, main_vars>>

StopPeerConnector ==
  /\ Goes("stop_peers", "stop_trackers")
  /\ serving' = FALSE
  /\ UNCHANGED <<tracker_vars, task, timer, complete, connector, is_finished, main_vars>>

(* A mutant: the trackers' thread is left to the destructors.               *)
LeaveTrackers ==
  /\ Goes("stop_trackers", "final_update")
  /\ snapshot' = [snapshot EXCEPT !.torn = @ \/ main_at = "copying"]
  /\ UNCHANGED <<tracker_vars, task, timer, complete, serving, connector, is_finished,
                 main_at, last_turn>>

StopTrackers ==
  /\ Goes("stop_trackers", "join_trackers")
  /\ SetStopped
  /\ UNCHANGED <<task, timer, complete, serving, connector, is_finished, main_vars>>

(* RunSession's own UpdateTask begins right after.                          *)
JoinTrackers ==
  /\ Goes("join_trackers", "final_update")
  /\ JoinBackgroundThread
  /\ snapshot' = [snapshot EXCEPT !.torn = @ \/ main_at = "copying"]
  /\ UNCHANGED <<task, timer, complete, serving, connector, is_finished, main_at, last_turn>>

FinalUpdate == UpdateTask("final_update", "set_status")

SetFinalStatus ==
  /\ Goes("set_status", "close")
  /\ UpdateTaskStatus(IF complete THEN "completed" ELSE "error")
  /\ UNCHANGED <<tracker_vars, timer, complete, serving, connector, is_finished, main_vars>>

CloseAndFinish ==
  /\ Goes("close", "returned")
  /\ is_finished' = TRUE
  /\ UNCHANGED <<tracker_vars, task, timer, complete, serving, connector, main_vars>>

SessionThread ==
  \/ Load
  \/ InitializeComponents
  \/ InitializeThrows
  \/ SetConnected
  \/ CollectUrls
  \/ FetchInitialPeers
  \/ FetchEnds
  \/ ReportNoPeers
  \/ CleanupComponents
  \/ SetDownloading
  \/ StartThreads
  \/ BeginUpdate
  \/ EndUpdate
  \/ WaitForCompletionThrows
  \/ StopTimer
  \/ StopPeerConnector
  \/ StopTrackers
  \/ JoinTrackers
  \/ FinalUpdate
  \/ SetFinalStatus
  \/ CloseAndFinish

-----------------------------------------------------------------------------
Turns(from, to) == main_at = from /\ main_at' = to

(* DownloadTorrent loads the torrent file and starts the session.           *)
DownloadTorrent ==
  /\ Turns("download", "build")
  /\ Goes("none", "loading")
  /\ timer' = "running"
  /\ UNCHANGED <<tracker_vars, task, complete, serving, connector, is_finished, snapshot,
                 last_turn>>

(* The torrent file cannot be read: there is no session to destroy.         *)
LoadThrows ==
  /\ Turns("download", "exit")
  /\ UNCHANGED <<tracker_vars, session_vars, snapshot, last_turn>>

Updating == session_at \in {"update", "last_update", "final_update"}

(* BuildSnapshot: GetCurrentTask, then ElapsedTime.                         *)
BeginCopy ==
  /\ Turns("build", "copying")
  /\ snapshot' = [snapshot EXCEPT !.torn = Updating]
  /\ UNCHANGED <<tracker_vars, session_vars, last_turn>>

EndCopy ==
  /\ Turns("copying", "elapsed")
  /\ snapshot' \in {[snapshot EXCEPT !.task = copy] :
                      copy \in IF snapshot.torn THEN Task ELSE {task}}
  /\ UNCHANGED <<tracker_vars, session_vars, last_turn>>

TornCopyCrashes ==
  /\ snapshot.torn
  /\ Turns("copying", "crashed")
  /\ UNCHANGED <<tracker_vars, session_vars, snapshot, last_turn>>

ReadElapsed ==
  /\ main_at = "elapsed"
  /\ main_at' = IF last_turn THEN "shown" ELSE "finished?"
  /\ snapshot' = [snapshot EXCEPT !.timer = timer]
  /\ UNCHANGED <<tracker_vars, session_vars, last_turn>>

(* The mutant takes the snapshot it has for the last one.                   *)
LeaveWhenFinished ==
  /\ main_at = "finished?"
  /\ main_at' = IF is_finished THEN "shown" ELSE "build"
  /\ UNCHANGED <<tracker_vars, session_vars, snapshot, last_turn>>

(* When the session is finished there is one more turn.                     *)
AskIfFinished ==
  /\ Turns("finished?", "build")
  /\ last_turn' = is_finished
  /\ UNCHANGED <<tracker_vars, session_vars, snapshot>>

RunReturns ==
  /\ Turns("shown", "stop")
  /\ UNCHANGED <<tracker_vars, session_vars, snapshot, last_turn>>

(* TorrentUi::Run throws, for want of memory: the client is destroyed while *)
(* the session runs.                                                        *)
RunThrows ==
  /\ main_at \in {"build", "elapsed", "finished?"}
  /\ main_at' = "stop"
  /\ UNCHANGED <<tracker_vars, session_vars, snapshot, last_turn>>

(* TorrentSession::Stop sets is_terminated, which RunSession does not look  *)
(* at, and joins: the download goes on to its end.                          *)
StopSession ==
  /\ session_at = "returned"
  /\ Turns("stop", "reset")
  /\ is_finished' = TRUE
  /\ UNCHANGED <<tracker_vars, session_at, task, timer, complete, serving, connector,
                 snapshot, last_turn>>

(* The members go in the reverse of their order: the connector ...          *)
DestroyPeerConnector ==
  /\ Turns("reset", "trackers")
  /\ connector' = "destroyed"
  /\ UNCHANGED <<tracker_vars, session_at, task, timer, complete, serving, is_finished,
                 snapshot, last_turn>>

(* ... before the trackers, whose destructor stops their thread.            *)
DestroyTrackerManager ==
  /\ Turns("trackers", "exit")
  /\ JoinBackgroundThread
  /\ UNCHANGED <<session_vars, snapshot, last_turn>>

MainThread ==
  \/ DownloadTorrent
  \/ LoadThrows
  \/ BeginCopy
  \/ EndCopy
  \/ TornCopyCrashes
  \/ ReadElapsed
  \/ AskIfFinished
  \/ RunReturns
  \/ RunThrows
  \/ StopSession
  \/ DestroyPeerConnector
  \/ DestroyTrackerManager

TrackersThread == BackgroundUpdateLoop /\ UNCHANGED <<session_vars, main_vars>>

(* The program has ended.                                                   *)
Ended == ~Alive /\ UNCHANGED vars

Next ==
  \/ Alive /\ SessionThread
  \/ Alive /\ TrackersThread
  \/ Alive /\ DownloadCompletes
  \/ MainThread
  \/ Ended

Spec == Init /\ [][Next]_vars

-----------------------------------------------------------------------------
(* Snapshots taken during the download may be torn.  The one left on the    *)
(* screen is not: it shows the final status and counts, and a clock that    *)
(* has stopped.                                                             *)
FinalSnapshotIsFinal ==
  main_at = "shown" =>
    snapshot = [task  |-> [status     |-> IF complete THEN "completed" ELSE "error",
                           all_pieces |-> complete],
                torn  |-> FALSE,
                timer |-> "stopped"]

(* The trackers' thread asks the connector for its connections through a    *)
(* plain pointer, and the session's destructor destroys the connector       *)
(* before it stops the trackers: their thread has to be gone by then.       *)
NoDanglingConnector ==
  background_thread \in {"check", "next", "announce", "sleep"} => connector = "alive"

-----------------------------------------------------------------------------
(* The operating system runs the three threads.  That every call to a       *)
(* tracker returns or throws is assumed: UDP receives time out; over HTTP   *)
(* it needs a timeout that has been set and a tracker that stops sending    *)
(* (GetReturns of HttpTracker), and the code guarantees neither.            *)
(* The session's thread gets task_mutex, however often it finds it taken:   *)
(* the user interface sleeps between its turns.                             *)
FairSpec ==
  /\ Spec
  /\ SF_vars(Alive /\ SessionThread)
  /\ WF_vars(Alive /\ TrackersThread)
  /\ WF_vars(MainThread)

(* Only missing pieces keep the program: whichever thread fails, and        *)
(* wherever, it ends, or the session waits for the download for ever.  (It  *)
(* may end by a crash.)                                                     *)
ProgramEnds == <>~Alive \/ <>[](session_at \in {"wait", "update"} /\ ~complete)
=============================================================================
