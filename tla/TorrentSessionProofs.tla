------------------------ MODULE TorrentSessionProofs ------------------------
(***************************************************************************)
(* What the last snapshot shows, that no thread outlives the objects it    *)
(* uses, and how many peers become known, for any tracker list, any limits *)
(* and any peers.                                                          *)
(***************************************************************************)
EXTENDS TorrentSession, Induction, TLAPS

ConnectorExists ==
  {"connected", "collect", "fetch", "no_peers", "clean_up", "downloading", "background",
   "wait", "update", "last_update", "stop_timer", "stop_peers", "stop_trackers",
   "join_trackers", "final_update", "set_status", "close", "returned"}

Downloading == {"wait", "update", "last_update", "stop_timer", "stop_peers"}

BeforeDownload ==
  {"none", "loading", "initialize", "connected", "collect", "fetch", "no_peers", "clean_up",
   "downloading", "background"}

Counted == {"set_status", "close", "returned"}

Showing == {"copying", "elapsed", "shown"}

(* The session's thread: which objects exist, whether the peers serve and   *)
(* what the task shows, by where it stands.                                 *)
SessionInv ==
  /\ background_thread # "none" =>
       session_at \in Downloading \cup {"stop_trackers", "join_trackers"}
  /\ session_at \in ConnectorExists => connector # "none"
  /\ connector = "destroyed" => session_at = "returned"
  /\ serving => session_at \in Downloading
  /\ session_at \in BeforeDownload => ~complete /\ ~task.all_pieces
  /\ session_at \in Counted => task.all_pieces = complete
  /\ session_at \in {"clean_up", "close"} =>
       task.status = IF complete THEN "completed" ELSE "error"
  /\ session_at = "returned" =>
       task.status = IF complete THEN "completed" ELSE "error"
  /\ session_at \in {"clean_up", "stop_peers", "stop_trackers", "join_trackers",
                     "final_update", "set_status", "close", "returned"} =>
       timer = "stopped"
  /\ is_finished => session_at = "returned"

(* The main thread: its last turn comes after the session's end, and        *)
(* nothing it reads then changes any more.                                  *)
MainInv ==
  /\ last_turn => is_finished
  /\ main_at = "shown" => last_turn
  /\ last_turn /\ main_at \in Showing => ~snapshot.torn
  /\ last_turn /\ main_at \in {"elapsed", "shown"} => snapshot.task = task
  /\ main_at = "shown" => snapshot.timer = "stopped"
  /\ main_at = "reset" => session_at = "returned"

IInv == SessionTypeOK /\ SessionInv /\ MainInv

-----------------------------------------------------------------------------
(* Marking a snapshot as torn keeps its type.                               *)
Snapshot == [task : Task, torn : BOOLEAN, timer : {"new", "running", "stopped"}]

LEMMA TornIsSnapshot ==
  ASSUME snapshot \in Snapshot, NEW torn \in BOOLEAN
  PROVE  [snapshot EXCEPT !.torn = torn] \in Snapshot
BY DEF Snapshot

LEMMA InitHolds == Init => IInv
<1> SUFFICES ASSUME Init
             PROVE  IInv
  OBVIOUS
<1> USE DEF Init, TrackersInit
<1>1. SessionTypeOK
  BY DEF SessionTypeOK, Task
<1>2. SessionInv
  BY DEF SessionInv, ConnectorExists, Downloading, BeforeDownload, Counted
<1>3. MainInv
  BY DEF MainInv
<1> QED
  BY <1>1, <1>2, <1>3 DEF IInv

(* A step that leaves the main thread's state keeps MainInv, unless it      *)
(* takes back is_finished, or changes the task or the clock after the end.  *)
LEMMA SessionStepKeepsMain ==
  ASSUME IInv, Alive,
         SessionThread
  PROVE  MainInv'
<1> USE DEF IInv, MainInv, SessionInv, SessionTypeOK, Goes, Showing, main_vars, Alive
<1>1. session_at # "returned"
  BY DEF SessionThread, Load, InitializeComponents, InitializeThrows, SetConnected,
         CollectUrls, FetchInitialPeers, FetchEnds, ReportNoPeers, CleanupComponents,
         SetDownloading, StartThreads, BeginUpdate, EndUpdate, UpdateTask,
         WaitForCompletionThrows, StopTimer, StopPeerConnector, StopTrackers, JoinTrackers,
         FinalUpdate, SetFinalStatus, CloseAndFinish
<1>2. ~last_turn /\ main_at \notin {"shown", "reset"}
  BY <1>1
<1>3. last_turn' = last_turn /\ main_at' \in {main_at, "crashed"}
  BY DEF SessionThread, Load, InitializeComponents, InitializeThrows, SetConnected,
         CollectUrls, FetchInitialPeers, FetchEnds, ReportNoPeers, CleanupComponents,
         SetDownloading, StartThreads, BeginUpdate, EndUpdate, UpdateTask,
         WaitForCompletionThrows, StopTimer, StopPeerConnector, StopTrackers, JoinTrackers,
         FinalUpdate, SetFinalStatus, CloseAndFinish
<1> QED
  BY <1>2, <1>3

LEMMA SessionStepKeepsTypes ==
  ASSUME IInv, Alive, SessionThread
  PROVE  SessionTypeOK'
<1>a. [snapshot EXCEPT !.torn = @ \/ main_at = "copying"] \in Snapshot
  BY TornIsSnapshot DEF IInv, SessionTypeOK, Snapshot
<1> USE DEF IInv, SessionTypeOK, Task, Goes, UpdateTaskStatus, main_vars, session_vars,
            Snapshot
<1>1. CASE Load
  BY <1>1 DEF Load
<1>2. CASE InitializeComponents
  BY <1>2 DEF InitializeComponents
<1>3. CASE InitializeThrows
  BY <1>3 DEF InitializeThrows
<1>4. CASE SetConnected
  BY <1>4 DEF SetConnected
<1>5. CASE CollectUrls
  BY <1>5 DEF CollectUrls
<1>6. CASE FetchInitialPeers
  BY <1>6 DEF FetchInitialPeers
<1>7. CASE FetchEnds
  BY <1>7 DEF FetchEnds
<1>8. CASE ReportNoPeers
  BY <1>8 DEF ReportNoPeers
<1>9. CASE CleanupComponents
  BY <1>9 DEF CleanupComponents
<1>10. CASE SetDownloading
  BY <1>10 DEF SetDownloading
<1>11. CASE StartThreads
  BY <1>11 DEF StartThreads
<1>12. CASE BeginUpdate
  BY <1>12, <1>a DEF BeginUpdate
<1>13. CASE EndUpdate
  BY <1>13 DEF EndUpdate, UpdateTask
<1>14. CASE WaitForCompletionThrows
  BY <1>14 DEF WaitForCompletionThrows
<1>15. CASE StopTimer
  BY <1>15 DEF StopTimer
<1>16. CASE StopPeerConnector
  <2>1. UNCHANGED <<task, snapshot, timer, complete, connector, is_finished, main_at,
                    last_turn>>
    BY <1>16 DEF StopPeerConnector
  <2>2. session_at' = "stop_trackers" /\ serving' = FALSE
    BY <1>16 DEF StopPeerConnector
  <2>3. serving' \in BOOLEAN
    BY <2>2
  <2>4. task' \in Task /\ snapshot' \in Snapshot
    BY <2>1
  <2> QED
    BY <2>1, <2>2, <2>3, <2>4
<1>17. CASE StopTrackers
  BY <1>17 DEF StopTrackers
<1>18. CASE JoinTrackers
  BY <1>18, <1>a DEF JoinTrackers
<1>19. CASE FinalUpdate
  BY <1>19 DEF FinalUpdate, UpdateTask
<1>20. CASE SetFinalStatus
  BY <1>20 DEF SetFinalStatus
<1>21. CASE CloseAndFinish
  BY <1>21 DEF CloseAndFinish
<1> QED
  BY <1>1, <1>2, <1>3, <1>4, <1>5, <1>6, <1>7, <1>8, <1>9, <1>10, <1>11, <1>12, <1>13,
     <1>14, <1>15, <1>16, <1>17, <1>18, <1>19, <1>20, <1>21 DEF SessionThread

LEMMA SessionStepKeepsSession ==
  ASSUME IInv, Alive, SessionThread
  PROVE  SessionInv'
<1> USE DEF IInv, SessionTypeOK, Task, SessionInv, Goes, UpdateTaskStatus, main_vars,
            session_vars, tracker_vars, ConnectorExists, Downloading, BeforeDownload, Counted
<1>1. CASE Load
  BY <1>1 DEF Load
<1>2. CASE InitializeComponents
  BY <1>2 DEF InitializeComponents
<1>3. CASE InitializeThrows
  BY <1>3 DEF InitializeThrows
<1>4. CASE SetConnected
  BY <1>4 DEF SetConnected
<1>5. CASE CollectUrls
  BY <1>5 DEF CollectUrls, BeginFetch
<1>6. CASE FetchInitialPeers
  BY <1>6 DEF FetchInitialPeers, TryAnnounceToTracker
<1>7. CASE FetchEnds
  BY <1>7 DEF FetchEnds
<1>8. CASE ReportNoPeers
  BY <1>8 DEF ReportNoPeers
<1>9. CASE CleanupComponents
  BY <1>9 DEF CleanupComponents, SetStopped
<1>10. CASE SetDownloading
  BY <1>10 DEF SetDownloading
<1>11. CASE StartThreads
  BY <1>11 DEF StartThreads, StartBackgroundUpdates
<1>12. CASE BeginUpdate
  BY <1>12 DEF BeginUpdate
<1>13. CASE EndUpdate
  BY <1>13 DEF EndUpdate, UpdateTask
<1>14. CASE WaitForCompletionThrows
  BY <1>14 DEF WaitForCompletionThrows
<1>15. CASE StopTimer
  BY <1>15 DEF StopTimer
<1>16. CASE StopPeerConnector
  BY <1>16 DEF StopPeerConnector
<1>17. CASE StopTrackers
  BY <1>17 DEF StopTrackers, SetStopped
<1>18. CASE JoinTrackers
  BY <1>18 DEF JoinTrackers, JoinBackgroundThread
<1>19. CASE FinalUpdate
  BY <1>19 DEF FinalUpdate, UpdateTask
<1>20. CASE SetFinalStatus
  BY <1>20 DEF SetFinalStatus
<1>21. CASE CloseAndFinish
  BY <1>21 DEF CloseAndFinish
<1> QED
  BY <1>1, <1>2, <1>3, <1>4, <1>5, <1>6, <1>7, <1>8, <1>9, <1>10, <1>11, <1>12, <1>13,
     <1>14, <1>15, <1>16, <1>17, <1>18, <1>19, <1>20, <1>21 DEF SessionThread

LEMMA MainStep ==
  ASSUME IInv, MainThread
  PROVE  IInv'
<1> USE DEF IInv, SessionTypeOK, Task, SessionInv, MainInv, Turns, Goes, Updating,
            session_vars, tracker_vars, ConnectorExists, Downloading, BeforeDownload,
            Counted, Showing
<1>1. CASE DownloadTorrent
  BY <1>1 DEF DownloadTorrent
<1>2. CASE LoadThrows
  BY <1>2 DEF LoadThrows
<1>3. CASE BeginCopy
  <2>1. [snapshot EXCEPT !.torn = Updating] \in Snapshot
    <3>1. Updating \in BOOLEAN
      OBVIOUS
    <3> QED
      BY <3>1 DEF Snapshot
  <2>2. snapshot'.torn = Updating
    BY <1>3 DEF BeginCopy
  <2>3. SessionTypeOK'
    BY <1>3, <2>1 DEF BeginCopy, Snapshot
  <2>4. SessionInv'
    BY <1>3 DEF BeginCopy
  <2>5. MainInv'
    BY <1>3, <2>2 DEF BeginCopy
  <2> QED
    BY <2>3, <2>4, <2>5
<1>4. CASE EndCopy
  BY <1>4 DEF EndCopy
<1>5. CASE TornCopyCrashes
  BY <1>5 DEF TornCopyCrashes
<1>6. CASE ReadElapsed
  BY <1>6 DEF ReadElapsed
<1>7. CASE AskIfFinished
  BY <1>7 DEF AskIfFinished
<1>8. CASE RunReturns
  BY <1>8 DEF RunReturns
<1>9. CASE RunThrows
  BY <1>9 DEF RunThrows
<1>10. CASE StopSession
  BY <1>10 DEF StopSession
<1>11. CASE DestroyPeerConnector
  BY <1>11 DEF DestroyPeerConnector
<1>12. CASE DestroyTrackerManager
  BY <1>12 DEF DestroyTrackerManager, JoinBackgroundThread
<1> QED
  BY <1>1, <1>2, <1>3, <1>4, <1>5, <1>6, <1>7, <1>8, <1>9, <1>10, <1>11, <1>12
  DEF MainThread

LEMMA TrackersStep ==
  ASSUME IInv, TrackersThread
  PROVE  IInv'
<1>1. background_thread # "none" /\ UNCHANGED <<session_vars, main_vars>>
  BY DEF TrackersThread, BackgroundUpdateLoop, Moves, LeaveUpdateLoop, BeginRound,
         SkipRound, AskTracker, EndRound, TrackerAnswers, WakeUp
<1> QED
  BY <1>1 DEF IInv, SessionTypeOK, SessionInv, MainInv, session_vars, main_vars

LEMMA CompletionStep ==
  ASSUME IInv, DownloadCompletes
  PROVE  IInv'
<1> USE DEF IInv, DownloadCompletes, main_vars, tracker_vars
<1>1. SessionTypeOK'
  BY DEF SessionTypeOK
<1>2. session_at \in Downloading
  BY DEF SessionInv
<1>3. SessionInv'
  BY <1>2 DEF SessionInv, Downloading, BeforeDownload, Counted
<1>4. MainInv'
  BY DEF MainInv
<1> QED
  BY <1>1, <1>3, <1>4

LEMMA StutterStep ==
  ASSUME IInv, UNCHANGED vars
  PROVE  IInv'
BY DEF IInv, SessionTypeOK, SessionInv, MainInv, vars, session_vars, main_vars, tracker_vars

LEMMA NextStep == IInv /\ [Next]_vars => IInv'
BY SessionStepKeepsMain, SessionStepKeepsTypes, SessionStepKeepsSession, MainStep,
   TrackersStep, CompletionStep, StutterStep
DEF Next, Ended, IInv

LEMMA Invariance == Spec => []IInv
BY InitHolds, NextStep, PTL DEF Spec

(* The last snapshot on the screen is whole and final.                      *)
THEOREM LastSnapshotIsFinal == Spec => []FinalSnapshotIsFinal
<1>1. IInv => FinalSnapshotIsFinal
  BY DEF IInv, SessionTypeOK, Task, SessionInv, MainInv, FinalSnapshotIsFinal, Counted,
         Showing
<1> QED
  BY <1>1, Invariance, PTL

(* The trackers' thread never reads a connector that is gone.               *)
THEOREM ConnectorOutlivesTrackers == Spec => []NoDanglingConnector
<1>1. IInv => NoDanglingConnector
  BY DEF IInv, SessionTypeOK, SessionInv, NoDanglingConnector, Downloading, ConnectorExists
<1> QED
  BY <1>1, Invariance, PTL

-----------------------------------------------------------------------------
(* The URLs that are asked: no URL twice.                                   *)
Distinct(urls) == \A i, j \in DOMAIN urls : urls[i] = urls[j] => i = j

DistinctUrls == {urls \in Seq(TrackerUrls \cup {Announce}) : Distinct(urls)}

(* What the file gives is a list of trackers.                               *)
LEMMA LoadedTrackers ==
  ASSUME NEW urls \in LoadDefaultTrackersFromConfig
  PROVE  urls \in Seq(TrackerUrls)
<1> DEFINE AddTracker(kept, line) ==
             IF line \in TrackerUrls THEN Append(kept, line) ELSE kept
           s == ConfigLines
           base == <<>>
           E == TrackerUrls \cup {NoUrl}
           S == Seq(TrackerUrls)
           op == [p \in S \X E |-> AddTracker(p[1], p[2])]
           Step(f, t) == IF t = {} THEN base ELSE AddTracker(f[t \ {Max(t)}], s[Max(t)])
           F == CHOOSE F : F = [t \in SUBSET DOMAIN s |-> Step(F, t)]
<1>1. LoadDefaultTrackersFromConfig = {base, F[DOMAIN s]}
  BY Zenon DEF LoadDefaultTrackersFromConfig, FoldLeft, MapThenFoldSet
<1>2. /\ s \in Seq(E) /\ DOMAIN s = 1 .. Len(s) /\ Len(s) \in Nat
      /\ \A i \in 1 .. Len(s) : s[i] \in E
  BY TrackerAssumption
<1>3. ASSUME NEW u \in S, NEW x \in E
      PROVE  AddTracker(u, x) \in S /\ op[<<u, x>>] = AddTracker(u, x)
  OBVIOUS
<1>4. base \in S
  OBVIOUS
<1>5. FoldOver(S, E, base, op, s)
  <2>1. op \in [S \X E -> S]
    <3> HIDE DEF S, E, AddTracker
    <3> QED  BY <1>3
  <2> QED  BY <1>2, <1>4, <2>1 DEF FoldOver
<1> HIDE DEF AddTracker, S, E, s, op, base
<1>6. F = [t \in SUBSET DOMAIN s |-> Step(F, t)]
  <2>1. PICK f : FoldTable(f, S, base, op, s)
    <3> HIDE DEF Step, F
    <3> QED  BY <1>5, FoldExists
  <2>2. ASSUME NEW t \in SUBSET DOMAIN s, t # {}
        PROVE  op[<<f[t \ {Max(t)}], s[Max(t)]>>] = AddTracker(f[t \ {Max(t)}], s[Max(t)])
    <3>1. Max(t) \in 1 .. Len(s)
      BY <1>2, <2>2, MaxOfNumbers
    <3>2. f[t \ {Max(t)}] \in S
      BY <2>1 DEF FoldTable
    <3> QED  BY <1>2, <1>3, <3>1, <3>2
  <2>3. f = [t \in SUBSET DOMAIN s |-> Step(f, t)]
    BY <2>1, <2>2 DEF FoldTable
  <2> HIDE DEF Step
  <2> QED  BY <2>3, Zenon
<1> HIDE DEF F
<1>7. F[{}] = base
  BY <1>6
<1>8. ASSUME NEW n \in 1 .. Len(s), F[1 .. n - 1] \in S
      PROVE  F[1 .. n] = op[<<F[1 .. n - 1], s[n]>>]
  <2>1. n \in Nat \ {0} /\ 1 .. n \subseteq 1 .. Len(s) /\ n \in 1 .. n
    BY <1>2
  <2>2. Max(1 .. n) = n /\ (1 .. n) \ {Max(1 .. n)} = 1 .. n - 1
    BY <2>1, MaxOfInterval
  <2>3. F[1 .. n] = AddTracker(F[1 .. n - 1], s[n])
    BY <1>2, <1>6, <2>1, <2>2
  <2> QED  BY <1>2, <1>3, <1>8, <2>3
<1>9. F[DOMAIN s] \in S
  <2> HIDE DEF Step
  <2> QED  BY <1>5, <1>7, <1>8, FoldKeeps
<1> QED  BY <1>1, <1>4, <1>9 DEF S
(* Whatever the list holds, no URL is collected twice.                      *)
LEMMA CollectedUrls ==
  ASSUME default_trackers \in Seq(TrackerUrls)
  PROVE  CollectTrackerUrls \in DistinctUrls
<1> DEFINE AddUnseen(urls, url) ==
             IF \E k \in DOMAIN urls : urls[k] = url THEN urls ELSE Append(urls, url)
           s == default_trackers
           base == IF Announce = NoUrl THEN <<>> ELSE <<Announce>>
           E == TrackerUrls
           S == DistinctUrls
           op == [p \in S \X E |-> AddUnseen(p[1], p[2])]
           Step(f, t) == IF t = {} THEN base ELSE AddUnseen(f[t \ {Max(t)}], s[Max(t)])
           F == CHOOSE F : F = [t \in SUBSET DOMAIN s |-> Step(F, t)]
<1>1. CollectTrackerUrls = F[DOMAIN s]
  BY Zenon DEF CollectTrackerUrls, FoldLeft, MapThenFoldSet
<1>2. /\ s \in Seq(E) /\ DOMAIN s = 1 .. Len(s) /\ Len(s) \in Nat
      /\ \A i \in 1 .. Len(s) : s[i] \in E
  OBVIOUS
<1>3. ASSUME NEW u \in S, NEW x \in E
      PROVE  AddUnseen(u, x) \in S /\ op[<<u, x>>] = AddUnseen(u, x)
  <2>1. CASE \E k \in DOMAIN u : u[k] = x
    BY <2>1
  <2>2. CASE ~ \E k \in DOMAIN u : u[k] = x
    <3>1. u \in Seq(TrackerUrls \cup {Announce}) /\ Distinct(u)
      BY DEF DistinctUrls
    <3>2. Append(u, x) \in Seq(TrackerUrls \cup {Announce})
      BY <3>1
    <3>3. Distinct(Append(u, x))
      BY <2>2, <3>1 DEF Distinct
    <3> QED  BY <2>2, <3>2, <3>3 DEF DistinctUrls
  <2> QED  BY <2>1, <2>2
<1>4. base \in S
  <2>1. <<>> \in DistinctUrls
    BY DEF DistinctUrls, Distinct
  <2>2. <<Announce>> \in DistinctUrls
    BY DEF DistinctUrls, Distinct
  <2> QED  BY <2>1, <2>2
<1>5. FoldOver(S, E, base, op, s)
  <2>1. op \in [S \X E -> S]
    <3> HIDE DEF S, E, AddUnseen
    <3> QED  BY <1>3
  <2> QED  BY <1>2, <1>4, <2>1 DEF FoldOver
<1> HIDE DEF AddUnseen, S, E, s, op, base
<1>6. F = [t \in SUBSET DOMAIN s |-> Step(F, t)]
  <2>1. PICK f : FoldTable(f, S, base, op, s)
    <3> HIDE DEF Step, F
    <3> QED  BY <1>5, FoldExists
  <2>2. ASSUME NEW t \in SUBSET DOMAIN s, t # {}
        PROVE  op[<<f[t \ {Max(t)}], s[Max(t)]>>] = AddUnseen(f[t \ {Max(t)}], s[Max(t)])
    <3>1. Max(t) \in 1 .. Len(s)
      BY <1>2, <2>2, MaxOfNumbers
    <3>2. f[t \ {Max(t)}] \in S
      BY <2>1 DEF FoldTable
    <3> QED  BY <1>2, <1>3, <3>1, <3>2
  <2>3. f = [t \in SUBSET DOMAIN s |-> Step(f, t)]
    BY <2>1, <2>2 DEF FoldTable
  <2> HIDE DEF Step
  <2> QED  BY <2>3, Zenon
<1> HIDE DEF F
<1>7. F[{}] = base
  BY <1>6
<1>8. ASSUME NEW n \in 1 .. Len(s), F[1 .. n - 1] \in S
      PROVE  F[1 .. n] = op[<<F[1 .. n - 1], s[n]>>]
  <2>1. n \in Nat \ {0} /\ 1 .. n \subseteq 1 .. Len(s) /\ n \in 1 .. n
    BY <1>2
  <2>2. Max(1 .. n) = n /\ (1 .. n) \ {Max(1 .. n)} = 1 .. n - 1
    BY <2>1, MaxOfInterval
  <2>3. F[1 .. n] = AddUnseen(F[1 .. n - 1], s[n])
    BY <1>2, <1>6, <2>1, <2>2
  <2> QED  BY <1>2, <1>3, <1>8, <2>3
<1>9. F[DOMAIN s] \in S
  <2> HIDE DEF Step
  <2> QED  BY <1>5, <1>7, <1>8, FoldKeeps
<1> QED  BY <1>1, <1>9 DEF S

(* Then there are as many of them as the sequence is long.                  *)
LEMMA DistinctUrlsCount ==
  ASSUME NEW urls \in DistinctUrls
  PROVE  Cardinality(ToSet(urls)) = Len(urls)
<1>1. urls \in Seq(TrackerUrls \cup {Announce}) /\ Distinct(urls)
  BY DEF DistinctUrls
<1>2. urls \in Bijection(1 .. Len(urls), ToSet(urls))
  BY <1>1 DEF Bijection, Injection, Surjection, IsInjective, Distinct, ToSet
<1>3. Len(urls) \in Nat /\ ExistsBijection(1 .. Len(urls), ToSet(urls))
  BY <1>1, <1>2 DEF ExistsBijection
<1> QED  BY <1>3, FS_CountingElements

(* The known peers there may be when n trackers of a round have answered.   *)
Limit(n) == MaxKnownPeers - 1 + n * MaxAnnounced

LEMMA LimitGrows ==
  ASSUME NEW n \in Nat
  PROVE  /\ Limit(n) \in Nat
         /\ Limit(n + 1) = Limit(n) + MaxAnnounced
         /\ \A m \in Nat : n <= m => Limit(n) <= Limit(m)
<1>1. n * MaxAnnounced \in Nat /\ MaxKnownPeers - 1 \in Nat
  BY TrackerAssumption
<1>2. (n + 1) * MaxAnnounced = n * MaxAnnounced + MaxAnnounced
  BY TrackerAssumption
<1>3. ASSUME NEW m \in Nat, n <= m PROVE n * MaxAnnounced <= m * MaxAnnounced
  BY <1>3, TrackerAssumption
<1> QED  BY <1>1, <1>2, <1>3, TrackerAssumption DEF Limit


(* At most one answer of each tracker asked comes on top of the limit that  *)
(* a round begins below.                                                    *)
BeforeFetch == {"none", "loading", "initialize", "connected", "collect"}

TrackersInv ==
  /\ default_trackers \in Seq(TrackerUrls)
  /\ tracker_urls \in DistinctUrls
  /\ next_url \in Nat \ {0}
  /\ known_peers \in Nat
  /\ session_at \in BeforeFetch => known_peers = 0
  /\ known_peers <= Limit(Len(tracker_urls))
  /\ background_thread \in {"next", "announce"} =>
       next_url <= Len(tracker_urls) + 1 /\ known_peers <= Limit(next_url - 1)
  /\ background_thread = "announce" => next_url <= Len(tracker_urls)

LEMMA TrackersInitially == Init => TrackersInv
<1>1. <<>> \in DistinctUrls /\ Len(<<>>) = 0
  BY DEF DistinctUrls, Distinct
<1>2. Limit(0) \in Nat
  BY LimitGrows
<1> QED  BY <1>1, <1>2 DEF Init, TrackersInit, TrackersInv

LEMMA SessionKeepsTrackers ==
  ASSUME IInv, TrackersInv, SessionThread
  PROVE  TrackersInv'
<1>1. Len(tracker_urls) \in Nat
  BY DEF TrackersInv, DistinctUrls
<1> USE DEF Goes, tracker_vars
<1>2. CASE InitializeComponents
  <2>1. default_trackers' \in Seq(TrackerUrls)
    BY <1>2, LoadedTrackers DEF InitializeComponents
  <2> QED
    BY <1>2, <2>1 DEF InitializeComponents, TrackersInv, BeforeFetch
<1>3. CASE CollectUrls
  <2>1. tracker_urls' \in DistinctUrls /\ Len(tracker_urls') \in Nat
    BY <1>3, CollectedUrls DEF CollectUrls, BeginFetch, TrackersInv, DistinctUrls
  <2>2. background_thread = "none"
    BY <1>3 DEF CollectUrls, IInv, SessionInv, Downloading
  <2>3. known_peers = 0 /\ Limit(Len(tracker_urls')) \in Nat
    BY <1>3, <2>1, LimitGrows DEF CollectUrls, TrackersInv, BeforeFetch
  <2> QED
    BY <1>3, <2>1, <2>2, <2>3 DEF CollectUrls, BeginFetch, TrackersInv
<1>4. CASE FetchInitialPeers
  <2>1. background_thread = "none"
    BY <1>4 DEF FetchInitialPeers, IInv, SessionInv, Downloading
  <2>2. next_url <= Len(tracker_urls) /\ known_peers = 0
    BY <1>4 DEF FetchInitialPeers, TryAnnounceToTracker, FetchGoesOn, MoreTrackers
  <2>3. known_peers' \in 0 .. MaxAnnounced /\ next_url' = next_url + 1
    BY <1>4, <2>2, TrackerAssumption
    DEF FetchInitialPeers, TryAnnounceToTracker, AnnounceToNext
  <2>4. MaxAnnounced <= Limit(Len(tracker_urls))
    <3>1. 0 + 1 <= Len(tracker_urls) /\ Limit(0) \in Nat
      BY <1>1, <2>2, LimitGrows DEF TrackersInv
    <3>2. Limit(0 + 1) = Limit(0) + MaxAnnounced
      BY LimitGrows
    <3>3. Limit(1) <= Limit(Len(tracker_urls)) /\ Limit(Len(tracker_urls)) \in Nat
      BY <1>1, <3>1, LimitGrows
    <3> QED  BY <3>1, <3>2, <3>3, TrackerAssumption, LimitGrows
  <2>5. Limit(Len(tracker_urls)) \in Nat
    BY <1>1, LimitGrows
  <2> QED
    BY <1>4, <2>1, <2>3, <2>4, <2>5, TrackerAssumption
    DEF FetchInitialPeers, TryAnnounceToTracker, AnnounceToNext, TrackersInv, session_vars,
        BeforeFetch
<1>5. CASE StartThreads
  BY <1>5 DEF StartThreads, StartBackgroundUpdates, TrackersInv, BeforeFetch
<1>6. CASE CleanupComponents
  BY <1>6 DEF CleanupComponents, SetStopped, TrackersInv, BeforeFetch
<1>7. CASE StopTrackers
  BY <1>7 DEF StopTrackers, SetStopped, TrackersInv, BeforeFetch
<1>8. CASE JoinTrackers
  BY <1>8 DEF JoinTrackers, JoinBackgroundThread, TrackersInv, BeforeFetch
<1>9. CASE UNCHANGED tracker_vars /\ (session_at' \in BeforeFetch => session_at \in BeforeFetch)
  BY <1>9 DEF TrackersInv
<1> QED
  BY <1>2, <1>3, <1>4, <1>5, <1>6, <1>7, <1>8, <1>9
  DEF SessionThread, Load, InitializeThrows, SetConnected, FetchEnds, ReportNoPeers,
      SetDownloading, BeginUpdate, EndUpdate, UpdateTask, WaitForCompletionThrows, StopTimer,
      StopPeerConnector, FinalUpdate, SetFinalStatus, CloseAndFinish, BeforeFetch,
      session_vars

LEMMA TrackersThreadKeepsTrackers ==
  ASSUME IInv, TrackersInv, TrackersThread
  PROVE  TrackersInv'
<1>1. /\ Len(tracker_urls) \in Nat
      /\ UNCHANGED <<session_at, default_trackers, tracker_urls>>
  BY DEF TrackersInv, DistinctUrls, TrackersThread, session_vars, BackgroundUpdateLoop, Moves,
         LeaveUpdateLoop, BeginRound, SkipRound, AskTracker, EndRound, TrackerAnswers, WakeUp,
         AnnounceToNext
<1>2. CASE BeginRound
  <2>1. known_peers <= Limit(0) /\ 1 - 1 = 0
    BY <1>2, TrackerAssumption DEF BeginRound, Limit, TrackersInv
  <2> QED
    BY <1>1, <1>2, <2>1 DEF BeginRound, Moves, TrackersInv
<1>3. CASE TrackerAnswers
  <2>1. /\ next_url - 1 \in Nat /\ next_url - 1 + 1 = next_url
        /\ next_url <= Len(tracker_urls) /\ known_peers <= Limit(next_url - 1)
    BY <1>3 DEF TrackerAnswers, Moves, TrackersInv
  <2>2. /\ Limit(next_url) = Limit(next_url - 1) + MaxAnnounced
        /\ Limit(next_url - 1) \in Nat /\ Limit(next_url) \in Nat
        /\ Limit(next_url) <= Limit(Len(tracker_urls))
        /\ Limit(Len(tracker_urls)) \in Nat
    <3>1. Limit(next_url - 1 + 1) = Limit(next_url - 1) + MaxAnnounced
      BY <2>1, LimitGrows
    <3>2. Limit(next_url) <= Limit(Len(tracker_urls)) /\ Limit(next_url) \in Nat
      BY <1>1, <2>1, LimitGrows DEF TrackersInv
    <3> QED  BY <1>1, <2>1, <3>1, <3>2, LimitGrows
  <2>3. PICK new_peers \in 0 .. MaxAnnounced :
          known_peers' = known_peers + new_peers /\ next_url' = next_url + 1
    BY <1>3 DEF TrackerAnswers, AnnounceToNext
  <2>4. known_peers' \in Nat /\ known_peers' <= Limit(next_url) /\ next_url' - 1 = next_url
    BY <2>1, <2>2, <2>3, TrackerAssumption DEF TrackersInv
  <2>5. session_at \notin BeforeFetch
    BY <1>3 DEF TrackerAnswers, Moves, IInv, SessionInv, Downloading, BeforeFetch
  <2> QED
    BY <1>1, <1>3, <2>1, <2>2, <2>3, <2>4, <2>5 DEF TrackerAnswers, Moves, TrackersInv
<1>4. CASE AskTracker
  BY <1>1, <1>4 DEF AskTracker, MoreTrackers, Moves, TrackersInv
<1>5. CASE UNCHANGED <<next_url, known_peers>> /\ background_thread' \notin {"next", "announce"}
  BY <1>1, <1>5 DEF TrackersInv
<1> QED
  BY <1>2, <1>3, <1>4, <1>5
  DEF TrackersThread, BackgroundUpdateLoop, Moves, LeaveUpdateLoop, SkipRound, EndRound, WakeUp

LEMMA MainKeepsTrackers ==
  ASSUME TrackersInv, MainThread
  PROVE  TrackersInv'
<1>1. /\ UNCHANGED <<default_trackers, tracker_urls, next_url, known_peers>>
      /\ background_thread' \in {background_thread, "none"}
      /\ session_at' = session_at \/ session_at = "none"
  BY DEF MainThread, DownloadTorrent, LoadThrows, BeginCopy, EndCopy, TornCopyCrashes,
         ReadElapsed, AskIfFinished, RunReturns, RunThrows, StopSession, DestroyPeerConnector,
         DestroyTrackerManager, JoinBackgroundThread, Goes, session_vars, tracker_vars
<1> QED
  BY <1>1 DEF TrackersInv, BeforeFetch

LEMMA TrackersInvariance == Spec => []TrackersInv
<1>1. IInv /\ TrackersInv /\ [Next]_vars => TrackersInv'
  <2>1. CASE DownloadCompletes \/ UNCHANGED vars
    BY <2>1 DEF DownloadCompletes, vars, tracker_vars, session_vars, TrackersInv
  <2> QED
    BY <2>1, SessionKeepsTrackers, TrackersThreadKeepsTrackers, MainKeepsTrackers
    DEF Next, Ended
<1> QED
  BY <1>1, TrackersInitially, Invariance, PTL DEF Spec

(* However many rounds there are and whatever the trackers answer, the      *)
(* known peers exceed the limit by one answer of each tracker at most.      *)
THEOREM KnownPeersStayBounded == Spec => []KnownPeersBounded
<1>1. TrackersInv => KnownPeersBounded
  BY DistinctUrlsCount DEF TrackersInv, KnownPeersBounded, Limit
<1> QED
  BY <1>1, TrackersInvariance, PTL
=============================================================================
