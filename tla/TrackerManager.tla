--------------------------- MODULE TrackerManager ---------------------------
(***************************************************************************)
(* TrackerManager (tracker/TrackerManager.cpp): the trackers are asked for *)
(* the first peers by the session's thread, and for more by a thread of    *)
(* their own, `background_thread':                                         *)
(*    none      not started, or joined                                     *)
(*    check     before the loop's condition and the two limits             *)
(*    next      in a round over tracker_urls, before the next of them      *)
(*    announce  waiting for a tracker's answer                             *)
(*    sleep     until the next round                                       *)
(*    returned  the loop has ended                                         *)
(* Of the peers only their number is modelled; what PeerManager does with  *)
(* them is in PeerConnector.  How many of them are connected is not known  *)
(* here: ActiveConnectionCount gives any answer.                           *)
(***************************************************************************)
EXTENDS Naturals, SequencesExt

CONSTANTS
  ConfigLines,    \* the lines of config/tracker-list.txt
  TrackerUrls,    \* what starts with http:// or udp://
  Announce,       \* the torrent's announce URL, or NoUrl
  NoUrl,
  MaxKnownPeers,  \* from this many known peers on no round begins (500)
  MaxAnnounced    \* a bound: the new peers one answer may bring

ASSUME TrackerAssumption ==
  /\ ConfigLines \in Seq(TrackerUrls \cup {NoUrl})
  /\ NoUrl \notin TrackerUrls
  /\ MaxKnownPeers \in Nat \ {0}
  /\ MaxAnnounced \in Nat

VARIABLES
  default_trackers,
  tracker_urls,
  is_stopped,
  background_thread,
  next_url,      \* the i of the loop over tracker_urls that is under way
  known_peers    \* PeerManager::Count

tracker_vars == <<default_trackers, tracker_urls, is_stopped, background_thread,
                  next_url, known_peers>>

TrackersInit ==
  /\ default_trackers = <<>>
  /\ tracker_urls = <<>>
  /\ is_stopped = FALSE
  /\ background_thread = "none"
  /\ next_url = 1
  /\ known_peers = 0

-----------------------------------------------------------------------------
(* What the file holds of trackers; nothing if it cannot be read.           *)
LoadDefaultTrackersFromConfig ==
  LET AddTracker(urls, line) == IF line \in TrackerUrls THEN Append(urls, line) ELSE urls
  IN  {<<>>, FoldLeft(AddTracker, <<>>, ConfigLines)}

(* The announce URL first, and every URL once.  The mutant does not look at *)
(* those already seen.                                                      *)
CollectWithoutSeen ==
  (IF Announce = NoUrl THEN <<>> ELSE <<Announce>>) \o default_trackers

CollectTrackerUrls ==
  LET AddUnseen(urls, url) ==
        IF \E k \in DOMAIN urls : urls[k] = url THEN urls ELSE Append(urls, url)
  IN  FoldLeft(AddUnseen, IF Announce = NoUrl THEN <<>> ELSE <<Announce>>,
               default_trackers)

(* The trackers still to be asked in the loop under way.                    *)
MoreTrackers == next_url <= Len(tracker_urls) /\ ~is_stopped

(* A tracker answers with peers, some of them new, or the announce throws.  *)
AnnounceToNext ==
  /\ \E new_peers \in 0 .. MaxAnnounced : known_peers' = known_peers + new_peers
  /\ next_url' = next_url + 1
  /\ UNCHANGED <<default_trackers, tracker_urls, is_stopped>>

-----------------------------------------------------------------------------
(* FetchInitialPeers, in the session's thread.                              *)
BeginFetch ==
  /\ tracker_urls' = CollectTrackerUrls
  /\ next_url' = 1
  /\ UNCHANGED <<default_trackers, is_stopped, background_thread, known_peers>>

FetchGoesOn == MoreTrackers /\ known_peers = 0

TryAnnounceToTracker ==
  /\ FetchGoesOn
  /\ AnnounceToNext
  /\ UNCHANGED background_thread

(* The thread of the background updates.                                    *)
StartBackgroundUpdates ==
  /\ is_stopped' = FALSE
  /\ background_thread' = "check"
  /\ UNCHANGED <<default_trackers, tracker_urls, next_url, known_peers>>

Moves(from, to) == background_thread = from /\ background_thread' = to

LeaveUpdateLoop ==
  /\ is_stopped
  /\ Moves("check", "returned")
  /\ UNCHANGED <<default_trackers, tracker_urls, is_stopped, next_url, known_peers>>

BeginRound ==
  /\ ~is_stopped /\ known_peers < MaxKnownPeers
  /\ Moves("check", "next")
  /\ next_url' = 1
  /\ UNCHANGED <<default_trackers, tracker_urls, is_stopped, known_peers>>

(* There are enough connections, or enough known peers.                     *)
SkipRound ==
  /\ ~is_stopped
  /\ Moves("check", "sleep")
  /\ UNCHANGED <<default_trackers, tracker_urls, is_stopped, next_url, known_peers>>

AskTracker ==
  /\ MoreTrackers
  /\ Moves("next", "announce")
  /\ UNCHANGED <<default_trackers, tracker_urls, is_stopped, next_url, known_peers>>

(* All were asked, or there are enough connections by now.                  *)
EndRound ==
  /\ Moves("next", "sleep")
  /\ UNCHANGED <<default_trackers, tracker_urls, is_stopped, next_url, known_peers>>

TrackerAnswers ==
  /\ Moves("announce", "next")
  /\ AnnounceToNext

WakeUp ==
  /\ Moves("sleep", "check")
  /\ UNCHANGED <<default_trackers, tracker_urls, is_stopped, next_url, known_peers>>

BackgroundUpdateLoop ==
  \/ LeaveUpdateLoop
  \/ BeginRound
  \/ SkipRound
  \/ AskTracker
  \/ EndRound
  \/ TrackerAnswers
  \/ WakeUp

(* Stop sets the flag and joins the thread, if there is one.                *)
SetStopped ==
  /\ is_stopped' = TRUE
  /\ UNCHANGED <<default_trackers, tracker_urls, background_thread, next_url, known_peers>>

JoinBackgroundThread ==
  /\ background_thread \in {"none", "returned"}
  /\ background_thread' = "none"
  /\ UNCHANGED <<default_trackers, tracker_urls, is_stopped, next_url, known_peers>>

-----------------------------------------------------------------------------
(* The limit on known peers is looked at once per round, and every tracker  *)
(* of the round adds to them: they exceed it by one answer of each tracker, *)
(* counted without the duplicates of the list, and by no more.              *)
KnownPeersBounded ==
  known_peers <= MaxKnownPeers - 1
                   + Cardinality(ToSet(tracker_urls)) * MaxAnnounced
=============================================================================
