--------------------------- MODULE PeerConnector ---------------------------
(***************************************************************************)
(* PeerConnector (peer/PeerConnector.cpp) and PeerManager                  *)
(* (peer/PeerManager.cpp): which peers are known, which of them have a     *)
(* session, and how the sessions are stopped.                              *)
(*                                                                         *)
(* RunSession connects the initial peers itself and then starts the        *)
(* discovery thread, which goes on: mark the peers of terminated sessions, *)
(* erase the sessions, take the peers that wait for a connection, connect  *)
(* as many as there are slots, sleep.  Only one of the two threads is      *)
(* connecting at a time, and `at' is where it stands:                      *)
(*    take       before TakeNewPeers                                       *)
(*    next       in the loop over the peers taken                          *)
(*    start      ConnectToPeer has found fewer than kMaxConnections        *)
(*    list       the session's thread runs, sessions does not hold it yet  *)
(*    connected  sessions holds it, MarkConnected comes next               *)
(*    sleep      before the next turn of DiscoveryLoop                     *)
(*    mark       CleanupTerminatedConnections, first pass                  *)
(*    erase      CleanupTerminatedConnections, second pass                 *)
(*    slots      before ActiveConnectionCount                              *)
(*    done       DiscoveryLoop has returned                                *)
(* Next to it run the session threads, the trackers' thread, which adds    *)
(* peers, and the thread that calls Stop.                                  *)
(*                                                                         *)
(* The order of the peers is not modelled: any of those taken may be the   *)
(* ones there are slots for.  Of a session only the two flags others look  *)
(* at are modelled, is_connected and is_terminated; the five failures      *)
(* after which it terminates are not counted.                              *)
(***************************************************************************)
EXTENDS Naturals, FiniteSets

CONSTANTS
  Peers,           \* every peer a tracker may ever name
  SessionIds,      \* tells PeerSession objects apart
  MaxConnections,  \* kMaxConnections
  NoPeer

ASSUME ConnectorAssumption ==
  /\ MaxConnections \in Nat \ {0}
  /\ IsFiniteSet(Peers) /\ IsFiniteSet(SessionIds)
  /\ NoPeer \notin Peers

VARIABLES
  peer_states,   \* the state of every peer, "unknown" before AddPeers
  session,       \* the PeerSession objects: their peer and their status
  sessions,      \* those in the connector's vector
  is_stopped,    \* tells DiscoveryLoop to return
  discovering,   \* the discovery thread has been started
  at,            \* where the connecting thread stands
  ready_peers,   \* the peers taken and not looked at yet
  to_connect,    \* how many of them are still to be connected
  target,        \* the peer that is being connected
  stop,          \* where Stop stands: no, joining, stopping, stopped
  sessions_copy  \* the sessions Stop has still to stop

loop_vars == <<at, ready_peers, to_connect, target>>
stop_vars == <<is_stopped, discovering, stop, sessions_copy>>
vars == <<peer_states, session, sessions, loop_vars, stop_vars>>

Free == [peer |-> NoPeer, status |-> "free"]

PeerState == {"unknown", "discovered", "connecting", "connected", "failed"}

SessionType ==
  {Free} \cup [peer : Peers, status : {"connecting", "connected", "terminated"}]

TypeOK ==
  /\ peer_states \in [Peers -> PeerState]
  /\ session \in [SessionIds -> SessionType]
  /\ sessions \subseteq SessionIds
  /\ is_stopped \in BOOLEAN
  /\ discovering \in BOOLEAN
  /\ at \in {"take", "next", "start", "list", "connected", "sleep", "mark",
             "erase", "slots", "done"}
  /\ ready_peers \subseteq Peers
  /\ to_connect \in Nat
  /\ target \in IF at \in {"start", "list", "connected"} THEN Peers ELSE {NoPeer}
  /\ stop \in {"no", "joining", "stopping", "stopped"}
  /\ sessions_copy \subseteq SessionIds

(* FetchInitialPeers has returned true: at least one peer is known.         *)
Init ==
  /\ peer_states \in [Peers -> {"unknown", "discovered"}]
  /\ \E p \in Peers : peer_states[p] = "discovered"
  /\ session = [i \in SessionIds |-> Free]
  /\ sessions = {}
  /\ is_stopped = FALSE
  /\ discovering = FALSE
  /\ at = "take"
  /\ ready_peers = {}
  /\ to_connect = 0
  /\ target = NoPeer
  /\ stop = "no"
  /\ sessions_copy = {}

Status(i) == session[i].status

(* What ActiveConnectionCount counts.                                       *)
ActiveConnections == {i \in sessions : Status(i) = "connected"}

ActiveConnectionCount == Cardinality(ActiveConnections)

Terminated == {i \in sessions : Status(i) = "terminated"}

(* The peers GetPeersReadyForConnection and TakeNewPeers return.            *)
WaitingPeers == {p \in Peers : peer_states[p] \in {"discovered", "failed"}}

MarkFailed(failed) ==
  peer_states' = [p \in Peers |->
    IF p \in failed /\ peer_states[p] \in {"connecting", "connected"}
    THEN "failed" ELSE peer_states[p]]

-----------------------------------------------------------------------------
(* A mutant: a peer named again is discovered again.                        *)
AddPeersAgain(new_peers) ==
  /\ peer_states' = [p \in Peers |->
       IF p \in new_peers THEN "discovered" ELSE peer_states[p]]
  /\ UNCHANGED <<session, sessions, loop_vars, stop_vars>>

(* A tracker has answered.  A peer already known keeps its state.           *)
AddPeers(new_peers) ==
  /\ peer_states' = [p \in Peers |->
       IF p \in new_peers /\ peer_states[p] = "unknown"
       THEN "discovered" ELSE peer_states[p]]
  /\ UNCHANGED <<session, sessions, loop_vars, stop_vars>>

(* Session threads: the handshake is done; the connection is lost and will  *)
(* be tried again; the last attempt has failed.                             *)
SetStatus(i, from, to) ==
  /\ Status(i) = from
  /\ session' = [session EXCEPT ![i].status = to]
  /\ UNCHANGED <<peer_states, sessions, loop_vars, stop_vars>>

Handshake(i) == SetStatus(i, "connecting", "connected")

LoseConnection(i) == SetStatus(i, "connected", "connecting")

GiveUp(i) == SetStatus(i, "connecting", "terminated")

-----------------------------------------------------------------------------
(* RunSession takes every waiting peer, DiscoveryLoop connects no more of   *)
(* them than it found slots.                                                *)
TakeNewPeers ==
  /\ at = "take"
  /\ ready_peers' = WaitingPeers
  /\ peer_states' = [p \in Peers |->
       IF p \in WaitingPeers THEN "connecting" ELSE peer_states[p]]
  /\ to_connect' = IF discovering /\ to_connect < Cardinality(WaitingPeers)
                   THEN to_connect ELSE Cardinality(WaitingPeers)
  /\ at' = "next"
  /\ UNCHANGED <<session, sessions, target, stop_vars>>

InLoop == at = "next" /\ to_connect > 0 /\ ~(discovering /\ is_stopped)

(* ConnectToPeer at the cap only reports: the peer's state stays.           *)
ConnectToPeer(p) ==
  /\ InLoop
  /\ p \in ready_peers
  /\ ready_peers' = ready_peers \ {p}
  /\ to_connect' = to_connect - 1
  /\ IF ActiveConnectionCount >= MaxConnections
     THEN UNCHANGED <<at, target>>
     ELSE at' = "start" /\ target' = p
  /\ UNCHANGED <<peer_states, session, sessions, stop_vars>>

StartSession(i) ==
  /\ at = "start"
  /\ session[i] = Free
  /\ session' = [session EXCEPT ![i] = [peer |-> target, status |-> "connecting"]]
  /\ at' = "list"
  /\ UNCHANGED <<peer_states, sessions, ready_peers, to_connect, target, stop_vars>>

(* std::thread throws: there is no session, the peer may be tried later.    *)
StartFails ==
  /\ at = "start"
  /\ MarkFailed({target})
  /\ at' = "next"
  /\ target' = NoPeer
  /\ UNCHANGED <<session, sessions, ready_peers, to_connect, stop_vars>>

ListSession(i) ==
  /\ at = "list"
  /\ session[i].peer = target
  /\ sessions' = sessions \cup {i}
  /\ at' = "connected"
  /\ UNCHANGED <<peer_states, session, ready_peers, to_connect, target, stop_vars>>

MarkConnected ==
  /\ at = "connected"
  /\ peer_states' = [peer_states EXCEPT ![target] = "connected"]
  /\ at' = "next"
  /\ target' = NoPeer
  /\ UNCHANGED <<session, sessions, ready_peers, to_connect, stop_vars>>

(* The loop is over.  RunSession then calls StartDiscovery.                 *)
LeaveLoop ==
  /\ at = "next" /\ ~InLoop
  /\ at' = "sleep"
  /\ ready_peers' = {}
  /\ to_connect' = 0
  /\ discovering' = TRUE
  /\ is_stopped' = (discovering /\ is_stopped)
  /\ UNCHANGED <<peer_states, session, sessions, target, stop, sessions_copy>>

(* A mutant: the loop goes on when it is told to stop.                      *)
NextTurnAlways ==
  /\ at = "sleep"
  /\ at' = "mark"
  /\ UNCHANGED <<peer_states, session, sessions, ready_peers, to_connect, target,
                 stop_vars>>

NextTurn ==
  /\ at = "sleep"
  /\ at' = IF is_stopped THEN "done" ELSE "mark"
  /\ UNCHANGED <<peer_states, session, sessions, ready_peers, to_connect, target,
                 stop_vars>>

(* A mutant: the first pass asks IsConnected instead.                       *)
MarkUnconnected ==
  /\ at = "mark"
  /\ MarkFailed({session[i].peer : i \in {j \in sessions : Status(j) # "connected"}})
  /\ at' = "erase"
  /\ UNCHANGED <<session, sessions, ready_peers, to_connect, target, stop_vars>>

(* Each pass asks every session IsTerminated.                               *)
MarkTerminated ==
  /\ at = "mark"
  /\ MarkFailed({session[i].peer : i \in Terminated})
  /\ at' = "erase"
  /\ UNCHANGED <<session, sessions, ready_peers, to_connect, target, stop_vars>>

EraseTerminated ==
  /\ at = "erase"
  /\ sessions' = sessions \ Terminated
  /\ session' = [i \in SessionIds |-> IF i \in Terminated THEN Free ELSE session[i]]
  /\ at' = "slots"
  /\ UNCHANGED <<peer_states, ready_peers, to_connect, target, stop_vars>>

(* Mutants: the cap is not compared first; one slot is kept back.           *)
CountSlotsUnchecked ==
  /\ at = "slots"
  /\ at' = "take"
  /\ to_connect' = MaxConnections - ActiveConnectionCount
  /\ UNCHANGED <<peer_states, session, sessions, ready_peers, target, stop_vars>>

CountOneSlotLess ==
  /\ at = "slots"
  /\ IF ActiveConnectionCount < MaxConnections
     THEN at' = "take" /\ to_connect' = MaxConnections - ActiveConnectionCount - 1
     ELSE at' = "sleep" /\ UNCHANGED to_connect
  /\ UNCHANGED <<peer_states, session, sessions, ready_peers, target, stop_vars>>

CountSlots ==
  /\ at = "slots"
  /\ IF ActiveConnectionCount < MaxConnections
     THEN at' = "take" /\ to_connect' = MaxConnections - ActiveConnectionCount
     ELSE at' = "sleep" /\ UNCHANGED to_connect
  /\ UNCHANGED <<peer_states, session, sessions, ready_peers, target, stop_vars>>

-----------------------------------------------------------------------------
(* Stop, called by RunSession's thread once discovery has been started.     *)
BeginStop ==
  /\ discovering /\ stop = "no"
  /\ is_stopped' = TRUE
  /\ stop' = "joining"
  /\ UNCHANGED <<peer_states, session, sessions, loop_vars, discovering, sessions_copy>>

(* A mutant: the sessions are copied before discovery is joined.            *)
CopyBeforeJoin ==
  /\ stop = "joining"
  /\ sessions_copy' = sessions
  /\ sessions' = {}
  /\ stop' = "stopping"
  /\ UNCHANGED <<peer_states, session, loop_vars, is_stopped, discovering>>

JoinDiscovery ==
  /\ stop = "joining"
  /\ at = "done"
  /\ sessions_copy' = sessions
  /\ sessions' = {}
  /\ stop' = "stopping"
  /\ UNCHANGED <<peer_states, session, loop_vars, is_stopped, discovering>>

(* PeerSession::Stop: set is_terminated, close the socket, join the thread. *)
StopSession(i) ==
  /\ stop = "stopping"
  /\ i \in sessions_copy
  /\ session' = [session EXCEPT ![i] = Free]
  /\ sessions_copy' = sessions_copy \ {i}
  /\ UNCHANGED <<peer_states, sessions, loop_vars, is_stopped, discovering, stop>>

StopReturns ==
  /\ stop = "stopping"
  /\ sessions_copy = {}
  /\ stop' = "stopped"
  /\ UNCHANGED <<peer_states, session, sessions, loop_vars, is_stopped, discovering,
                 sessions_copy>>

ConnectStep ==
  \/ TakeNewPeers
  \/ \E p \in Peers : ConnectToPeer(p)
  \/ \E i \in SessionIds : StartSession(i)
  \/ StartFails
  \/ \E i \in SessionIds : ListSession(i)
  \/ MarkConnected
  \/ LeaveLoop
  \/ NextTurn
  \/ MarkTerminated
  \/ EraseTerminated
  \/ CountSlots

StopStep == JoinDiscovery \/ (\E i \in SessionIds : StopSession(i)) \/ StopReturns

SessionThread(i) == Handshake(i) \/ LoseConnection(i) \/ GiveUp(i)

Next ==
  \/ ConnectStep
  \/ \E i \in SessionIds : SessionThread(i)
  \/ \E new_peers \in SUBSET Peers : AddPeers(new_peers)
  \/ BeginStop
  \/ StopStep

Spec == Init /\ [][Next]_vars
-----------------------------------------------------------------------------
Live(i) == Status(i) \in {"connecting", "connected"}

(* A peer never has two sessions, whatever order trackers name it in and    *)
(* sessions end in: both would take pieces and fight over one remote slot.  *)
OneSessionPerPeer ==
  \A i, j \in SessionIds :
    session[i] # Free /\ session[j] # Free /\ session[i].peer = session[j].peer => i = j

(* A peer that waits for a connection has no live session: a terminated     *)
(* session is the only kind cleanup marks as failed.                        *)
WaitingPeerIsIdle ==
  \A i \in SessionIds : Live(i) => session[i].peer \notin WaitingPeers

(* A session's thread ends with Stop: no session that discovery was just    *)
(* starting escapes, and none is started later.                             *)
StopLeavesNoSession ==
  stop = "stopped" => sessions = {} /\ \A i \in SessionIds : session[i] = Free

(* src/README.md:31 promises this.  ConnectToPeer counts the sessions that  *)
(* have finished their handshake when it starts one more.                   *)
AtMostMaxConnections ==
  Cardinality({i \in SessionIds : Status(i) = "connected"}) <= MaxConnections

-----------------------------------------------------------------------------
(* Every thread is run; peers and the caller of Stop do as they like.       *)
FairSpec ==
  /\ Spec
  /\ WF_vars(ConnectStep)
  /\ WF_vars(StopStep)

(* As long as there is a slot for every peer that is known, each waiting    *)
(* peer gets its turn.  (Of more peers than slots, those taken and not      *)
(* connected are marked kConnecting and never looked at again.)             *)
KnownPeers == {p \in Peers : peer_states[p] # "unknown"}

WaitingPeerIsTried ==
  [](Cardinality(KnownPeers) <= MaxConnections) =>
    \A p \in Peers : p \in WaitingPeers ~> (target = p \/ is_stopped)

(* Stop returns, in whatever turn it finds the discovery loop.              *)
StopReturnsEventually == (stop = "joining") ~> (stop = "stopped")
=============================================================================
