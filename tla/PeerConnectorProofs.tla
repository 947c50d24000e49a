------------------------ MODULE PeerConnectorProofs ------------------------
(***************************************************************************)
(* Type correctness of PeerConnector, that a peer never has two sessions,  *)
(* and that Stop leaves none, for any number of peers, session objects and *)
(* slots.                                                                  *)
(***************************************************************************)
EXTENDS PeerConnector, FiniteSetTheorems, TLAPS

USE ConnectorAssumption

(* Both counts the connecting thread computes with are natural numbers.     *)
LEMMA CountsAreNat ==
  /\ Cardinality(WaitingPeers) \in Nat
  /\ sessions \subseteq SessionIds => ActiveConnectionCount \in Nat
<1>1. IsFiniteSet(WaitingPeers)
  BY FS_Subset DEF ConnectorAssumption, WaitingPeers
<1>2. ASSUME sessions \subseteq SessionIds
      PROVE  IsFiniteSet(ActiveConnections)
  BY <1>2, FS_Subset DEF ConnectorAssumption, ActiveConnections
<1> QED
  BY <1>1, <1>2, FS_CardinalityType DEF ActiveConnectionCount

LEMMA MarkFailedType ==
  ASSUME TypeOK, NEW failed, MarkFailed(failed)
  PROVE  peer_states' \in [Peers -> PeerState]
BY DEF TypeOK, MarkFailed, PeerState

(* Every step keeps the types: in particular to_connect, a size_t in the    *)
(* code, is never taken below zero.                                         *)
LEMMA TypeStep ==
  ASSUME TypeOK, [Next]_vars
  PROVE  TypeOK'
<1> USE DEF loop_vars, stop_vars
<1>1. CASE TakeNewPeers
  BY <1>1, CountsAreNat DEF TypeOK, TakeNewPeers, WaitingPeers, PeerState
<1>2. ASSUME NEW p \in Peers, ConnectToPeer(p)
      PROVE  TypeOK'
  BY <1>2 DEF TypeOK, ConnectToPeer, InLoop
<1>3. ASSUME NEW i \in SessionIds, StartSession(i)
      PROVE  TypeOK'
  <2>1. target \in Peers
    BY <1>3 DEF TypeOK, StartSession
  <2> QED
    BY <1>3, <2>1 DEF TypeOK, StartSession, SessionType
<1>4. CASE StartFails
  BY <1>4, MarkFailedType DEF TypeOK, StartFails
<1>5. ASSUME NEW i \in SessionIds, ListSession(i)
      PROVE  TypeOK'
  BY <1>5 DEF TypeOK, ListSession
<1>6. CASE MarkConnected
  BY <1>6 DEF TypeOK, MarkConnected, PeerState
<1>7. CASE LeaveLoop
  BY <1>7 DEF TypeOK, LeaveLoop
<1>8. CASE NextTurn
  BY <1>8 DEF TypeOK, NextTurn
<1>9. CASE MarkTerminated
  BY <1>9, MarkFailedType DEF TypeOK, MarkTerminated
<1>10. CASE EraseTerminated
  BY <1>10 DEF TypeOK, EraseTerminated, SessionType
<1>11. CASE CountSlots
  BY <1>11, CountsAreNat DEF TypeOK, CountSlots, ConnectorAssumption
<1>12. ASSUME NEW i \in SessionIds, SessionThread(i)
       PROVE  TypeOK'
  <2>1. session[i] \in [peer : Peers, status : {"connecting", "connected", "terminated"}]
    BY <1>12 DEF TypeOK, SessionType, Free, SessionThread, Handshake, LoseConnection, GiveUp,
                 SetStatus, Status
  <2> QED
    BY <1>12, <2>1 DEF TypeOK, SessionType, SessionThread, Handshake, LoseConnection,
                       GiveUp, SetStatus
<1>13. ASSUME NEW new_peers \in SUBSET Peers, AddPeers(new_peers)
       PROVE  TypeOK'
  BY <1>13 DEF TypeOK, AddPeers, PeerState
<1>14. CASE BeginStop
  BY <1>14 DEF TypeOK, BeginStop
<1>15. CASE StopStep
  BY <1>15 DEF TypeOK, StopStep, JoinDiscovery, StopSession, StopReturns, SessionType
<1>16. CASE UNCHANGED vars
  BY <1>16 DEF TypeOK, vars
<1> QED
  BY <1>1, <1>2, <1>3, <1>4, <1>5, <1>6, <1>7, <1>8, <1>9, <1>10, <1>11, <1>12, <1>13,
     <1>14, <1>15, <1>16 DEF Next, ConnectStep

(* TypeOK holds in every reachable state.                                   *)
THEOREM TypeCorrect == Spec => []TypeOK
<1>1. ASSUME Init
      PROVE  TypeOK
  <2>1. peer_states \in [Peers -> PeerState]
    BY <1>1 DEF Init, PeerState
  <2> QED
    BY <1>1, <2>1 DEF Init, TypeOK, SessionType
<1> QED
  BY <1>1, TypeStep, PTL DEF Spec
-----------------------------------------------------------------------------
(* The inductive invariant.  A peer that is offered for a connection has no *)
(* session, or cleanup is about to erase it; a peer that was taken is       *)
(* reserved: connecting, and without a session until its own is started;    *)
(* every session is in the vector, in the hands of Stop, or being listed.   *)
OfferedPeersAreFree ==
  \A i \in SessionIds :
    session[i] # Free /\ session[i].peer \in WaitingPeers
      => at = "erase" /\ i \in Terminated

TakenPeersAreReserved ==
  /\ ready_peers # {} => at \in {"next", "start", "list", "connected"}
  /\ \A p \in ready_peers :
       peer_states[p] = "connecting" /\ \A i \in SessionIds : session[i].peer # p
  /\ target # NoPeer => peer_states[target] = "connecting" /\ target \notin ready_peers
  /\ at = "start" => \A i \in SessionIds : session[i].peer # target

SessionsAreKept ==
  \A i \in SessionIds :
    session[i] # Free =>
      i \in sessions \cup sessions_copy \/ (at = "list" /\ session[i].peer = target)

StopFollowsDiscovery ==
  /\ at = "done" => is_stopped
  /\ stop # "no" => discovering /\ is_stopped
  /\ stop \in {"stopping", "stopped"} => at = "done" /\ sessions = {}
  /\ stop # "stopping" => sessions_copy = {}

ConnectorInv ==
  /\ OneSessionPerPeer
  /\ OfferedPeersAreFree
  /\ TakenPeersAreReserved
  /\ SessionsAreKept
  /\ StopFollowsDiscovery

LEMMA ConnectorInvInitially == Init => ConnectorInv
BY DEF Init, ConnectorInv, OneSessionPerPeer, OfferedPeersAreFree, TakenPeersAreReserved,
       SessionsAreKept, StopFollowsDiscovery

(* Only session objects that are not free have a peer.                      *)
LEMMA FreeHasNoPeer ==
  ASSUME TypeOK, NEW i \in SessionIds
  PROVE  session[i] = Free <=> session[i].peer \notin Peers
BY DEF TypeOK, SessionType, Free, ConnectorAssumption

(* A session's own thread changes its status only.                          *)
LEMMA SessionThreadStep ==
  ASSUME TypeOK, ConnectorInv, NEW i \in SessionIds, SessionThread(i)
  PROVE  ConnectorInv'
<1>1. PICK from \in {"connecting", "connected"},
           to \in {"connecting", "connected", "terminated"} : SetStatus(i, from, to)
  BY DEF SessionThread, Handshake, LoseConnection, GiveUp
<1>2. /\ \A j \in SessionIds : session'[j].peer = session[j].peer
      /\ \A j \in SessionIds : session'[j] = Free <=> session[j] = Free
      /\ \A j \in SessionIds : Status(j) = "terminated" => session'[j] = session[j]
  BY <1>1 DEF SetStatus, Status, TypeOK, SessionType, Free
<1>3. UNCHANGED <<peer_states, sessions, loop_vars, stop_vars>>
  BY <1>1 DEF SetStatus
<1> QED
  BY <1>2, <1>3 DEF ConnectorInv, OneSessionPerPeer, OfferedPeersAreFree,
     TakenPeersAreReserved, SessionsAreKept, StopFollowsDiscovery, WaitingPeers, Terminated,
     Status, loop_vars, stop_vars

(* Taking reserves the peers that wait, none of which has a session.        *)
LEMMA TakeStep ==
  ASSUME TypeOK, ConnectorInv, TakeNewPeers
  PROVE  ConnectorInv'
<1>1. \A i \in SessionIds : session[i].peer \notin WaitingPeers
  BY FreeHasNoPeer DEF ConnectorInv, OfferedPeersAreFree, TakeNewPeers, WaitingPeers
<1>2. \A p \in Peers : p \in WaitingPeers' => FALSE
  BY DEF TakeNewPeers, WaitingPeers
<1>3. OfferedPeersAreFree'
  BY <1>2 DEF OfferedPeersAreFree, TakeNewPeers, WaitingPeers
<1>4. TakenPeersAreReserved'
  <2>1. target = NoPeer
    BY DEF TypeOK, TakeNewPeers
  <2>2. \A p \in WaitingPeers : p \in Peers
    BY DEF WaitingPeers
  <2> QED
    BY <1>1, <2>1, <2>2 DEF TakenPeersAreReserved, TakeNewPeers
<1> QED
  BY <1>3, <1>4 DEF ConnectorInv, OneSessionPerPeer, SessionsAreKept, StopFollowsDiscovery,
                    TakeNewPeers, stop_vars

LEMMA ConnectStartStep ==
  ASSUME TypeOK, ConnectorInv, NEW p \in Peers, ConnectToPeer(p)
  PROVE  ConnectorInv'
<1>1. at = "next" /\ at' \in {"next", "start"} /\ target = NoPeer
  BY DEF TypeOK, ConnectToPeer, InLoop
<1>2. TakenPeersAreReserved'
  BY <1>1 DEF ConnectorInv, TakenPeersAreReserved, ConnectToPeer
<1>3. OfferedPeersAreFree'
  BY <1>1 DEF ConnectorInv, OfferedPeersAreFree, ConnectToPeer, WaitingPeers
<1> QED
  BY <1>1, <1>2, <1>3 DEF ConnectorInv, OneSessionPerPeer, SessionsAreKept,
                          StopFollowsDiscovery, ConnectToPeer, stop_vars

(* The new session is the only one of its peer.                             *)
LEMMA StartStep ==
  ASSUME TypeOK, ConnectorInv, NEW i \in SessionIds, StartSession(i)
  PROVE  ConnectorInv'
<1>1. /\ at = "start" /\ target \in Peers
      /\ peer_states[target] = "connecting" /\ target \notin ready_peers
      /\ \A j \in SessionIds : session[j].peer # target
  BY DEF TypeOK, ConnectorInv, TakenPeersAreReserved, StartSession, ConnectorAssumption
<1>2. /\ session'[i] = [peer |-> target, status |-> "connecting"]
      /\ \A j \in SessionIds \ {i} : session'[j] = session[j]
  BY DEF TypeOK, StartSession
<1>3. OneSessionPerPeer'
  BY <1>1, <1>2 DEF ConnectorInv, OneSessionPerPeer, StartSession
<1>4. OfferedPeersAreFree'
  <2>1. target \notin WaitingPeers'
    BY <1>1 DEF StartSession, WaitingPeers
  <2>2. WaitingPeers' = WaitingPeers /\ at # "erase"
    BY <1>1 DEF StartSession, WaitingPeers
  <2> QED
    BY <1>2, <2>1, <2>2 DEF ConnectorInv, OfferedPeersAreFree
<1>5. TakenPeersAreReserved'
  BY <1>1, <1>2 DEF ConnectorInv, TakenPeersAreReserved, StartSession
<1>6. SessionsAreKept'
  BY <1>1, <1>2 DEF ConnectorInv, SessionsAreKept, StartSession, stop_vars
<1>7. StopFollowsDiscovery'
  BY <1>1 DEF ConnectorInv, StopFollowsDiscovery, StartSession, stop_vars
<1> QED
  BY <1>3, <1>4, <1>5, <1>6, <1>7 DEF ConnectorInv

LEMMA StartFailsStep ==
  ASSUME TypeOK, ConnectorInv, StartFails
  PROVE  ConnectorInv'
<1>1. at = "start" /\ target \in Peers /\ \A j \in SessionIds : session[j].peer # target
  BY DEF TypeOK, ConnectorInv, TakenPeersAreReserved, StartFails
<1>2. \A p \in Peers \ {target} : peer_states'[p] = peer_states[p]
  BY DEF StartFails, MarkFailed
<1>3. OfferedPeersAreFree'
  BY <1>1, <1>2 DEF ConnectorInv, OfferedPeersAreFree, StartFails, WaitingPeers
<1>4. TakenPeersAreReserved'
  BY <1>1, <1>2 DEF TypeOK, ConnectorInv, TakenPeersAreReserved, StartFails,
                    ConnectorAssumption
<1> QED
  BY <1>1, <1>3, <1>4 DEF ConnectorInv, OneSessionPerPeer, SessionsAreKept,
                          StopFollowsDiscovery, StartFails, stop_vars

(* The session that is being listed is the only one outside of the vector.  *)
LEMMA ListStep ==
  ASSUME TypeOK, ConnectorInv, NEW i \in SessionIds, ListSession(i)
  PROVE  ConnectorInv'
<1>1. at = "list" /\ target \in Peers /\ session[i].peer = target /\ session[i] # Free
  BY DEF TypeOK, ListSession, Free, ConnectorAssumption
<1>2. SessionsAreKept'
  BY <1>1 DEF ConnectorInv, OneSessionPerPeer, SessionsAreKept, ListSession, stop_vars
<1>3. OfferedPeersAreFree'
  BY <1>1 DEF ConnectorInv, OfferedPeersAreFree, ListSession, WaitingPeers
<1> QED
  BY <1>1, <1>2, <1>3 DEF ConnectorInv, OneSessionPerPeer, TakenPeersAreReserved,
                          StopFollowsDiscovery, ListSession, stop_vars

LEMMA MarkConnectedStep ==
  ASSUME TypeOK, ConnectorInv, MarkConnected
  PROVE  ConnectorInv'
<1>1. at = "connected" /\ target \in Peers /\ target \notin ready_peers
  BY DEF TypeOK, ConnectorInv, TakenPeersAreReserved, MarkConnected, ConnectorAssumption
<1>2. /\ peer_states'[target] = "connected"
      /\ \A p \in Peers \ {target} : peer_states'[p] = peer_states[p]
  BY <1>1 DEF TypeOK, MarkConnected
<1>3. OfferedPeersAreFree'
  BY <1>1, <1>2 DEF ConnectorInv, OfferedPeersAreFree, MarkConnected, WaitingPeers
<1>4. TakenPeersAreReserved'
  BY <1>1, <1>2 DEF TypeOK, ConnectorInv, TakenPeersAreReserved, MarkConnected
<1> QED
  BY <1>1, <1>3, <1>4 DEF ConnectorInv, OneSessionPerPeer, SessionsAreKept,
                          StopFollowsDiscovery, MarkConnected, stop_vars

(* Between two turns no peer is taken and none is being connected.          *)
LEMMA TurnStep ==
  ASSUME TypeOK, ConnectorInv, LeaveLoop \/ NextTurn \/ CountSlots
  PROVE  ConnectorInv'
<1>1. at \in {"next", "sleep", "slots"} /\ at' \in {"sleep", "mark", "done", "take"}
  BY DEF LeaveLoop, NextTurn, CountSlots
<1>2. target = NoPeer /\ target' = NoPeer /\ ready_peers' = {}
  BY <1>1 DEF TypeOK, ConnectorInv, TakenPeersAreReserved, LeaveLoop, NextTurn, CountSlots
<1>3. UNCHANGED <<peer_states, session, sessions, stop, sessions_copy>>
  BY DEF LeaveLoop, NextTurn, CountSlots, stop_vars
<1>4. StopFollowsDiscovery'
  BY <1>1, <1>3 DEF ConnectorInv, StopFollowsDiscovery, LeaveLoop, NextTurn, CountSlots,
                    stop_vars
<1> QED
  BY <1>1, <1>2, <1>3, <1>4 DEF ConnectorInv, OneSessionPerPeer, OfferedPeersAreFree,
                                TakenPeersAreReserved, SessionsAreKept, WaitingPeers

(* The first pass offers the peers of sessions that the second erases ...   *)
LEMMA MarkStep ==
  ASSUME TypeOK, ConnectorInv, MarkTerminated
  PROVE  ConnectorInv'
<1>1. at = "mark" /\ at' = "erase" /\ target = NoPeer /\ ready_peers = {}
  BY DEF TypeOK, ConnectorInv, TakenPeersAreReserved, MarkTerminated
<1>2. UNCHANGED <<session, sessions, ready_peers, target, stop_vars>>
  BY DEF MarkTerminated
<1>3. OfferedPeersAreFree'
  <2> SUFFICES ASSUME NEW i \in SessionIds, session[i] # Free,
                      session[i].peer \in WaitingPeers'
               PROVE  i \in Terminated
    BY <1>1, <1>2 DEF OfferedPeersAreFree, Terminated, Status
  <2>1. session[i].peer \in Peers /\ session[i].peer \notin WaitingPeers
    BY <1>1, FreeHasNoPeer DEF ConnectorInv, OfferedPeersAreFree
  <2>2. PICK j \in Terminated : session[j].peer = session[i].peer
    BY <2>1 DEF MarkTerminated, MarkFailed, WaitingPeers
  <2>3. j \in SessionIds /\ session[j] # Free
    BY <2>1, <2>2, FreeHasNoPeer DEF Terminated, TypeOK
  <2> QED
    BY <2>2, <2>3 DEF ConnectorInv, OneSessionPerPeer
<1> QED
  BY <1>1, <1>2, <1>3 DEF ConnectorInv, OneSessionPerPeer, TakenPeersAreReserved,
                          SessionsAreKept, StopFollowsDiscovery, stop_vars

(* ... together with those that terminated in between.                      *)
LEMMA EraseStep ==
  ASSUME TypeOK, ConnectorInv, EraseTerminated
  PROVE  ConnectorInv'
<1>1. at = "erase" /\ at' = "slots" /\ target = NoPeer /\ ready_peers = {}
  BY DEF TypeOK, ConnectorInv, TakenPeersAreReserved, EraseTerminated
<1>2. UNCHANGED <<peer_states, ready_peers, target, stop_vars>>
  BY DEF EraseTerminated
<1>3. \A i \in SessionIds : session'[i] # Free => session'[i] = session[i] /\ i \notin Terminated
  BY DEF EraseTerminated
<1> QED
  BY <1>1, <1>2, <1>3 DEF ConnectorInv, OneSessionPerPeer, OfferedPeersAreFree,
     TakenPeersAreReserved, SessionsAreKept, StopFollowsDiscovery, EraseTerminated,
     WaitingPeers, stop_vars

(* No session belongs to a peer no tracker has named: a peer that becomes   *)
(* known has none.                                                          *)
SessionPeersAreKnown ==
  \A i \in SessionIds : session[i] # Free => peer_states[session[i].peer] # "unknown"

LEMMA AddPeersStep ==
  ASSUME TypeOK, ConnectorInv, SessionPeersAreKnown,
         NEW new_peers \in SUBSET Peers, AddPeers(new_peers)
  PROVE  ConnectorInv'
<1>1. UNCHANGED <<session, sessions, loop_vars, stop_vars>>
  BY DEF AddPeers
<1>2. \A p \in Peers : peer_states[p] # "unknown" => peer_states'[p] = peer_states[p]
  BY DEF AddPeers
<1>3. OfferedPeersAreFree'
  <2> SUFFICES ASSUME NEW i \in SessionIds, session[i] # Free,
                      session[i].peer \in WaitingPeers'
               PROVE  session[i].peer \in WaitingPeers
    BY <1>1 DEF ConnectorInv, OfferedPeersAreFree, Terminated, Status, loop_vars
  <2> QED
    BY <1>2, FreeHasNoPeer DEF SessionPeersAreKnown, WaitingPeers
<1>4. TakenPeersAreReserved'
  <2>1. target # NoPeer => target \in Peers
    BY DEF TypeOK
  <2> QED
    BY <1>1, <1>2, <2>1 DEF TypeOK, ConnectorInv, TakenPeersAreReserved, loop_vars
<1> QED
  BY <1>1, <1>3, <1>4 DEF ConnectorInv, OneSessionPerPeer, SessionsAreKept,
                          StopFollowsDiscovery, loop_vars, stop_vars

LEMMA StopStepKeeps ==
  ASSUME TypeOK, ConnectorInv, BeginStop \/ StopStep
  PROVE  ConnectorInv'
<1>1. UNCHANGED <<peer_states, loop_vars>>
  BY DEF BeginStop, StopStep, JoinDiscovery, StopSession, StopReturns
<1>2. CASE BeginStop
  BY <1>1, <1>2 DEF BeginStop, ConnectorInv, OneSessionPerPeer, OfferedPeersAreFree,
     TakenPeersAreReserved, SessionsAreKept, StopFollowsDiscovery, WaitingPeers, Terminated,
     Status, loop_vars
<1>3. CASE StopStep
  <2>1. at = "done" /\ is_stopped /\ stop \in {"joining", "stopping"} /\ discovering
    BY <1>3 DEF StopStep, JoinDiscovery, StopSession, StopReturns, ConnectorInv,
                StopFollowsDiscovery
  <2>2. \A i \in SessionIds : session'[i] # Free => session'[i] = session[i]
    BY <1>3 DEF StopStep, JoinDiscovery, StopSession, StopReturns, TypeOK
  <2>3. \A i \in SessionIds : session'[i].peer \in Peers => session'[i] = session[i]
    BY <2>2 DEF Free, ConnectorAssumption
  <2>4. OneSessionPerPeer'
    BY <2>2 DEF ConnectorInv, OneSessionPerPeer
  <2>5. OfferedPeersAreFree'
    BY <1>1, <2>1, <2>2 DEF ConnectorInv, OfferedPeersAreFree, WaitingPeers, loop_vars
  <2>6. TakenPeersAreReserved'
    BY <1>1, <2>1, <2>3 DEF TypeOK, ConnectorInv, TakenPeersAreReserved, loop_vars
  <2>7. SessionsAreKept'
    <3>1. \A i \in SessionIds : session[i] # Free => i \in sessions \cup sessions_copy
      BY <2>1 DEF ConnectorInv, SessionsAreKept
    <3>2. CASE JoinDiscovery
      BY <3>1, <3>2, <2>2 DEF JoinDiscovery, SessionsAreKept, ConnectorInv,
                              StopFollowsDiscovery
    <3>3. ASSUME NEW i \in SessionIds, StopSession(i)
          PROVE  SessionsAreKept'
      BY <3>1, <3>3 DEF StopSession, SessionsAreKept, TypeOK
    <3>4. CASE StopReturns
      BY <3>1, <3>4 DEF StopReturns, SessionsAreKept
    <3> QED
      BY <1>3, <3>2, <3>3, <3>4 DEF StopStep
  <2>8. StopFollowsDiscovery'
    BY <1>1, <1>3, <2>1 DEF ConnectorInv, StopFollowsDiscovery, StopStep, JoinDiscovery,
       StopSession, StopReturns, loop_vars
  <2> QED
    BY <2>4, <2>5, <2>6, <2>7, <2>8 DEF ConnectorInv
<1> QED
  BY <1>2, <1>3

LEMMA KnownStep ==
  ASSUME TypeOK, ConnectorInv, SessionPeersAreKnown, Next
  PROVE  SessionPeersAreKnown'
<1>1. \A p \in Peers : peer_states[p] # "unknown" => peer_states'[p] # "unknown"
  BY DEF Next, ConnectStep, SessionThread, StopStep, TakeNewPeers, ConnectToPeer,
     StartSession, StartFails, ListSession, MarkConnected, LeaveLoop, NextTurn,
     MarkTerminated, EraseTerminated, CountSlots, Handshake, LoseConnection, GiveUp,
     SetStatus, AddPeers, BeginStop, JoinDiscovery, StopSession, StopReturns, MarkFailed,
     TypeOK
<1>2. ASSUME NEW i \in SessionIds, StartSession(i)
      PROVE  SessionPeersAreKnown'
  BY <1>2 DEF SessionPeersAreKnown, StartSession, TypeOK, ConnectorInv,
              TakenPeersAreReserved, ConnectorAssumption
<1>3. ASSUME ~ \E i \in SessionIds : StartSession(i)
      PROVE  \A i \in SessionIds :
               session'[i] # Free => session[i] # Free /\ session'[i].peer = session[i].peer
  <2>1. ASSUME NEW i \in SessionIds, SessionThread(i)
        PROVE  \A j \in SessionIds :
                 session'[j] # Free => session[j] # Free /\ session'[j].peer = session[j].peer
    BY <2>1 DEF SessionThread, Handshake, LoseConnection, GiveUp, SetStatus, Status, TypeOK,
                SessionType, Free
  <2> QED
    BY <1>3, <2>1 DEF Next, ConnectStep, StopStep, TakeNewPeers, ConnectToPeer, StartFails,
       ListSession, MarkConnected, LeaveLoop, NextTurn, MarkTerminated, EraseTerminated,
       CountSlots, AddPeers, BeginStop, JoinDiscovery, StopSession, StopReturns, TypeOK
<1> QED
  BY <1>1, <1>2, <1>3, FreeHasNoPeer DEF SessionPeersAreKnown

LEMMA ConnectorInvStep ==
  ASSUME TypeOK, ConnectorInv, SessionPeersAreKnown, [Next]_vars
  PROVE  ConnectorInv' /\ SessionPeersAreKnown'
<1>1. CASE UNCHANGED vars
  BY <1>1 DEF vars, loop_vars, stop_vars, SessionPeersAreKnown, ConnectorInv,
     OneSessionPerPeer, OfferedPeersAreFree, TakenPeersAreReserved, SessionsAreKept,
     StopFollowsDiscovery, WaitingPeers, Terminated, Status
<1>2. CASE Next
  <2>1. ASSUME ConnectStep
        PROVE  ConnectorInv'
    BY <2>1, TakeStep, ConnectStartStep, StartStep, StartFailsStep, ListStep,
       MarkConnectedStep, TurnStep, MarkStep, EraseStep DEF ConnectStep
  <2> QED
    BY <1>2, <2>1, KnownStep, SessionThreadStep, AddPeersStep, StopStepKeeps DEF Next
<1> QED
  BY <1>1, <1>2

LEMMA ConnectorInvariant == Spec => [](TypeOK /\ ConnectorInv)
<1>1. Init => SessionPeersAreKnown
  BY DEF Init, SessionPeersAreKnown
<1>2. TypeOK /\ ConnectorInv /\ SessionPeersAreKnown /\ [Next]_vars
        => (ConnectorInv /\ SessionPeersAreKnown)'
  BY ConnectorInvStep
<1> QED
  BY <1>1, <1>2, ConnectorInvInitially, TypeCorrect, PTL DEF Spec

(* A peer never has two sessions.                                           *)
THEOREM NoDoubleSession == Spec => []OneSessionPerPeer
BY ConnectorInvariant, PTL DEF ConnectorInv

(* A peer that waits for a connection has no live session.                  *)
THEOREM WaitingMeansIdle == Spec => []WaitingPeerIsIdle
<1>1. TypeOK /\ ConnectorInv => WaitingPeerIsIdle
  BY DEF ConnectorInv, OfferedPeersAreFree, WaitingPeerIsIdle, Live, Status, Terminated, Free
<1> QED
  BY <1>1, ConnectorInvariant, PTL

(* When Stop has returned there is no session.                              *)
THEOREM StopIsFinal == Spec => []StopLeavesNoSession
<1>1. TypeOK /\ ConnectorInv => StopLeavesNoSession
  BY DEF ConnectorInv, SessionsAreKept, StopFollowsDiscovery, StopLeavesNoSession
<1> QED
  BY <1>1, ConnectorInvariant, PTL
=============================================================================
