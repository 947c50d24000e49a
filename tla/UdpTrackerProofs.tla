-------------------------- MODULE UdpTrackerProofs --------------------------
(***************************************************************************)
(* An announce over UDP never takes an answer meant for another one, and   *)
(* talks to the tracker it is made for only, for any number of trackers,   *)
(* addresses and announces.                                                *)
(***************************************************************************)
EXTENDS UdpTracker, TLAPS

(* A transaction id belongs to one request, and requests are of announces   *)
(* begun.                                                                   *)
IdsAreUnique ==
  /\ \A r \in requests : r.announce <= announces
  /\ \A r \in requests : r.transaction <= transaction_id
  /\ \A r, q \in requests : r.transaction = q.transaction => r = q

(* The request whose answer is awaited, by where the announce stands, and   *)
(* the server address still the tracker's own.                              *)
Awaited(action) ==
  \E r \in requests :
    /\ r.action = action
    /\ r.transaction = transaction_id
    /\ r.announce = announces
    /\ Owner[r.to] = Owner[asked]

Exchange ==
  /\ at \in {"connect", "wait_connect", "announce", "wait_announce"} =>
       Owner[server_address] = Owner[asked]
  /\ at = "wait_connect" => Awaited("connect")
  /\ at = "announce" => connection_id.issuer = Owner[asked]
  /\ at = "wait_announce" => Awaited("announce")

(* At most two ids are used by an announce.                                 *)
IdsUsed ==
  /\ announces > 0 \/ at = "idle"
  /\ at = "connect" => transaction_id <= 2 * announces - 2
  /\ at \in {"wait_connect", "announce"} => transaction_id <= 2 * announces - 1

IInv ==
  /\ TypeOK
  /\ IdsUsed
  /\ IdsAreUnique
  /\ Exchange
  /\ AnswerIsForThisAnnounce
  /\ AskedTrackerOnly

-----------------------------------------------------------------------------
LEMMA Cut ==
  ASSUME NEW n \in Nat
  PROVE  n % 65536 \in Nat /\ n \div 65536 \in Nat
OBVIOUS

LEMMA PortType == PortRead \in Nat
<1>1. Port \in Nat
  BY UdpAssumption, Cut DEF Port
<1> QED
  BY <1>1, Cut DEF PortRead

LEMMA RequestType ==
  ASSUME TypeOK, NEW request \in requests
  PROVE  /\ request.transaction \in Nat /\ request.announce \in Nat
         /\ Owner[request.to] \in Trackers
<1>1. request \in Request
  BY DEF TypeOK
<1>2. request.transaction \in Nat /\ request.announce \in Nat /\ request.to \in Addresses
  BY <1>1 DEF Request
<1> QED
  BY <1>2, UdpAssumption

(* An answer that is accepted answers a request with its transaction.       *)
LEMMA AnswerSource ==
  ASSUME TypeOK, NEW request \in requests, NEW answer \in AnswersTo(request)
  PROVE  /\ answer.transaction = request.transaction
         /\ answer.from \in Addresses /\ Owner[answer.from] = Owner[request.to]
         /\ answer.action # "other" => answer.action = request.action
         /\ answer.connection = [issuer |-> Owner[request.to],
                                 transaction |-> request.transaction]
         /\ answer.peers = [kind |-> "peers", tracker |-> Owner[request.to],
                            announce |-> request.announce]
<1>1. PICK action \in AnswerActions(request),
           address \in {a \in Addresses : Owner[a] = Owner[request.to]} :
        answer = [action      |-> action,
                  from        |-> address,
                  transaction |-> request.transaction,
                  connection  |-> [issuer      |-> Owner[request.to],
                                   transaction |-> request.transaction],
                  peers       |-> [kind     |-> "peers",
                                   tracker  |-> Owner[request.to],
                                   announce |-> request.announce]]
  BY DEF AnswersTo
<1>2. action \in {"other", request.action}
  BY DEF AnswerActions
<1> QED
  BY <1>1, <1>2

LEMMA InitHolds == Init => IInv
<1> SUFFICES ASSUME Init
             PROVE  IInv
  OBVIOUS
<1>1. TypeOK
  BY UdpAssumption DEF Init, TypeOK, ConnectionId
<1>2. IdsUsed /\ IdsAreUnique /\ Exchange /\ AnswerIsForThisAnnounce /\ AskedTrackerOnly
  BY DEF Init, IdsUsed, IdsAreUnique, Exchange, AnswerIsForThisAnnounce,
         AskedTrackerOnly
<1> QED
  BY <1>1, <1>2 DEF IInv

(* A step that sends nothing and begins nothing leaves what is said of the  *)
(* requests as it is.                                                       *)
LEMMA RequestsStay ==
  ASSUME IInv, UNCHANGED <<requests, transaction_id, announces, asked>>
  PROVE  IdsAreUnique' /\ AskedTrackerOnly'
BY DEF IInv, IdsAreUnique, AskedTrackerOnly

LEMMA CreateStep ==
  ASSUME IInv, NEW address \in Addresses, CreateTracker(address)
  PROVE  IInv'
<1> USE DEF IInv, CreateTracker
<1>1. TypeOK'
  BY UdpAssumption DEF TypeOK, Failed
<1>2. IdsUsed'
  BY UdpAssumption DEF TypeOK, IdsUsed
<1>3. Exchange' /\ AnswerIsForThisAnnounce'
  BY DEF Exchange, AnswerIsForThisAnnounce
<1>4. \A r \in requests : r.announce \in Nat /\ r.announce <= announces
  BY RequestType DEF IdsAreUnique
<1>5. IdsAreUnique' /\ AskedTrackerOnly'
  BY <1>4, UdpAssumption DEF TypeOK, IdsAreUnique, AskedTrackerOnly
<1> QED
  BY <1>1, <1>2, <1>3, <1>5

LEMMA FailStep ==
  ASSUME IInv, CallFails
  PROVE  IInv'
<1> USE DEF IInv, CallFails, Throw
<1>1. TypeOK'
  BY DEF TypeOK
<1>2. IdsUsed' /\ Exchange' /\ AnswerIsForThisAnnounce'
  BY DEF IdsUsed, Exchange, AnswerIsForThisAnnounce
<1> QED
  BY <1>1, <1>2, RequestsStay

(* Sending draws a new id, for one new request to the asked tracker.        *)
LEMMA SendStep ==
  ASSUME IInv, NEW new \in Request,
         at \in {"connect", "announce"},
         new.action = at, new.to = server_address, new.announce = announces,
         new.transaction = transaction_id',
         new.action = "announce" => new.connection.issuer = Owner[asked],
         at' = IF at = "connect" THEN "wait_connect" ELSE "wait_announce",
         transaction_id' = transaction_id + 1,
         requests' = requests \cup {new},
         UNCHANGED <<announces, asked, server_address, connection_id, outcome>>
  PROVE  IInv'
<1>1. transaction_id \in Nat /\ announces \in Nat /\ transaction_id' \in 0 .. 2 * announces
  BY DEF IInv, TypeOK, IdsUsed
<1>2. TypeOK'
  BY <1>1 DEF IInv, TypeOK
<1>3. IdsUsed'
  BY <1>1 DEF IInv, IdsUsed
<1>4. \A r \in requests : r.transaction \in Nat /\ r.transaction <= transaction_id
  <2>1. \A r \in requests : r.transaction \in Nat
    BY RequestType DEF IInv
  <2> QED
    BY <2>1 DEF IInv, IdsAreUnique
<1>5. IdsAreUnique'
  <2>0. \A r \in requests' : r.announce <= announces'
    BY <1>1 DEF IInv, IdsAreUnique
  <2>1. \A r \in requests' : r.transaction <= transaction_id'
    BY <1>1, <1>4
  <2>2. \A r \in requests : r.transaction # new.transaction
    BY <1>1, <1>4
  <2>3. \A r, q \in requests' : r.transaction = q.transaction => r = q
    BY <2>2 DEF IInv, IdsAreUnique
  <2> QED
    BY <2>0, <2>1, <2>3 DEF IdsAreUnique
<1>6. Owner[server_address] = Owner[asked]
  BY DEF IInv, Exchange
<1>7. Exchange'
  <2>1. Awaited(new.action)'
    BY <1>6 DEF Awaited
  <2> QED
    BY <1>6, <2>1 DEF Exchange
<1>8. AnswerIsForThisAnnounce'
  BY DEF IInv, AnswerIsForThisAnnounce
<1>9. AskedTrackerOnly'
  BY <1>6 DEF IInv, AskedTrackerOnly
<1> QED
  BY <1>2, <1>3, <1>5, <1>7, <1>8, <1>9 DEF IInv

LEMMA NewRequestType ==
  ASSUME IInv, transaction_id' = transaction_id + 1,
         NEW action \in {"connect", "announce"}, NEW connection \in ConnectionId,
         NEW port \in Nat
  PROVE  [action |-> action, to |-> server_address, transaction |-> transaction_id',
          connection |-> connection, announce |-> announces, port |-> port] \in Request
<1>1. transaction_id' \in Nat /\ server_address \in Addresses /\ announces \in Nat
  BY UdpAssumption DEF IInv, TypeOK
<1> QED
  BY <1>1 DEF Request

LEMMA SendConnectStep ==
  ASSUME IInv, SendConnect
  PROVE  IInv'
<1> DEFINE new == [action |-> "connect", to |-> server_address,
                   transaction |-> transaction_id', connection |-> NoConnection,
                   announce |-> announces, port |-> 0]
<1>1. NoConnection \in ConnectionId /\ 0 \in Nat
  BY DEF ConnectionId
<1>2. new \in Request
  BY <1>1, NewRequestType DEF SendConnect
<1>3. /\ at = "connect" /\ at' = "wait_connect" /\ transaction_id' = transaction_id + 1
      /\ requests' = requests \cup {new}
      /\ UNCHANGED <<announces, asked, server_address, connection_id, outcome>>
  BY DEF SendConnect
<1>4. /\ new.action = "connect" /\ new.to = server_address /\ new.announce = announces
      /\ new.transaction = transaction_id'
  OBVIOUS
<1> HIDE DEF new
<1> QED
  BY <1>2, <1>3, <1>4, SendStep

LEMMA SendAnnounceStep ==
  ASSUME IInv, SendAnnounce
  PROVE  IInv'
<1> DEFINE new == [action |-> "announce", to |-> server_address,
                   transaction |-> transaction_id', connection |-> connection_id,
                   announce |-> announces, port |-> PortRead]
<1>1. connection_id \in ConnectionId /\ connection_id.issuer = Owner[asked]
  BY DEF IInv, TypeOK, Exchange, SendAnnounce
<1>2. new \in Request
  BY <1>1, NewRequestType, PortType DEF SendAnnounce
<1>3. /\ at = "announce" /\ at' = "wait_announce" /\ transaction_id' = transaction_id + 1
      /\ requests' = requests \cup {new}
      /\ UNCHANGED <<announces, asked, server_address, connection_id, outcome>>
  BY DEF SendAnnounce
<1>4. /\ new.action = "announce" /\ new.to = server_address /\ new.announce = announces
      /\ new.transaction = transaction_id' /\ new.connection = connection_id
  OBVIOUS
<1> HIDE DEF new
<1> QED
  BY <1>1, <1>2, <1>3, <1>4, SendStep

(* The answer accepted by Connect comes from the tracker that was asked.    *)
LEMMA ReceiveConnectStep ==
  ASSUME IInv, NEW request \in requests, NEW answer \in AnswersTo(request),
         ReceiveConnect(answer)
  PROVE  IInv'
<1> USE DEF ReceiveConnect, Throw
<1>0. /\ answer.transaction = request.transaction
      /\ answer.from \in Addresses /\ Owner[answer.from] = Owner[request.to]
      /\ answer.connection = [issuer |-> Owner[request.to],
                              transaction |-> request.transaction]
  BY AnswerSource DEF IInv
<1>1. answer.connection \in ConnectionId
  BY <1>0, RequestType DEF IInv, ConnectionId
<1>2. TypeOK'
  BY <1>0, <1>1 DEF IInv, TypeOK
<1>3. IdsUsed' /\ AnswerIsForThisAnnounce'
  BY DEF IInv, IdsUsed, AnswerIsForThisAnnounce
<1>4. Exchange'
  <2>1. CASE answer.action = "connect" /\ answer.transaction = transaction_id
    <3>1. PICK r \in requests : r.transaction = transaction_id /\ Owner[r.to] = Owner[asked]
      BY DEF IInv, Exchange, Awaited
    <3>2. r = request
      BY <1>0, <2>1, <3>1 DEF IInv, IdsAreUnique
    <3>3. Owner[answer.from] = Owner[asked] /\ answer.connection.issuer = Owner[asked]
      BY <1>0, <3>1, <3>2
    <3> QED
      BY <2>1, <3>3 DEF Exchange
  <2>2. CASE ~(answer.action = "connect" /\ answer.transaction = transaction_id)
    BY <2>2 DEF Exchange
  <2> QED
    BY <2>1, <2>2
<1> QED
  BY <1>2, <1>3, <1>4, RequestsStay DEF IInv

(* The answer accepted by AnnounceWithConnection is to this announce.       *)
LEMMA ReceiveAnnounceStep ==
  ASSUME IInv, NEW request \in requests, NEW answer \in AnswersTo(request),
         ReceiveAnnounce(answer)
  PROVE  IInv'
<1> USE DEF ReceiveAnnounce, Throw
<1>0. /\ answer.transaction = request.transaction
      /\ answer.from \in Addresses
      /\ answer.peers = [kind |-> "peers", tracker |-> Owner[request.to],
                         announce |-> request.announce]
  BY AnswerSource DEF IInv
<1>1. at' = "idle"
  OBVIOUS
<1>2. answer.peers \in Peers
  BY <1>0, RequestType DEF IInv, Peers
<1>3. TypeOK'
  BY <1>0, <1>1, <1>2 DEF IInv, TypeOK
<1>4. IdsUsed' /\ Exchange'
  BY <1>1 DEF IdsUsed, Exchange
<1>5. AnswerIsForThisAnnounce'
  <2>1. CASE answer.action = "announce" /\ answer.transaction = transaction_id
    <3>1. PICK r \in requests : /\ r.transaction = transaction_id
                                /\ r.announce = announces
                                /\ Owner[r.to] = Owner[asked]
      BY DEF IInv, Exchange, Awaited
    <3>2. r = request
      BY <1>0, <2>1, <3>1 DEF IInv, IdsAreUnique
    <3>3. answer.peers = [kind |-> "peers", tracker |-> Owner[asked],
                          announce |-> announces]
      BY <1>0, <3>1, <3>2
    <3> QED
      BY <2>1, <3>3 DEF AnswerIsForThisAnnounce
  <2>2. CASE ~(answer.action = "announce" /\ answer.transaction = transaction_id)
    BY <2>2 DEF AnswerIsForThisAnnounce
  <2> QED
    BY <2>1, <2>2
<1> QED
  BY <1>3, <1>4, <1>5, RequestsStay DEF IInv

LEMMA StutterStep ==
  ASSUME IInv, UNCHANGED vars
  PROVE  IInv'
BY DEF vars, IInv, TypeOK, IdsUsed, IdsAreUnique, Exchange, Awaited,
       AnswerIsForThisAnnounce, AskedTrackerOnly

LEMMA NextStep == IInv /\ [Next]_vars => IInv'
BY CreateStep, FailStep, SendConnectStep, SendAnnounceStep, ReceiveConnectStep,
   ReceiveAnnounceStep, StutterStep
DEF Next, Client

LEMMA Invariance == Spec => []IInv
BY InitHolds, NextStep, PTL DEF Spec

(* Types, with the bound of two transactions per announce.                  *)
THEOREM TypeCorrect == Spec => []TypeOK
<1>1. IInv => TypeOK
  BY DEF IInv
<1> QED
  BY <1>1, Invariance, PTL

(* No late answer is ever taken for the one that is awaited.                *)
THEOREM LateAnswersAreRefused == Spec => []AnswerIsForThisAnnounce
<1>1. IInv => AnswerIsForThisAnnounce
  BY DEF IInv
<1> QED
  BY <1>1, Invariance, PTL

(* Whoever answers, an announce goes on with the tracker it was begun with. *)
THEOREM ExchangeStaysHome == Spec => []AskedTrackerOnly
<1>1. IInv => AskedTrackerOnly
  BY DEF IInv
<1> QED
  BY <1>1, Invariance, PTL
=============================================================================
