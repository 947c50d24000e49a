----------------------------- MODULE UdpTracker -----------------------------
(***************************************************************************)
(* UdpTracker (tracker/UdpTracker.cpp) over UdpConnection                  *)
(* (net/UdpConnection.cpp): announces, one after the other, each with a    *)
(* tracker object and a socket of its own.  An announce asks the tracker   *)
(* for a connection id and then, with it, for peers:                       *)
(*    idle          no announce under way                                  *)
(*    connect       the socket is made                                     *)
(*    wait_connect  in Receive, after the CONNECT request                  *)
(*    announce      Connect has returned an id                             *)
(*    wait_announce in Receive, after the ANNOUNCE request                 *)
(* Whatever goes wrong throws, and ends the announce; nothing is repeated. *)
(*                                                                         *)
(* Datagrams are lost, delayed and delivered twice, and a new socket may   *)
(* get the port of an old one: what comes to it is an answer to any        *)
(* request ever sent, `requests', or nothing before the timeout.           *)
(* Receive stores the sender's address in server_address, where the next   *)
(* Send goes: a tracker with several addresses may move the exchange.      *)
(*                                                                         *)
(* Transaction ids are drawn at random from 2^31; two are taken to be      *)
(* different, and are counted.                                             *)
(***************************************************************************)
EXTENDS Naturals

CONSTANTS
  Addresses,     \* where datagrams are sent to
  Trackers,
  Owner,         \* the tracker behind each address
  ListenPort,    \* kListenPort
  MaxAnnounces   \* a bound: announces made

ASSUME UdpAssumption ==
  /\ Owner \in [Addresses -> Trackers]
  /\ ListenPort \in Nat
  /\ MaxAnnounces \in Nat

VARIABLES
  at,
  announces,       \* the announce under way, or the last one
  asked,           \* the address its host name was resolved to
  server_address,
  transaction_id,
  connection_id,
  outcome,         \* what the last announce returned
  requests         \* the requests sent

vars == <<at, announces, asked, server_address, transaction_id, connection_id, outcome,
          requests>>

NoConnection == [issuer |-> "none", transaction |-> 0]

(* A tracker's connection ids, told apart by the CONNECT they answer.       *)
ConnectionId == {NoConnection} \cup [issuer : Trackers, transaction : Nat]

Failed == [kind |-> "error"]

(* The peers a tracker found for an announce.                               *)
Peers == [kind : {"peers"}, tracker : Trackers, announce : Nat]

(* A CONNECT carries the protocol's constant in place of a connection id.   *)
Request == [action : {"connect", "announce"}, to : Addresses, transaction : Nat,
            connection : ConnectionId, announce : Nat, port : Nat]

TypeOK ==
  /\ at \in {"idle", "connect", "wait_connect", "announce", "wait_announce"}
  /\ announces \in 0 .. MaxAnnounces
  /\ asked \in Addresses
  /\ server_address \in Addresses
  /\ transaction_id \in 0 .. 2 * announces
  /\ connection_id \in ConnectionId
  /\ outcome \in {Failed} \cup Peers
  /\ requests \subseteq Request

Init ==
  /\ at = "idle"
  /\ announces = 0
  /\ asked \in Addresses
  /\ server_address = asked
  /\ transaction_id = 0
  /\ connection_id = NoConnection
  /\ outcome = Failed
  /\ requests = {}

(* What trackers do with a request, as far as this program tells it apart.  *)
(* From any of its addresses a tracker answers a CONNECT with an id, and an *)
(* ANNOUNCE that has an id of its own with peers; or it sends something     *)
(* else: an error, another action, too few bytes.                           *)
AnswerActions(request) ==
  {"other"} \cup
    IF request.action = "announce" /\ request.connection.issuer # Owner[request.to]
    THEN {} ELSE {request.action}

AnswersTo(request) ==
  {[action      |-> action,
    from        |-> address,
    transaction |-> request.transaction,
    connection  |-> [issuer      |-> Owner[request.to],
                     transaction |-> request.transaction],
    peers       |-> [kind     |-> "peers",
                     tracker  |-> Owner[request.to],
                     announce |-> request.announce]] :
      action \in AnswerActions(request),
      address \in {a \in Addresses : Owner[a] = Owner[request.to]}}

-----------------------------------------------------------------------------
(* CreateTracker: a socket, and the host's address.                         *)
CreateTracker(address) ==
  /\ at = "idle"
  /\ announces < MaxAnnounces
  /\ announces' = announces + 1
  /\ asked' = address
  /\ server_address' = address
  /\ outcome' = Failed
  /\ at' = "connect"
  /\ UNCHANGED <<transaction_id, connection_id, requests>>

(* Resolving, sending or receiving fails, or an answer is not accepted.     *)
Throw ==
  /\ at' = "idle"
  /\ outcome' = Failed

CallFails ==
  /\ at # "idle"
  /\ Throw
  /\ UNCHANGED <<announces, asked, server_address, transaction_id, connection_id,
                 requests>>

SendConnect ==
  /\ at = "connect"
  /\ transaction_id' = transaction_id + 1
  /\ requests' = requests \cup
       {[action |-> "connect", to |-> server_address, transaction |-> transaction_id',
         connection |-> NoConnection, announce |-> announces, port |-> 0]}
  /\ at' = "wait_connect"
  /\ UNCHANGED <<announces, asked, server_address, connection_id, outcome>>

(* Mutants: the transaction is not compared; an answer to something else is *)
(* skipped.                                                                 *)
ReceiveAnyConnect(answer) ==
  /\ at = "wait_connect"
  /\ server_address' = answer.from
  /\ IF answer.action = "connect"
     THEN /\ connection_id' = answer.connection
          /\ at' = "announce"
          /\ UNCHANGED outcome
     ELSE Throw /\ UNCHANGED connection_id
  /\ UNCHANGED <<announces, asked, transaction_id, requests>>

SkipOtherAnswers(answer) ==
  /\ at = "wait_connect"
  /\ server_address' = answer.from
  /\ IF answer.action = "connect" /\ answer.transaction = transaction_id
     THEN /\ connection_id' = answer.connection
          /\ at' = "announce"
          /\ UNCHANGED outcome
     ELSE UNCHANGED <<at, outcome, connection_id>>
  /\ UNCHANGED <<announces, asked, transaction_id, requests>>

ReceiveConnect(answer) ==
  /\ at = "wait_connect"
  /\ server_address' = answer.from
  /\ IF answer.action = "connect" /\ answer.transaction = transaction_id
     THEN /\ connection_id' = answer.connection
          /\ at' = "announce"
          /\ UNCHANGED outcome
     ELSE Throw /\ UNCHANGED connection_id
  /\ UNCHANGED <<announces, asked, transaction_id, requests>>

(* The port is cut to a uint16_t by the caller, and appended as four bytes, *)
(* the highest one first.  A tracker reads the first two of them.           *)
Port == ListenPort % 65536

PortRead == (Port \div 65536) % 65536

SendAnnounce ==
  /\ at = "announce"
  /\ transaction_id' = transaction_id + 1
  /\ requests' = requests \cup
       {[action |-> "announce", to |-> server_address, transaction |-> transaction_id',
         connection |-> connection_id, announce |-> announces, port |-> PortRead]}
  /\ at' = "wait_announce"
  /\ UNCHANGED <<announces, asked, server_address, connection_id, outcome>>

(* A mutant: the transaction is not compared.                               *)
ReceiveAnyAnnounce(answer) ==
  /\ at = "wait_announce"
  /\ server_address' = answer.from
  /\ IF answer.action = "announce"
     THEN at' = "idle" /\ outcome' = answer.peers
     ELSE Throw
  /\ UNCHANGED <<announces, asked, transaction_id, connection_id, requests>>

ReceiveAnnounce(answer) ==
  /\ at = "wait_announce"
  /\ server_address' = answer.from
  /\ IF answer.action = "announce" /\ answer.transaction = transaction_id
     THEN at' = "idle" /\ outcome' = answer.peers
     ELSE Throw
  /\ UNCHANGED <<announces, asked, transaction_id, connection_id, requests>>

Client ==
  \/ CallFails
  \/ SendConnect
  \/ SendAnnounce
  \/ \E request \in requests : \E answer \in AnswersTo(request) :
       ReceiveConnect(answer) \/ ReceiveAnnounce(answer)

Next == Client \/ \E address \in Addresses : CreateTracker(address)

Spec == Init /\ [][Next]_vars

-----------------------------------------------------------------------------
(* The peers an announce returns are those its own tracker found for this   *)
(* announce: an answer that was late for an earlier one, given up long ago, *)
(* is never taken for it.                                                   *)
AnswerIsForThisAnnounce ==
  outcome # Failed =>
    outcome = [kind |-> "peers", tracker |-> Owner[asked], announce |-> announces]

(* The requests of an announce go to the tracker it is made for, the second *)
(* one with an id of that tracker, although the sender of any datagram      *)
(* becomes the server address.                                              *)
AskedTrackerOnly ==
  \A request \in {r \in requests : r.announce = announces} :
    /\ Owner[request.to] = Owner[asked]
    /\ request.action = "announce" => request.connection.issuer = Owner[asked]

(* README.md:32 promises UDP trackers.  They are told the port given.       *)
TrackersSeeThePort ==
  \A request \in requests : request.action = "announce" => request.port = Port

(* Every receive ends, with a datagram or after kTimeout.                   *)
FairSpec == Spec /\ WF_vars(Client)

(* An announce returns or throws, whatever the network does.                *)
AnnounceReturns == at # "idle" ~> at = "idle"
=============================================================================
