--------------------------- MODULE TcpConnection ---------------------------
(***************************************************************************)
(* One TcpConnection (net/TcpConnection.cpp) between the thread of its     *)
(* PeerSession, which connects, sends and receives, and the thread that    *)
(* stops the session, which closes the socket under it.  The kernel's part *)
(* is here as well: descriptor numbers, which other threads take and give  *)
(* back all the time, and two streams of bytes that arrive in pieces of    *)
(* any size, or never.                                                     *)
(*                                                                         *)
(* `pc', the session's thread:                                             *)
(*    idle                                  RunLoop, about to try          *)
(*    clear -> reopen -> socket -> connect -> wait     EstablishConnection *)
(*    drop -> forget                        WaitForConnection gives up     *)
(*    call                                  between two calls, see `phase' *)
(*    send -> sending [-> blocked]          the loop of SendData           *)
(*    poll                                  ReceiveData, before the header *)
(*    exact -> recv                         the loop of ReceiveExactBytes  *)
(*    ended                                                                *)
(*                                                                         *)
(* `phase', what the session does with the connection:                     *)
(*    handshake -> reply -> bitfield -> interested -> loop                 *)
(*                                                                         *)
(* `stop_at', PeerSession::Stop with CloseConnection inside:               *)
(*    no -> flag -> shutdown -> close -> forget -> join -> destroy -> gone *)
(*                                                                         *)
(* socket_fd is a plain int that both threads read and write: each of its  *)
(* accesses that a system call separates from the others is a step.        *)
(***************************************************************************)
EXTENDS Message, FiniteSetsExt

CONSTANTS
  Fds,             \* descriptor numbers
  HandshakeSize,   \* bytes of a handshake (68)
  MaxMessageSize,  \* kMaxMessageSize
  PeerMessages,    \* messages the peer may send
  Requests,        \* messages MainLoop may send
  ForeignBytes,    \* what may be read from somebody else's descriptor
  Chunks,          \* in how many bytes a stream may move, unless all at once
  MaxAttempts,     \* connections tried in all
  MaxMessages      \* messages the two sides send over a connection, together

ASSUME TcpAssumption ==
  /\ Fds \subseteq Nat
  /\ HandshakeSize \in Nat \ {0}
  /\ Chunks \subseteq Nat \ {0}
  /\ MaxMessageSize \in Nat
  /\ MaxAttempts \in Nat
  /\ MaxMessages \in Nat
  /\ PeerMessages \cup Requests \subseteq MessageType
  /\ ForeignBytes \subseteq Byte

NoFd == -1

VARIABLES
  is_terminated,    \* PeerSession's flag
  is_force_closed,
  socket_fd,
  fds,              \* whose each number is: free, ours, other
  pc, phase,
  unsent,           \* SendData: the bytes still to be sent
  wanted,           \* ReceiveExactBytes: num_bytes
  buffer,           \* ... and what it has of them
  header,           \* ReceiveData: the header, once it has one
  attempts,
  stop_at,
  peer_open,        \* the peer has not closed the connection
  peer_reads,       \* ... and takes what it is sent
  inbound,          \* bytes from the peer that have not been read
  outbound,         \* bytes the peer has been sent
  peer_sent,        \* messages: sent by the peer,
  received,         \*   returned by ReceiveData,
  handed,           \*   passed to SendData,
  caught,           \* Stop found the session inside EstablishConnection
  misused           \* what was done to a descriptor of somebody else's

flags == <<is_terminated, is_force_closed>>
locals == <<unsent, wanted, buffer, header>>
thread == <<pc, phase, locals, attempts>>
peer == <<peer_open, peer_reads>>
incoming == <<inbound, peer_sent, received>>
outgoing == <<outbound, handed>>
link == <<peer, incoming, outgoing>>
blame == <<caught, misused>>
(* What only EstablishConnection, Stop and others write.                    *)
descriptor_vars == <<flags, socket_fd, fds, stop_at>>
vars == <<flags, socket_fd, fds, thread, stop_at, link, blame>>

Connecting == {"clear", "reopen", "socket", "connect", "wait", "drop", "forget"}
Calling == {"call", "send", "sending", "blocked", "poll", "exact", "recv"}

TypeOK ==
  /\ is_terminated \in BOOLEAN /\ is_force_closed \in BOOLEAN
  /\ socket_fd \in Fds \cup {NoFd}
  /\ fds \in [Fds -> {"free", "ours", "other"}]
  /\ pc \in {"idle", "ended"} \cup Connecting \cup Calling
  /\ phase \in {"handshake", "reply", "bitfield", "interested", "loop"}
  /\ unsent \in Seq(Byte) /\ buffer \in Seq(Byte) /\ header \in Seq(Byte)
  /\ wanted \in Nat /\ Len(buffer) <= wanted
  /\ attempts \in 0 .. MaxAttempts
  /\ stop_at \in {"no", "flag", "shutdown", "close", "forget", "join", "destroy", "gone"}
  /\ peer_open \in BOOLEAN /\ peer_reads \in BOOLEAN
  /\ inbound \in Seq(Byte) /\ outbound \in Seq(Byte)
  /\ caught \in BOOLEAN
  /\ misused \subseteq {"closed", "touched"}

Init ==
  /\ is_terminated = FALSE /\ is_force_closed = FALSE
  /\ socket_fd = NoFd
  /\ fds = [f \in Fds |-> "free"]
  /\ pc = "idle" /\ phase = "handshake"
  /\ unsent = <<>> /\ wanted = 0 /\ buffer = <<>> /\ header = <<>>
  /\ attempts = 0
  /\ stop_at = "no"
  /\ peer_open = FALSE /\ peer_reads = TRUE
  /\ inbound = <<>> /\ outbound = <<>>
  /\ peer_sent = <<>> /\ received = <<>> /\ handed = <<>>
  /\ caught = FALSE /\ misused = {}

-----------------------------------------------------------------------------
Ours == socket_fd # NoFd /\ fds[socket_fd] = "ours"
Others == socket_fd # NoFd /\ fds[socket_fd] = "other"

(* The kernel gives out the lowest number that is free.                     *)
IsLowestFree(f) == fds[f] = "free" /\ \A g \in Fds : g < f => fds[g] # "free"

(* close(f), whoever has that number by now.                                *)
CloseFd(f) ==
  /\ fds' = [g \in Fds |-> IF g = f THEN "free" ELSE fds[g]]
  /\ misused' = misused \cup {u \in {"closed"} : f # NoFd /\ fds[f] = "other"}
  /\ UNCHANGED caught

Touch ==
  /\ misused' = misused \cup {u \in {"touched"} : Others}
  /\ UNCHANGED caught

ClearLocals == unsent' = <<>> /\ wanted' = 0 /\ buffer' = <<>> /\ header' = <<>>

Handshake == [i \in 1 .. HandshakeSize |-> 19]

(* A socket's two streams, and what was sent over them.  The peer's         *)
(* handshake is on its way at once.                                         *)
NewLink(open) ==
  /\ peer_open' = open /\ peer_reads' = TRUE
  /\ inbound' = (IF open THEN Handshake ELSE <<>>) /\ outbound' = <<>>
  /\ peer_sent' = <<>> /\ received' = <<>> /\ handed' = <<>>

(* The session gives its connection up: RunLoop catches the exception.  The *)
(* socket stays open until the next attempt, but nothing reads it or writes *)
(* to it any more: what is in it is forgotten.                              *)
GiveUp == pc' = "idle" /\ phase' = "handshake" /\ NewLink(FALSE) /\ UNCHANGED attempts

Throw == GiveUp /\ ClearLocals

At(from, to) == pc = from /\ pc' = to /\ UNCHANGED <<phase, locals, attempts>>

-----------------------------------------------------------------------------
(* RunLoop.  MaxAttempts stands for the failures it allows.                 *)
BeginAttempt ==
  /\ pc = "idle" /\ ~is_terminated /\ attempts < MaxAttempts
  /\ pc' = "clear"
  /\ attempts' = attempts + 1
  /\ UNCHANGED <<descriptor_vars, phase, locals, link, blame>>

(* A mutant: only the failures end the loop.                                *)
EndThreadAfterFailures ==
  /\ attempts = MaxAttempts
  /\ At("idle", "ended")
  /\ is_terminated' = TRUE
  /\ UNCHANGED <<is_force_closed, socket_fd, fds, stop_at, link, blame>>

EndThread ==
  /\ is_terminated \/ attempts = MaxAttempts
  /\ At("idle", "ended")
  /\ is_terminated' = TRUE
  /\ UNCHANGED <<is_force_closed, socket_fd, fds, stop_at, link, blame>>

-----------------------------------------------------------------------------
(* EstablishConnection.                                                     *)
ClearForceClosed ==
  /\ At("clear", "reopen")
  /\ is_force_closed' = FALSE
  /\ UNCHANGED <<is_terminated, socket_fd, fds, stop_at, link, blame>>

CloseOldSocket ==
  /\ At("reopen", "socket")
  /\ CloseFd(socket_fd)
  /\ UNCHANGED <<flags, socket_fd, stop_at, link>>

OpenSocket ==
  /\ At("socket", "connect")
  /\ \E f \in Fds :
       /\ IsLowestFree(f)
       /\ socket_fd' = f
       /\ fds' = [fds EXCEPT ![f] = "ours"]
  /\ UNCHANGED <<flags, stop_at, link, blame>>

OpenSocketFails ==
  /\ pc = "socket" /\ Throw
  /\ socket_fd' = NoFd
  /\ UNCHANGED <<flags, fds, stop_at, blame>>

Established ==
  /\ pc' = "call"
  /\ phase' = "handshake"
  /\ NewLink(Ours)
  /\ UNCHANGED <<locals, attempts>>

(* connect() succeeds at once, or select() has to tell.                     *)
ConnectAtOnce ==
  /\ pc = "connect" /\ Ours
  /\ Established
  /\ UNCHANGED <<descriptor_vars, blame>>

ConnectLater ==
  /\ At("connect", "wait")
  /\ Touch
  /\ UNCHANGED <<descriptor_vars, link>>

(* WaitForConnection returns: the peer has accepted; or getsockopt had no   *)
(* socket of ours to ask, and so_error, never set, happened to be zero.     *)
Connected ==
  /\ pc = "wait"
  /\ Established
  /\ Touch
  /\ UNCHANGED descriptor_vars

ConnectFails ==
  /\ At("wait", "drop")
  /\ Touch
  /\ UNCHANGED <<descriptor_vars, link>>

DropSocket ==
  /\ At("drop", "forget")
  /\ CloseFd(socket_fd)
  /\ UNCHANGED <<flags, socket_fd, stop_at, link>>

(* A mutant: the number stays where the next attempt closes it again.       *)
ThrowWithoutForgetting ==
  /\ pc = "forget" /\ Throw
  /\ UNCHANGED <<descriptor_vars, blame>>

ForgetSocket ==
  /\ pc = "forget" /\ Throw
  /\ socket_fd' = NoFd
  /\ UNCHANGED <<flags, fds, stop_at, blame>>

-----------------------------------------------------------------------------
(* The session's calls, each in its phase.                                  *)
After == [handshake |-> "reply", reply |-> "bitfield", bitfield |-> "interested",
          interested |-> "loop", loop |-> "loop"]

Return == pc' = "call" /\ phase' = After[phase] /\ ClearLocals /\ UNCHANGED attempts

Closed == is_force_closed \/ socket_fd = NoFd

Unsent(bytes) ==
  /\ pc' = "send" /\ unsent' = bytes
  /\ UNCHANGED <<phase, wanted, buffer, header, attempts>>

BeginReceive(num_bytes) ==
  /\ pc' = "exact" /\ wanted' = num_bytes
  /\ UNCHANGED <<phase, unsent, buffer, header, attempts>>

PerformHandshake ==
  /\ pc = "call" /\ phase = "handshake"
  /\ IF Closed THEN Throw ELSE Unsent(Handshake) /\ UNCHANGED link
  /\ UNCHANGED <<descriptor_vars, blame>>

(* SendInterested, and RequestBlock in MainLoop.                            *)
SendMessage(m) ==
  /\ pc = "call"
  /\ \/ phase = "interested" /\ m = InitMessage(kInterested, <<>>)
     \/ phase = "loop" /\ ~is_terminated /\ m \in Requests
        /\ Len(peer_sent) + Len(handed) < MaxMessages
  /\ IF Closed
     THEN Throw
     ELSE /\ Unsent(ToString(m))
          /\ handed' = Append(handed, m)
          /\ UNCHANGED <<peer, incoming, outbound>>
  /\ UNCHANGED <<descriptor_vars, blame>>

ReceiveHandshake ==
  /\ pc = "call" /\ phase = "reply"
  /\ IF Closed THEN Throw ELSE BeginReceive(HandshakeSize) /\ UNCHANGED link
  /\ UNCHANGED <<descriptor_vars, blame>>

ReceiveMessage ==
  /\ pc = "call"
  /\ phase = "bitfield" \/ (phase = "loop" /\ ~is_terminated)
  /\ IF Closed THEN Throw ELSE At("call", "poll") /\ UNCHANGED link
  /\ UNCHANGED <<descriptor_vars, blame>>

MainLoopReturns ==
  /\ pc = "call" /\ phase = "loop" /\ is_terminated
  /\ GiveUp /\ UNCHANGED <<locals, descriptor_vars, blame>>

-----------------------------------------------------------------------------
(* SendData.                                                                *)
SendLoop ==
  /\ pc = "send"
  /\ IF unsent = <<>> THEN Return /\ UNCHANGED link
     ELSE IF is_force_closed THEN Throw ELSE At("send", "sending") /\ UNCHANGED link
  /\ UNCHANGED <<descriptor_vars, blame>>

Rest(bytes, n) == SubSeq(bytes, n + 1, Len(bytes))

Moved(size) == {size} \cup {n \in Chunks : n < size}

(* send() takes what there is room for.                                     *)
SendSome ==
  /\ pc = "sending" /\ Ours /\ peer_open
  /\ peer_reads \/ phase # "loop"
  /\ \E n \in Moved(Len(unsent)) :
       /\ outbound' = outbound \o SubSeq(unsent, 1, n)
       /\ Unsent(Rest(unsent, n))
  /\ UNCHANGED <<descriptor_vars, peer, incoming, handed, blame>>

(* Nobody is there any more: an error, or bytes nobody will read.           *)
SendToNobody ==
  /\ pc = "sending" /\ ~(Ours /\ peer_open)
  /\ \/ Throw
     \/ /\ Ours \/ Others
        /\ \E n \in Moved(Len(unsent)) : Unsent(Rest(unsent, n))
        /\ UNCHANGED link
  /\ Touch
  /\ UNCHANGED descriptor_vars

(* The socket is blocking again, so when the peer reads nothing send()      *)
(* waits for room, without a timeout (the first messages always fit).  It   *)
(* is the connection that has to end: to close its number does not help.    *)
SendBlocks ==
  /\ Ours /\ peer_open /\ ~peer_reads /\ phase = "loop"
  /\ At("sending", "blocked")
  /\ UNCHANGED <<descriptor_vars, link, blame>>

SendWakes ==
  /\ pc = "blocked" /\ ~peer_open
  /\ Throw
  /\ UNCHANGED <<descriptor_vars, blame>>

-----------------------------------------------------------------------------
(* ReceiveData and ReceiveExactBytes.  poll() tells that there is something *)
(* to read, an end, or no such descriptor; or five seconds have passed.     *)
Readable == socket_fd # NoFd /\ (Ours => inbound # <<>> \/ ~peer_open)

PollTimesOut ==
  /\ pc = "poll"
  /\ IF is_force_closed THEN Throw ELSE Return /\ UNCHANGED link
  /\ UNCHANGED <<descriptor_vars, blame>>

PollHeader ==
  /\ pc = "poll" /\ Readable
  /\ IF is_force_closed THEN Throw ELSE BeginReceive(4) /\ UNCHANGED link
  /\ UNCHANGED <<descriptor_vars, blame>>

Missing == Len(buffer) < wanted

PollExact ==
  /\ Missing /\ ~is_force_closed /\ Readable
  /\ At("exact", "recv")
  /\ UNCHANGED <<descriptor_vars, link, blame>>

(* Inside a message a timeout gives the connection up.  The mutant returns  *)
(* as if there were no message yet.                                         *)
ExactReturnsNothing ==
  /\ pc = "exact" /\ Missing /\ Return
  /\ UNCHANGED <<descriptor_vars, link, blame>>

ExactThrows ==
  /\ pc = "exact" /\ Missing /\ Throw
  /\ UNCHANGED <<descriptor_vars, blame>>

Smaller(m, n) == IF m < n THEN m ELSE n

Receive(n) ==
  /\ pc = "recv" /\ Ours /\ inbound # <<>>
  /\ buffer' = buffer \o SubSeq(inbound, 1, n)
  /\ inbound' = Rest(inbound, n)
  /\ pc' = "exact"
  /\ UNCHANGED <<descriptor_vars, phase, unsent, wanted, header, attempts, blame>>
  /\ UNCHANGED <<peer, outgoing, peer_sent, received>>

(* A mutant asks for all the bytes again when it has some already.          *)
RecvTooMuch == \E n \in Moved(Smaller(Len(inbound), wanted)) : Receive(n)

RecvSome == \E n \in Moved(Smaller(Len(inbound), wanted - Len(buffer))) : Receive(n)

RecvFails ==
  /\ pc = "recv" /\ (Ours => inbound = <<>> /\ ~peer_open)
  /\ Throw
  /\ Touch
  /\ UNCHANGED descriptor_vars

(* What somebody else was waiting for.                                      *)
RecvFromOther ==
  /\ pc = "recv" /\ Others
  /\ \E b \in ForeignBytes : buffer' = Append(buffer, b)
  /\ pc' = "exact"
  /\ Touch
  /\ UNCHANGED <<descriptor_vars, phase, unsent, wanted, header, attempts, link>>

GotHandshake ==
  /\ pc = "exact" /\ ~Missing /\ phase = "reply"
  /\ Return
  /\ UNCHANGED <<descriptor_vars, link, blame>>

(* As a size_t a negative length is larger than any message.                *)
TooLarge(size) == size < 0 \/ size > MaxMessageSize

(* What is asked of a message that is to arrive: its length is that of the  *)
(* rest of it.  A peer may send lengths the session refuses, too.           *)
Framed(m) == m.message_length = Len(m.payload) + 1 /\ m.message_length <= MaxInt32

Refused(m) == TooLarge(bytes_to_int32(int32_to_bytes(m.message_length)))

ASSUME FramingAssumption ==
  /\ \A m \in PeerMessages : m = KeepAlive \/ Framed(m) \/ Refused(m)
  /\ \A m \in Requests : Framed(m)

GotHeader ==
  /\ pc = "exact" /\ ~Missing /\ phase # "reply" /\ header = <<>>
  /\ bytes_to_int32(buffer) # 0
  /\ IF TooLarge(bytes_to_int32(buffer))
     THEN Throw
     ELSE /\ header' = buffer /\ wanted' = bytes_to_int32(buffer) /\ buffer' = <<>>
          /\ UNCHANGED <<pc, phase, unsent, attempts, link>>
  /\ UNCHANGED <<descriptor_vars, blame>>

(* A message, or a header alone that is a keep-alive.                       *)
GotMessage ==
  /\ pc = "exact" /\ ~Missing /\ phase # "reply"
  /\ header = <<>> => bytes_to_int32(buffer) = 0
  /\ received' = Append(received, header \o buffer)
  /\ Return
  /\ UNCHANGED <<descriptor_vars, peer, inbound, outgoing, peer_sent, blame>>

-----------------------------------------------------------------------------
(* PeerSession::Stop, and CloseConnection inside it.                        *)
BeginStop ==
  /\ stop_at = "no"
  /\ stop_at' = IF is_terminated THEN "join" ELSE "flag"
  /\ is_terminated' = TRUE
  /\ caught' = (pc \in Connecting)
  /\ UNCHANGED <<is_force_closed, socket_fd, fds, thread, link, misused>>

SetForceClosed ==
  /\ stop_at = "flag" /\ stop_at' = "shutdown"
  /\ is_force_closed' = TRUE
  /\ UNCHANGED <<is_terminated, socket_fd, fds, thread, link, blame>>

(* shutdown() wakes a thread that waits in poll, send or recv.              *)
ShutdownSocket ==
  /\ stop_at = "shutdown"
  /\ stop_at' = IF socket_fd = NoFd THEN "join" ELSE "close"
  /\ peer_open' = (peer_open /\ ~Ours)
  /\ Touch
  /\ UNCHANGED <<flags, socket_fd, fds, thread, peer_reads, incoming, outgoing>>

CloseSocket ==
  /\ stop_at = "close" /\ stop_at' = "forget"
  /\ CloseFd(socket_fd)
  /\ UNCHANGED <<flags, socket_fd, thread, link>>

ForgetClosed ==
  /\ stop_at = "forget" /\ stop_at' = "join"
  /\ socket_fd' = NoFd
  /\ UNCHANGED <<flags, fds, thread, link, blame>>

JoinThread ==
  /\ stop_at = "join" /\ stop_at' = "destroy"
  /\ pc = "ended"
  /\ UNCHANGED <<flags, socket_fd, fds, thread, link, blame>>

(* The destructor closes what is open still, with no thread beside it.      *)
DestroyConnection ==
  /\ stop_at = "destroy" /\ stop_at' = "gone"
  /\ is_force_closed' = TRUE
  /\ CloseFd(socket_fd)
  /\ socket_fd' = NoFd
  /\ UNCHANGED <<is_terminated, thread, link>>

-----------------------------------------------------------------------------
(* The rest of the program opens and closes descriptors of its own.         *)
OtherOpens(f) ==
  /\ IsLowestFree(f)
  /\ fds' = [fds EXCEPT ![f] = "other"]
  /\ UNCHANGED <<flags, socket_fd, thread, stop_at, link, blame>>

OtherCloses(f) ==
  /\ fds[f] = "other"
  /\ fds' = [fds EXCEPT ![f] = "free"]
  /\ UNCHANGED <<flags, socket_fd, thread, stop_at, link, blame>>

(* The peer.                                                                *)
Wire(m) == IF m = KeepAlive THEN <<0, 0, 0, 0>> ELSE ToString(m)

PeerSends(m) ==
  /\ peer_open /\ Len(peer_sent) + Len(handed) < MaxMessages
  /\ peer_sent' = Append(peer_sent, m)
  /\ inbound' = inbound \o Wire(m)
  /\ UNCHANGED <<descriptor_vars, thread, peer, outgoing, received, blame>>

PeerStalls ==
  /\ peer_open /\ phase = "loop" /\ peer_reads /\ peer_reads' = FALSE
  /\ UNCHANGED <<descriptor_vars, thread, peer_open, incoming, outgoing, blame>>

(* Bytes on their way may be lost with the connection.                      *)
PeerCloses ==
  /\ peer_open /\ peer_open' = FALSE
  /\ \E n \in {0} \cup Moved(Len(inbound)) : inbound' = SubSeq(inbound, 1, n)
  /\ UNCHANGED <<descriptor_vars, thread, blame>>
  /\ UNCHANGED <<peer_reads, outgoing, peer_sent, received>>

-----------------------------------------------------------------------------
EstablishConnection ==
  \/ ClearForceClosed
  \/ CloseOldSocket
  \/ OpenSocket
  \/ OpenSocketFails
  \/ ConnectAtOnce
  \/ ConnectLater
  \/ Connected
  \/ ConnectFails
  \/ DropSocket
  \/ ForgetSocket

SendData ==
  \/ SendLoop
  \/ SendSome
  \/ SendToNobody
  \/ SendBlocks
  \/ SendWakes

ReceiveData ==
  \/ PollTimesOut
  \/ PollHeader
  \/ PollExact
  \/ ExactThrows
  \/ RecvSome
  \/ RecvFails
  \/ RecvFromOther
  \/ GotHandshake
  \/ GotHeader
  \/ GotMessage

SessionThread ==
  \/ BeginAttempt
  \/ EndThread
  \/ EstablishConnection
  \/ PerformHandshake
  \/ \E m \in Requests \cup {InitMessage(kInterested, <<>>)} : SendMessage(m)
  \/ ReceiveHandshake
  \/ ReceiveMessage
  \/ MainLoopReturns
  \/ SendData
  \/ ReceiveData

StopThread ==
  \/ SetForceClosed
  \/ ShutdownSocket
  \/ CloseSocket
  \/ ForgetClosed
  \/ JoinThread
  \/ DestroyConnection

Environment ==
  \/ \E f \in Fds : OtherOpens(f) \/ OtherCloses(f)
  \/ \E m \in PeerMessages : PeerSends(m)
  \/ PeerStalls
  \/ PeerCloses

Next == SessionThread \/ BeginStop \/ StopThread \/ Environment

Spec == Init /\ [][Next]_vars

-----------------------------------------------------------------------------
(* Until Stop, the connection touches no descriptor but its own, and has    *)
(* one socket at most, the one it knows.  A Stop that does not meet the     *)
(* session inside EstablishConnection closes nobody else's descriptor       *)
(* either, and leaves no socket behind.  (One that does may do both: the    *)
(* flag it sets is cleared again, and each of the two may close the number  *)
(* the other has closed, or forget the socket the other has opened.)        *)
DescriptorIsOurs ==
  /\ stop_at = "no" => misused = {}
  /\ ~caught => "closed" \notin misused
  /\ ~caught => \A f \in Fds : fds[f] = "ours" => f = socket_fd
  /\ ~caught /\ Others => pc = "socket" \/ pc = "forget" \/ stop_at = "forget"

(* The whole messages in a stream.                                          *)
MessagesIn[bytes \in Seq(Byte)] ==
  IF Len(bytes) < 4 \/ bytes_to_int32(bytes) \notin 0 .. Len(bytes) - 4
  THEN <<>>
  ELSE LET size == 4 + bytes_to_int32(bytes)
       IN <<Parse(SubSeq(bytes, 1, size))>> \o MessagesIn[Rest(bytes, size)]

Up == pc \in Calling /\ ~is_terminated

WhileUp(messages) == IF Up THEN messages ELSE <<>>

FromPeer == INSTANCE MessageChannel WITH
  up <- Up,
  sent <- WhileUp(peer_sent),
  delivered <- WhileUp([i \in DOMAIN received |-> Parse(received[i])])

ToPeer == INSTANCE MessageChannel WITH
  up <- Up,
  sent <- WhileUp(handed),
  delivered <- WhileUp(MessagesIn[Rest(outbound, HandshakeSize)])

(* Messages arrive whole and in order, in both directions, although bytes   *)
(* arrive in any pieces, calls give up in the middle of a message, and the  *)
(* session connects again: no call that gave up leaves a stream in use      *)
(* whose next byte is not the first of a message.                           *)
ImplementsMessageChannel == FromPeer!Spec /\ ToPeer!Spec

-----------------------------------------------------------------------------
(* Both threads run; no call but send() waits without a timeout.            *)
FairSpec ==
  /\ Spec
  /\ WF_vars(SessionThread)
  /\ WF_vars(StopThread)

(* A Stop ends, wherever it finds the thread: in a send() to a peer that    *)
(* reads nothing, or inside EstablishConnection, which clears its flag.     *)
StopEnds == (stop_at # "no") ~> (stop_at = "gone")
=============================================================================
