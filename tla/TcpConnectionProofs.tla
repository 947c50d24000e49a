------------------------ MODULE TcpConnectionProofs ------------------------
(***************************************************************************)
(* Whose descriptors a TcpConnection uses, that it never writes beyond a   *)
(* buffer, and that messages arrive whole and in order in both directions, *)
(* for any descriptor numbers, messages and sizes.                         *)
(***************************************************************************)
EXTENDS TcpConnection, Induction

-----------------------------------------------------------------------------
(* The descriptor.                                                          *)

(* Between a close of socket_fd and the assignment after it, the number may *)
(* belong to anybody.                                                       *)
InBetween == pc \in {"socket", "forget"} \/ stop_at = "forget"

DescriptorTypes ==
  /\ socket_fd \in Fds \cup {NoFd}
  /\ fds \in [Fds -> {"free", "ours", "other"}]
  /\ pc \in {"idle", "ended"} \cup Connecting \cup Calling
  /\ stop_at \in {"no", "flag", "shutdown", "close", "forget", "join", "destroy", "gone"}

(* A Stop that was not inside EstablishConnection ends the thread before it *)
(* comes there again; after it the number is no longer looked at.           *)
StopKeepsOut ==
  /\ stop_at = "no" => ~caught
  /\ stop_at # "no" => is_terminated
  /\ ~caught /\ is_terminated => pc \notin Connecting
  /\ stop_at \in {"destroy", "gone"} => pc = "ended"

(* Outside those gaps a number is NoFd or ours; in them nothing is ours.    *)
NumberIsOurs ==
  ~caught =>
    /\ ~InBetween => socket_fd = NoFd \/ fds[socket_fd] = "ours"
    /\ \A f \in Fds : fds[f] = "ours" => f = socket_fd /\ ~InBetween

NothingMisused ==
  /\ stop_at = "no" => misused = {}
  /\ ~caught => "closed" \notin misused

DescriptorInv == DescriptorTypes /\ StopKeepsOut /\ NumberIsOurs /\ NothingMisused

LEMMA DescriptorInit == Init => DescriptorInv
BY DEF Init, DescriptorInv, DescriptorTypes, StopKeepsOut, NumberIsOurs, NothingMisused,
       InBetween, Connecting, Calling

LEMMA DescriptorImplies == DescriptorInv => DescriptorIsOurs
BY DEF DescriptorInv, DescriptorTypes, NumberIsOurs, NothingMisused, InBetween,
       DescriptorIsOurs, Others

(* The actions that leave the descriptor, is_terminated and Stop alone: the *)
(* thread moves outside EstablishConnection, or between the two gaps.       *)
LEMMA KeepsDescriptor ==
  ASSUME DescriptorInv, UNCHANGED <<is_terminated, socket_fd, fds, stop_at>>,
         UNCHANGED blame \/ Touch,
         \/ pc' = pc /\ UNCHANGED blame
         \/ pc \in Calling /\ pc' \in {"idle"} \cup Calling
         \/ /\ pc \in Connecting \ {"socket", "forget"}
            /\ pc' \in {"call", "idle", "reopen", "wait", "drop"}
  PROVE  DescriptorInv'
BY DEF DescriptorInv, DescriptorTypes, StopKeepsOut, NumberIsOurs, NothingMisused,
       InBetween, Connecting, Calling, blame, Touch, Others

(* Descriptors are taken and given back by a system call of this thread,    *)
(* of the one that stops it, or of the rest of the program.                 *)
LEMMA ChangesDescriptor ==
  ASSUME DescriptorInv,
         \/ CloseOldSocket \/ OpenSocket \/ OpenSocketFails \/ DropSocket \/ ForgetSocket
         \/ CloseSocket \/ ForgetClosed \/ DestroyConnection
         \/ \E f \in Fds : OtherOpens(f) \/ OtherCloses(f)
  PROVE  DescriptorInv'
<1> USE TcpAssumption DEF TcpAssumption, DescriptorInv, DescriptorTypes, StopKeepsOut,
        NumberIsOurs, NothingMisused, InBetween, Connecting, Calling, flags, thread, blame,
        NoFd
<1>1. CASE CloseOldSocket
  BY <1>1 DEF CloseOldSocket, At, CloseFd
<1>2. CASE OpenSocket
  BY <1>2 DEF OpenSocket, At
<1>3. CASE OpenSocketFails
  BY <1>3 DEF OpenSocketFails, Throw, GiveUp
<1>4. CASE DropSocket
  BY <1>4 DEF DropSocket, At, CloseFd
<1>5. CASE ForgetSocket
  BY <1>5 DEF ForgetSocket, Throw, GiveUp
<1>6. CASE CloseSocket
  BY <1>6 DEF CloseSocket, CloseFd
<1>7. CASE ForgetClosed
  BY <1>7 DEF ForgetClosed
<1>8. CASE DestroyConnection
  BY <1>8 DEF DestroyConnection, CloseFd
<1>9. ASSUME NEW f \in Fds, OtherOpens(f) \/ OtherCloses(f)
      PROVE  DescriptorInv'
  BY <1>9 DEF OtherOpens, OtherCloses, IsLowestFree
<1> QED
  BY <1>1, <1>2, <1>3, <1>4, <1>5, <1>6, <1>7, <1>8, <1>9

(* The thread begins, ends or is told to.                                   *)
LEMMA StopsKeepDescriptor ==
  ASSUME DescriptorInv,
         \/ BeginAttempt \/ EndThread \/ BeginStop
         \/ SetForceClosed \/ ShutdownSocket \/ JoinThread
  PROVE  DescriptorInv'
<1> USE DEF DescriptorInv, DescriptorTypes, StopKeepsOut, NumberIsOurs, NothingMisused,
        InBetween, Connecting, Calling, descriptor_vars, flags, thread, blame
<1>1. CASE BeginAttempt
  BY <1>1 DEF BeginAttempt
<1>2. CASE EndThread
  BY <1>2 DEF EndThread, At
<1>3. CASE BeginStop
  BY <1>3 DEF BeginStop
<1>4. CASE SetForceClosed
  BY <1>4 DEF SetForceClosed
<1>5. CASE ShutdownSocket
  BY <1>5 DEF ShutdownSocket, Touch, Others
<1>6. CASE JoinThread
  BY <1>6 DEF JoinThread
<1> QED
  BY <1>1, <1>2, <1>3, <1>4, <1>5, <1>6

(* The rest of EstablishConnection.                                         *)
LEMMA EstablishingKeepsDescriptor ==
  ASSUME DescriptorInv,
         \/ ClearForceClosed \/ ConnectAtOnce \/ ConnectLater \/ Connected
         \/ ConnectFails
  PROVE  DescriptorInv'
<1> USE DEF descriptor_vars, flags, thread, Connecting, Calling
<1>1. CASE ClearForceClosed
  BY <1>1, KeepsDescriptor DEF ClearForceClosed, At
<1>2. CASE ConnectAtOnce
  BY <1>2, KeepsDescriptor DEF ConnectAtOnce, Established
<1>3. CASE ConnectLater
  BY <1>3, KeepsDescriptor DEF ConnectLater, At
<1>4. CASE Connected
  BY <1>4, KeepsDescriptor DEF Connected, Established
<1>5. CASE ConnectFails
  BY <1>5, KeepsDescriptor DEF ConnectFails, At
<1> QED
  BY <1>1, <1>2, <1>3, <1>4, <1>5

(* The session's calls, and SendData.                                       *)
LEMMA SendingKeepsDescriptor ==
  ASSUME DescriptorInv,
         \/ PerformHandshake \/ (\E m \in Requests \cup {InitMessage(kInterested, <<>>)} : SendMessage(m)) \/ ReceiveHandshake \/ ReceiveMessage
         \/ MainLoopReturns \/ SendLoop \/ SendSome \/ SendToNobody
         \/ SendBlocks \/ SendWakes
  PROVE  DescriptorInv'
<1> USE DEF descriptor_vars, flags, thread, Connecting, Calling
<1>1. CASE PerformHandshake
  BY <1>1, KeepsDescriptor DEF PerformHandshake, Throw, GiveUp, Unsent
<1>2. CASE (\E m \in Requests \cup {InitMessage(kInterested, <<>>)} : SendMessage(m))
  BY <1>2, KeepsDescriptor DEF SendMessage, Throw, GiveUp, Unsent
<1>3. CASE ReceiveHandshake
  BY <1>3, KeepsDescriptor DEF ReceiveHandshake, Throw, GiveUp, BeginReceive
<1>4. CASE ReceiveMessage
  BY <1>4, KeepsDescriptor DEF ReceiveMessage, Throw, GiveUp, At
<1>5. CASE MainLoopReturns
  BY <1>5, KeepsDescriptor DEF MainLoopReturns, GiveUp
<1>6. CASE SendLoop
  BY <1>6, KeepsDescriptor DEF SendLoop, Return, Throw, GiveUp, At
<1>7. CASE SendSome
  BY <1>7, KeepsDescriptor DEF SendSome, Unsent
<1>8. CASE SendToNobody
  BY <1>8, KeepsDescriptor DEF SendToNobody, Throw, GiveUp, Unsent
<1>9. CASE SendBlocks
  BY <1>9, KeepsDescriptor DEF SendBlocks, At
<1>10. CASE SendWakes
  BY <1>10, KeepsDescriptor DEF SendWakes, Throw, GiveUp
<1> QED
  BY <1>1, <1>2, <1>3, <1>4, <1>5, <1>6, <1>7, <1>8, <1>9, <1>10

(* ReceiveData.                                                             *)
LEMMA ReceivingKeepsDescriptor ==
  ASSUME DescriptorInv,
         \/ PollTimesOut \/ PollHeader \/ PollExact \/ ExactThrows
         \/ RecvSome \/ RecvFails \/ RecvFromOther \/ GotHandshake
         \/ GotHeader \/ GotMessage
  PROVE  DescriptorInv'
<1> USE DEF descriptor_vars, flags, thread, Connecting, Calling
<1>1. CASE PollTimesOut
  BY <1>1, KeepsDescriptor DEF PollTimesOut, Throw, GiveUp, Return
<1>2. CASE PollHeader
  BY <1>2, KeepsDescriptor DEF PollHeader, Throw, GiveUp, BeginReceive
<1>3. CASE PollExact
  BY <1>3, KeepsDescriptor DEF PollExact, At
<1>4. CASE ExactThrows
  BY <1>4, KeepsDescriptor DEF ExactThrows, Throw, GiveUp
<1>5. CASE RecvSome
  BY <1>5, KeepsDescriptor DEF RecvSome, Receive
<1>6. CASE RecvFails
  BY <1>6, KeepsDescriptor DEF RecvFails, Throw, GiveUp
<1>7. CASE RecvFromOther
  BY <1>7, KeepsDescriptor DEF RecvFromOther
<1>8. CASE GotHandshake
  BY <1>8, KeepsDescriptor DEF GotHandshake, Return
<1>9. CASE GotHeader
  BY <1>9, KeepsDescriptor DEF GotHeader, Throw, GiveUp
<1>10. CASE GotMessage
  BY <1>10, KeepsDescriptor DEF GotMessage, Return
<1> QED
  BY <1>1, <1>2, <1>3, <1>4, <1>5, <1>6, <1>7, <1>8, <1>9, <1>10

(* The peer.                                                                *)
LEMMA PeerKeepsDescriptor ==
  ASSUME DescriptorInv,
         \/ (\E m \in PeerMessages : PeerSends(m)) \/ PeerStalls \/ PeerCloses
  PROVE  DescriptorInv'
<1> USE DEF descriptor_vars, flags, thread, Connecting, Calling
<1>1. CASE (\E m \in PeerMessages : PeerSends(m))
  BY <1>1, KeepsDescriptor DEF PeerSends
<1>2. CASE PeerStalls
  BY <1>2, KeepsDescriptor DEF PeerStalls
<1>3. CASE PeerCloses
  BY <1>3, KeepsDescriptor DEF PeerCloses
<1> QED
  BY <1>1, <1>2, <1>3

LEMMA DescriptorStep ==
  ASSUME DescriptorInv, [Next]_vars
  PROVE  DescriptorInv'
<1>1. CASE UNCHANGED vars
  BY <1>1, KeepsDescriptor DEF vars, flags, thread, blame
<1>2. CASE Next
  BY <1>2, ChangesDescriptor, StopsKeepDescriptor, EstablishingKeepsDescriptor,
     SendingKeepsDescriptor, ReceivingKeepsDescriptor, PeerKeepsDescriptor
     DEF Next, SessionThread, EstablishConnection, SendData, ReceiveData, StopThread,
         Environment
<1> QED
  BY <1>1, <1>2

(* Until Stop the connection touches no descriptor but its own; a Stop that *)
(* does not meet EstablishConnection closes nobody else's, and leaves no    *)
(* socket behind: although two threads read and write socket_fd without a   *)
(* lock, and other threads are given every number that is free.             *)
THEOREM UsesItsOwnDescriptor == Spec => []DescriptorIsOurs
<1>1. DescriptorInv /\ [Next]_vars => DescriptorInv'
  BY DescriptorStep
<1> QED
  BY <1>1, DescriptorInit, DescriptorImplies, PTL DEF Spec

-----------------------------------------------------------------------------
(* The buffers.                                                             *)

StreamType ==
  /\ pc \in {"idle", "ended"} \cup Connecting \cup Calling
  /\ phase \in {"handshake", "reply", "bitfield", "interested", "loop"}
  /\ unsent \in Seq(Byte) /\ buffer \in Seq(Byte) /\ header \in Seq(Byte)
  /\ wanted \in Nat /\ Len(buffer) <= wanted
  /\ peer_open \in BOOLEAN /\ peer_reads \in BOOLEAN
  /\ inbound \in Seq(Byte) /\ outbound \in Seq(Byte)

(* What the calls know of their locals: between two calls there is nothing  *)
(* in them; a message is received as a header of four bytes and a rest.     *)
Locals ==
  /\ pc \notin {"exact", "recv"} => buffer = <<>> /\ header = <<>>
  /\ pc \in {"exact", "recv"} /\ phase # "reply" /\ header = <<>> => wanted = 4
  /\ pc = "recv" => Len(buffer) < wanted

BufferInv == StreamType /\ Locals

LEMMA MovedIsPart ==
  ASSUME NEW size \in Nat, NEW n \in Moved(size)
  PROVE  n \in 0 .. size
BY TcpAssumption DEF TcpAssumption, Moved

LEMMA BytesAreInt == Byte \subseteq Int
BY DEF Byte

LEMMA ParsesAsInt ==
  ASSUME NEW bytes \in Seq(Byte), Len(bytes) >= 4
  PROVE  bytes_to_int32(bytes) \in Int
<1>1. bytes[1] \in Byte /\ bytes[2] \in Byte /\ bytes[3] \in Byte /\ bytes[4] \in Byte
  OBVIOUS
<1>2. bytes[1] \in Int /\ bytes[2] \in Int /\ bytes[3] \in Int /\ bytes[4] \in Int
  BY <1>1, BytesAreInt
<1>3. PICK b1 \in Int, b2 \in Int, b3 \in Int, b4 \in Int :
        b1 = bytes[1] /\ b2 = bytes[2] /\ b3 = bytes[3] /\ b4 = bytes[4]
  BY <1>2
<1>4. bytes_to_int32(bytes)
        = (IF b1 < 128 THEN b1 ELSE b1 - 256) * 16777216 + b2 * 65536 + b3 * 256 + b4
  BY <1>3, SMT DEF bytes_to_int32
<1>5. (IF b1 < 128 THEN b1 ELSE b1 - 256) * 16777216 + b2 * 65536 + b3 * 256 + b4 \in Int
  BY SMT
<1> QED
  BY <1>4, <1>5, SMT

LEMMA WrittenAsBytes ==
  ASSUME NEW value \in Nat
  PROVE  int32_to_bytes(value) \in Seq(Byte)
<1>1. \A n \in Nat : n % 256 \in Byte
  BY DEF Byte
<1>2. value \div 16777216 \in Nat /\ value \div 65536 \in Nat /\ value \div 256 \in Nat
  BY SMT
<1> QED
  BY <1>1, <1>2, SMT DEF int32_to_bytes

LEMMA MessagesAreBytes ==
  ASSUME NEW m \in MessageType
  PROVE  ToString(m) \in Seq(Byte)
<1>1. int32_to_bytes(m.message_length) \in Seq(Byte)
  BY WrittenAsBytes DEF MessageType
<1>2. <<m.id>> \in Seq(Byte) /\ m.payload \in Seq(Byte)
  BY DEF MessageType
<1> QED
  BY <1>1, <1>2 DEF ToString

LEMMA RestIsBytes ==
  ASSUME NEW bytes \in Seq(Byte), NEW n \in 0 .. Len(bytes)
  PROVE  Rest(bytes, n) \in Seq(Byte) /\ SubSeq(bytes, 1, n) \in Seq(Byte)
         /\ Len(SubSeq(bytes, 1, n)) = n
BY DEF Rest

LEMMA NothingIsBytes == <<>> \in Seq(Byte) /\ Len(<<>>) = 0
OBVIOUS

LEMMA HandshakeIsBytes == Handshake \in Seq(Byte)
<1>1. 19 \in Byte
  BY DEF Byte
<1> QED
  BY <1>1, TcpAssumption DEF TcpAssumption, Handshake

LEMMA InterestedIsMessage ==
  Requests \cup {InitMessage(kInterested, <<>>)} \subseteq MessageType
<1>1. kInterested \in Byte
  BY DEF kInterested, Byte
<1>2. InitMessage(kInterested, <<>>) \in MessageType
  BY <1>1, NothingIsBytes DEF MessageType, InitMessage
<1> QED
  BY <1>2, TcpAssumption DEF TcpAssumption

LEMMA BufferInit ==
  ASSUME Init
  PROVE  BufferInv
<1>1. StreamType
  <2>1. pc = "idle" /\ phase = "handshake" /\ peer_open = FALSE /\ peer_reads = TRUE
    BY DEF Init
  <2>2. unsent = <<>> /\ wanted = 0 /\ buffer = <<>> /\ header = <<>>
    BY DEF Init
  <2>3. inbound = <<>> /\ outbound = <<>>
    BY DEF Init
  <2>4. pc \in {"idle", "ended"} \cup Connecting \cup Calling
    BY <2>1
  <2>5. unsent \in Seq(Byte) /\ buffer \in Seq(Byte) /\ header \in Seq(Byte)
    BY <2>2, NothingIsBytes
  <2>6. inbound \in Seq(Byte) /\ outbound \in Seq(Byte)
    BY <2>3, NothingIsBytes
  <2>7. wanted \in Nat /\ Len(buffer) <= wanted
    BY <2>2, NothingIsBytes
  <2> QED
    BY <2>1, <2>4, <2>5, <2>6, <2>7 DEF StreamType
<1>2. Locals
  BY DEF Init, Locals
<1> QED
  BY <1>1, <1>2 DEF BufferInv

-----------------------------------------------------------------------------
(* What the steps are made of.                                              *)
LEMMA ThrowClears ==
  ASSUME Throw
  PROVE  BufferInv'
<1>1. StreamType'
  <2>1. pc' = "idle" /\ phase' = "handshake" /\ peer_open' = FALSE /\ peer_reads' = TRUE
    BY DEF Throw, GiveUp, ClearLocals, NewLink
  <2>2. unsent' = <<>> /\ wanted' = 0 /\ buffer' = <<>> /\ header' = <<>>
    BY DEF Throw, GiveUp, ClearLocals, NewLink
  <2>3. inbound' = <<>> /\ outbound' = <<>>
    BY DEF Throw, GiveUp, ClearLocals, NewLink
  <2>4. pc' \in {"idle", "ended"} \cup Connecting \cup Calling
    BY <2>1
  <2>5. unsent' \in Seq(Byte) /\ buffer' \in Seq(Byte) /\ header' \in Seq(Byte)
    BY <2>2, NothingIsBytes
  <2>6. inbound' \in Seq(Byte) /\ outbound' \in Seq(Byte)
    BY <2>3, NothingIsBytes
  <2>7. wanted' \in Nat /\ Len(buffer') <= wanted'
    BY <2>2, NothingIsBytes
  <2> QED
    BY <2>1, <2>4, <2>5, <2>6, <2>7 DEF StreamType
<1>2. Locals'
  BY DEF Throw, GiveUp, ClearLocals, Locals
<1> QED
  BY <1>1, <1>2 DEF BufferInv

LEMMA ReturnClears ==
  ASSUME BufferInv, Return, UNCHANGED <<peer, inbound, outbound>>
  PROVE  BufferInv'
<1>1. phase' \in {"handshake", "reply", "bitfield", "interested", "loop"}
  BY DEF Return, After, BufferInv, StreamType
<1> QED
  BY <1>1 DEF Return, ClearLocals, peer, BufferInv, StreamType, Locals, Calling

LEMMA MovingKeepsBuffers ==
  ASSUME BufferInv, NEW from, NEW to, At(from, to), UNCHANGED link,
         from \notin {"exact", "recv"}, to \notin {"exact", "recv"},
         to \in {"ended"} \cup Connecting \cup Calling
  PROVE  BufferInv'
BY DEF At, locals, link, peer, incoming, outgoing, BufferInv, StreamType, Locals

LEMMA UnsentKeepsBuffers ==
  ASSUME BufferInv, NEW bytes \in Seq(Byte), Unsent(bytes), pc \notin {"exact", "recv"},
         UNCHANGED <<peer, inbound>>, outbound' \in Seq(Byte)
  PROVE  BufferInv'
BY DEF Unsent, peer, BufferInv, StreamType, Locals, Calling

LEMMA BeginsEmpty ==
  ASSUME BufferInv, NEW size \in Nat, BeginReceive(size), UNCHANGED link,
         pc \notin {"exact", "recv"}, phase # "reply" => size = 4
  PROVE  BufferInv'
BY DEF BeginReceive, link, peer, incoming, outgoing, BufferInv, StreamType, Locals, Calling

LEMMA EstablishedKeepsBuffers ==
  ASSUME BufferInv, Established, pc \in Connecting
  PROVE  BufferInv'
BY HandshakeIsBytes DEF Established, NewLink, Ours, locals, BufferInv, StreamType, Locals,
   Connecting, Calling

LEMMA ThreadKeepsBuffers ==
  ASSUME BufferInv, UNCHANGED thread, peer_open' \in BOOLEAN, peer_reads' \in BOOLEAN,
         inbound' \in Seq(Byte), UNCHANGED outbound
  PROVE  BufferInv'
BY DEF thread, locals, BufferInv, StreamType, Locals

-----------------------------------------------------------------------------
(* RunLoop and EstablishConnection.                                         *)
LEMMA EstablishingKeepsBuffers ==
  ASSUME BufferInv,
         \/ BeginAttempt \/ EndThread \/ ClearForceClosed \/ CloseOldSocket
         \/ OpenSocket \/ OpenSocketFails \/ ConnectAtOnce \/ ConnectLater
         \/ Connected \/ ConnectFails \/ DropSocket \/ ForgetSocket
  PROVE  BufferInv'
<1>1. CASE BeginAttempt
  BY <1>1 DEF BeginAttempt, locals, link, peer, incoming, outgoing, BufferInv, StreamType,
            Locals, Connecting
<1>2. CASE EndThread
  BY <1>2, MovingKeepsBuffers DEF EndThread, Connecting, Calling
<1>3. CASE ClearForceClosed
  BY <1>3, MovingKeepsBuffers DEF ClearForceClosed, Connecting, Calling
<1>4. CASE CloseOldSocket
  BY <1>4, MovingKeepsBuffers DEF CloseOldSocket, Connecting, Calling
<1>5. CASE OpenSocket
  BY <1>5, MovingKeepsBuffers DEF OpenSocket, Connecting, Calling
<1>6. CASE OpenSocketFails
  BY <1>6, ThrowClears DEF OpenSocketFails
<1>7. CASE ConnectAtOnce
  BY <1>7, EstablishedKeepsBuffers DEF ConnectAtOnce, Connecting
<1>8. CASE ConnectLater
  BY <1>8, MovingKeepsBuffers DEF ConnectLater, Connecting, Calling
<1>9. CASE Connected
  BY <1>9, EstablishedKeepsBuffers DEF Connected, Connecting
<1>10. CASE ConnectFails
  BY <1>10, MovingKeepsBuffers DEF ConnectFails, Connecting, Calling
<1>11. CASE DropSocket
  BY <1>11, MovingKeepsBuffers DEF DropSocket, Connecting, Calling
<1>12. CASE ForgetSocket
  BY <1>12, ThrowClears DEF ForgetSocket
<1> QED
  BY <1>1, <1>2, <1>3, <1>4, <1>5, <1>6, <1>7, <1>8, <1>9, <1>10, <1>11, <1>12

(* The session's calls, and SendData.                                       *)
LEMMA SendingKeepsBuffers ==
  ASSUME BufferInv,
         \/ PerformHandshake \/ (\E m \in Requests \cup {InitMessage(kInterested, <<>>)} : SendMessage(m)) \/ ReceiveHandshake \/ ReceiveMessage
         \/ MainLoopReturns \/ SendLoop \/ SendSome \/ SendToNobody
         \/ SendBlocks \/ SendWakes
  PROVE  BufferInv'
<1>1. CASE PerformHandshake
  BY <1>1, ThrowClears, UnsentKeepsBuffers, HandshakeIsBytes
     DEF PerformHandshake, link, incoming, outgoing, BufferInv, StreamType
<1>2. CASE (\E m \in Requests \cup {InitMessage(kInterested, <<>>)} : SendMessage(m))
  <2>1. PICK m \in MessageType : SendMessage(m)
    BY <1>2, InterestedIsMessage
  <2> QED
    BY <2>1, ThrowClears, UnsentKeepsBuffers, MessagesAreBytes
       DEF SendMessage, incoming, BufferInv, StreamType
<1>3. CASE ReceiveHandshake
  BY <1>3, ThrowClears, BeginsEmpty, TcpAssumption DEF ReceiveHandshake, TcpAssumption
<1>4. CASE ReceiveMessage
  BY <1>4, ThrowClears, MovingKeepsBuffers DEF ReceiveMessage, Calling
<1>5. CASE MainLoopReturns
  BY <1>5 DEF MainLoopReturns, GiveUp, NewLink, locals, BufferInv, StreamType, Locals
<1>6. CASE SendLoop
  BY <1>6, ThrowClears, ReturnClears, MovingKeepsBuffers
     DEF SendLoop, Calling, link, incoming, outgoing
<1>7. CASE SendSome
  <2>1. PICK n \in Moved(Len(unsent)) : outbound' = outbound \o SubSeq(unsent, 1, n)
                                       /\ Unsent(Rest(unsent, n))
    BY <1>7 DEF SendSome
  <2>2. Rest(unsent, n) \in Seq(Byte) /\ SubSeq(unsent, 1, n) \in Seq(Byte)
    BY MovedIsPart, RestIsBytes DEF BufferInv, StreamType
  <2>3. outbound' \in Seq(Byte)
    BY <2>1, <2>2 DEF BufferInv, StreamType
  <2> QED
    BY <1>7, <2>1, <2>2, <2>3, UnsentKeepsBuffers DEF SendSome, incoming
<1>8. CASE SendToNobody
  <2>1. ASSUME NEW n \in Moved(Len(unsent)), Unsent(Rest(unsent, n)), UNCHANGED link
        PROVE  BufferInv'
    <3>1. Rest(unsent, n) \in Seq(Byte)
      BY MovedIsPart, RestIsBytes DEF BufferInv, StreamType
    <3>2. outbound' \in Seq(Byte) /\ UNCHANGED <<peer, inbound>>
      BY <2>1 DEF link, incoming, outgoing, BufferInv, StreamType
    <3> QED
      BY <1>8, <2>1, <3>1, <3>2, UnsentKeepsBuffers DEF SendToNobody
  <2> QED
    BY <1>8, <2>1, ThrowClears DEF SendToNobody
<1>9. CASE SendBlocks
  BY <1>9, MovingKeepsBuffers DEF SendBlocks, Calling
<1>10. CASE SendWakes
  BY <1>10, ThrowClears DEF SendWakes
<1> QED
  BY <1>1, <1>2, <1>3, <1>4, <1>5, <1>6, <1>7, <1>8, <1>9, <1>10

(* ReceiveData.                                                             *)
LEMMA ReceivingKeepsBuffers ==
  ASSUME BufferInv,
         \/ PollTimesOut \/ PollHeader \/ PollExact \/ ExactThrows
         \/ RecvSome \/ RecvFails \/ RecvFromOther \/ GotHandshake
         \/ GotHeader \/ GotMessage
  PROVE  BufferInv'
<1>1. CASE PollTimesOut
  BY <1>1, ThrowClears, ReturnClears DEF PollTimesOut, link, incoming, outgoing
<1>2. CASE PollHeader
  BY <1>2, ThrowClears, BeginsEmpty DEF PollHeader
<1>3. CASE PollExact
  BY <1>3 DEF PollExact, At, Missing, locals, link, peer, incoming, outgoing, BufferInv,
            StreamType, Locals, Calling
<1>4. CASE ExactThrows
  BY <1>4, ThrowClears DEF ExactThrows
<1>5. CASE RecvSome
  <2>1. PICK n \in Moved(Smaller(Len(inbound), wanted - Len(buffer))) : Receive(n)
    BY <1>5 DEF RecvSome
  <2>2. Smaller(Len(inbound), wanted - Len(buffer)) \in Nat
    BY DEF Smaller, BufferInv, StreamType
  <2>3. n \in 0 .. Len(inbound) /\ n <= wanted - Len(buffer)
    BY <2>2, MovedIsPart DEF Smaller, BufferInv, StreamType
  <2>4. /\ Rest(inbound, n) \in Seq(Byte) /\ SubSeq(inbound, 1, n) \in Seq(Byte)
        /\ Len(SubSeq(inbound, 1, n)) = n
    BY <2>3, RestIsBytes DEF BufferInv, StreamType
  <2>5. buffer' \in Seq(Byte) /\ Len(buffer') = Len(buffer) + n
    BY <2>1, <2>4 DEF Receive, BufferInv, StreamType
  <2> QED
    BY <2>1, <2>3, <2>4, <2>5
       DEF Receive, peer, outgoing, BufferInv, StreamType, Locals, Calling
<1>6. CASE RecvFails
  BY <1>6, ThrowClears DEF RecvFails
<1>7. CASE RecvFromOther
  <2>1. PICK b \in ForeignBytes : buffer' = Append(buffer, b)
    BY <1>7 DEF RecvFromOther
  <2>2. b \in Byte
    BY TcpAssumption DEF TcpAssumption
  <2>3. buffer' \in Seq(Byte) /\ Len(buffer') = Len(buffer) + 1
    BY <2>1, <2>2 DEF BufferInv, StreamType
  <2> QED
    BY <1>7, <2>3 DEF RecvFromOther, link, peer, incoming, outgoing, BufferInv, StreamType,
                   Locals, Calling
<1>8. CASE GotHandshake
  BY <1>8, ReturnClears DEF GotHandshake, link, incoming, outgoing
<1>9. CASE GotHeader
  <2>1. wanted = 4 /\ Len(buffer) >= 4
    BY <1>9 DEF GotHeader, Missing, BufferInv, StreamType, Locals
  <2>2. bytes_to_int32(buffer) \in Int
    BY <2>1, ParsesAsInt DEF BufferInv, StreamType
  <2>3. CASE Throw
    BY <2>3, ThrowClears
  <2>4. CASE ~Throw
    <3>1. /\ bytes_to_int32(buffer) \in Nat
          /\ header' = buffer /\ wanted' = bytes_to_int32(buffer) /\ buffer' = <<>>
          /\ UNCHANGED <<pc, phase, unsent, attempts, link>>
      BY <1>9, <2>2, <2>4 DEF GotHeader, TooLarge
    <3>2. header' # <<>> /\ Len(buffer') <= wanted'
      BY <2>1, <3>1 DEF BufferInv, StreamType
    <3> QED
      BY <1>9, <3>1, <3>2 DEF GotHeader, link, peer, incoming, outgoing, BufferInv, StreamType,
                           Locals
  <2> QED
    BY <2>3, <2>4
<1>10. CASE GotMessage
  BY <1>10, ReturnClears DEF GotMessage, outgoing
<1> QED
  BY <1>1, <1>2, <1>3, <1>4, <1>5, <1>6, <1>7, <1>8, <1>9, <1>10

(* Stop, the peer and the rest of the program.                              *)
LEMMA OthersKeepBuffers ==
  ASSUME BufferInv,
         \/ BeginStop \/ SetForceClosed \/ ShutdownSocket \/ CloseSocket
         \/ ForgetClosed \/ JoinThread \/ DestroyConnection \/ (\E f \in Fds : OtherOpens(f) \/ OtherCloses(f))
         \/ (\E m \in PeerMessages : PeerSends(m)) \/ PeerStalls \/ PeerCloses
  PROVE  BufferInv'
<1>1. CASE BeginStop
  BY <1>1, ThreadKeepsBuffers DEF BeginStop, link, peer, incoming, outgoing, BufferInv,
            StreamType
<1>2. CASE SetForceClosed
  BY <1>2, ThreadKeepsBuffers DEF SetForceClosed, link, peer, incoming, outgoing, BufferInv,
            StreamType
<1>3. CASE ShutdownSocket
  BY <1>3, ThreadKeepsBuffers DEF ShutdownSocket, link, peer, incoming, outgoing, BufferInv,
            StreamType
<1>4. CASE CloseSocket
  BY <1>4, ThreadKeepsBuffers DEF CloseSocket, link, peer, incoming, outgoing, BufferInv,
            StreamType
<1>5. CASE ForgetClosed
  BY <1>5, ThreadKeepsBuffers DEF ForgetClosed, link, peer, incoming, outgoing, BufferInv,
            StreamType
<1>6. CASE JoinThread
  BY <1>6, ThreadKeepsBuffers DEF JoinThread, link, peer, incoming, outgoing, BufferInv,
            StreamType
<1>7. CASE DestroyConnection
  BY <1>7, ThreadKeepsBuffers DEF DestroyConnection, link, peer, incoming, outgoing, BufferInv,
            StreamType
<1>8. CASE (\E f \in Fds : OtherOpens(f) \/ OtherCloses(f))
  BY <1>8, ThreadKeepsBuffers DEF OtherOpens, OtherCloses, link, peer, incoming, outgoing,
            BufferInv, StreamType
<1>9. CASE (\E m \in PeerMessages : PeerSends(m))
  <2>1. PICK m \in PeerMessages : PeerSends(m)
    BY <1>9
  <2>2. ToString(m) \in Seq(Byte)
    BY MessagesAreBytes, TcpAssumption DEF TcpAssumption
  <2>3. 0 \in Byte
    BY DEF Byte
  <2>4. Wire(m) \in Seq(Byte)
    BY <2>2, <2>3 DEF Wire
  <2>5. inbound' \in Seq(Byte)
    BY <2>1, <2>4 DEF PeerSends, BufferInv, StreamType
  <2> QED
    BY <2>1, <2>5, ThreadKeepsBuffers DEF PeerSends, peer, outgoing, BufferInv, StreamType
<1>10. CASE PeerStalls
  BY <1>10, ThreadKeepsBuffers DEF PeerStalls, link, peer, incoming, outgoing, BufferInv,
            StreamType
<1>11. CASE PeerCloses
  <2>1. PICK n \in {0} \cup Moved(Len(inbound)) : inbound' = SubSeq(inbound, 1, n)
    BY <1>11 DEF PeerCloses
  <2>2. n \in 0 .. Len(inbound)
    BY MovedIsPart DEF BufferInv, StreamType
  <2>3. inbound' \in Seq(Byte)
    BY <2>1, <2>2, RestIsBytes DEF BufferInv, StreamType
  <2> QED
    BY <1>11, <2>3, ThreadKeepsBuffers DEF PeerCloses, outgoing, BufferInv, StreamType
<1> QED
  BY <1>1, <1>2, <1>3, <1>4, <1>5, <1>6, <1>7, <1>8, <1>9, <1>10, <1>11

LEMMA BufferStep ==
  ASSUME BufferInv, [Next]_vars
  PROVE  BufferInv'
<1>1. CASE UNCHANGED vars
  BY <1>1, ThreadKeepsBuffers DEF vars, thread, link, peer, incoming, outgoing, BufferInv,
     StreamType
<1>2. CASE Next
  BY <1>2, EstablishingKeepsBuffers, SendingKeepsBuffers, ReceivingKeepsBuffers,
     OthersKeepBuffers
     DEF Next, SessionThread, EstablishConnection, SendData, ReceiveData, StopThread,
         Environment
<1> QED
  BY <1>1, <1>2

-----------------------------------------------------------------------------
(* The flags and the counter.                                               *)
FlagsType ==
  /\ is_terminated \in BOOLEAN /\ is_force_closed \in BOOLEAN
  /\ attempts \in 0 .. MaxAttempts
  /\ caught \in BOOLEAN
  /\ misused \subseteq {"closed", "touched"}

LEMMA BlameType ==
  ASSUME FlagsType, Touch \/ UNCHANGED blame \/ \E f : CloseFd(f)
  PROVE  caught' \in BOOLEAN /\ misused' \subseteq {"closed", "touched"}
BY DEF FlagsType, Touch, CloseFd, blame

LEMMA QuietKeepsFlags ==
  ASSUME FlagsType, UNCHANGED flags, UNCHANGED attempts,
         Touch \/ UNCHANGED blame \/ \E f : CloseFd(f)
  PROVE  FlagsType'
BY BlameType DEF FlagsType, flags

LEMMA EstablishingKeepsFlags ==
  ASSUME FlagsType,
         \/ BeginAttempt \/ EndThread \/ ClearForceClosed \/ CloseOldSocket
         \/ OpenSocket \/ OpenSocketFails \/ ConnectAtOnce \/ ConnectLater
         \/ Connected \/ ConnectFails \/ DropSocket \/ ForgetSocket
  PROVE  FlagsType'
<1>1. CASE BeginAttempt
  BY <1>1, BlameType, TcpAssumption DEF TcpAssumption, BeginAttempt, descriptor_vars, flags,
     FlagsType
<1>2. CASE EndThread
  BY <1>2, BlameType DEF EndThread, At, thread, FlagsType
<1>3. CASE ClearForceClosed
  BY <1>3, BlameType DEF ClearForceClosed, At, thread, FlagsType
<1>4. CASE CloseOldSocket
  BY <1>4, QuietKeepsFlags DEF CloseOldSocket, At
<1>5. CASE OpenSocket
  BY <1>5, QuietKeepsFlags DEF OpenSocket, At
<1>6. CASE OpenSocketFails
  BY <1>6, QuietKeepsFlags DEF OpenSocketFails, Throw, GiveUp
<1>7. CASE ConnectAtOnce
  BY <1>7, QuietKeepsFlags DEF ConnectAtOnce, Established, descriptor_vars
<1>8. CASE ConnectLater
  BY <1>8, QuietKeepsFlags DEF ConnectLater, At, descriptor_vars
<1>9. CASE Connected
  BY <1>9, QuietKeepsFlags DEF Connected, Established, descriptor_vars
<1>10. CASE ConnectFails
  BY <1>10, QuietKeepsFlags DEF ConnectFails, At, descriptor_vars
<1>11. CASE DropSocket
  BY <1>11, QuietKeepsFlags DEF DropSocket, At
<1>12. CASE ForgetSocket
  BY <1>12, QuietKeepsFlags DEF ForgetSocket, Throw, GiveUp
<1> QED
  BY <1>1, <1>2, <1>3, <1>4, <1>5, <1>6, <1>7, <1>8, <1>9, <1>10, <1>11, <1>12

LEMMA SendingKeepsFlags ==
  ASSUME FlagsType,
         \/ PerformHandshake \/ (\E m \in Requests \cup {InitMessage(kInterested, <<>>)} : SendMessage(m)) \/ ReceiveHandshake \/ ReceiveMessage
         \/ MainLoopReturns \/ SendLoop \/ SendSome \/ SendToNobody
         \/ SendBlocks \/ SendWakes
  PROVE  FlagsType'
<1>1. CASE PerformHandshake
  BY <1>1, QuietKeepsFlags DEF PerformHandshake, Throw, GiveUp, Unsent, descriptor_vars
<1>2. CASE (\E m \in Requests \cup {InitMessage(kInterested, <<>>)} : SendMessage(m))
  BY <1>2, QuietKeepsFlags DEF SendMessage, Throw, GiveUp, Unsent, descriptor_vars
<1>3. CASE ReceiveHandshake
  BY <1>3, QuietKeepsFlags DEF ReceiveHandshake, Throw, GiveUp, BeginReceive, descriptor_vars
<1>4. CASE ReceiveMessage
  BY <1>4, QuietKeepsFlags DEF ReceiveMessage, Throw, GiveUp, At, descriptor_vars
<1>5. CASE MainLoopReturns
  BY <1>5, QuietKeepsFlags DEF MainLoopReturns, GiveUp, descriptor_vars
<1>6. CASE SendLoop
  BY <1>6, QuietKeepsFlags DEF SendLoop, Throw, GiveUp, Return, At, descriptor_vars
<1>7. CASE SendSome
  BY <1>7, QuietKeepsFlags DEF SendSome, Unsent, descriptor_vars
<1>8. CASE SendToNobody
  BY <1>8, QuietKeepsFlags DEF SendToNobody, Throw, GiveUp, Unsent, descriptor_vars
<1>9. CASE SendBlocks
  BY <1>9, QuietKeepsFlags DEF SendBlocks, At, descriptor_vars
<1>10. CASE SendWakes
  BY <1>10, QuietKeepsFlags DEF SendWakes, Throw, GiveUp, descriptor_vars
<1> QED
  BY <1>1, <1>2, <1>3, <1>4, <1>5, <1>6, <1>7, <1>8, <1>9, <1>10

LEMMA ReceivingKeepsFlags ==
  ASSUME FlagsType,
         \/ PollTimesOut \/ PollHeader \/ PollExact \/ ExactThrows
         \/ RecvSome \/ RecvFails \/ RecvFromOther \/ GotHandshake
         \/ GotHeader \/ GotMessage
  PROVE  FlagsType'
<1>1. CASE PollTimesOut
  BY <1>1, QuietKeepsFlags DEF PollTimesOut, Throw, GiveUp, Return, descriptor_vars
<1>2. CASE PollHeader
  BY <1>2, QuietKeepsFlags DEF PollHeader, Throw, GiveUp, BeginReceive, descriptor_vars
<1>3. CASE PollExact
  BY <1>3, QuietKeepsFlags DEF PollExact, At, descriptor_vars
<1>4. CASE ExactThrows
  BY <1>4, QuietKeepsFlags DEF ExactThrows, Throw, GiveUp, descriptor_vars
<1>5. CASE RecvSome
  BY <1>5, QuietKeepsFlags DEF RecvSome, Receive, descriptor_vars
<1>6. CASE RecvFails
  BY <1>6, QuietKeepsFlags DEF RecvFails, Throw, GiveUp, descriptor_vars
<1>7. CASE RecvFromOther
  BY <1>7, QuietKeepsFlags DEF RecvFromOther, descriptor_vars
<1>8. CASE GotHandshake
  BY <1>8, QuietKeepsFlags DEF GotHandshake, Return, descriptor_vars
<1>9. CASE GotHeader
  BY <1>9, QuietKeepsFlags DEF GotHeader, Throw, GiveUp, descriptor_vars
<1>10. CASE GotMessage
  BY <1>10, QuietKeepsFlags DEF GotMessage, Return, descriptor_vars
<1> QED
  BY <1>1, <1>2, <1>3, <1>4, <1>5, <1>6, <1>7, <1>8, <1>9, <1>10

LEMMA OthersKeepFlags ==
  ASSUME FlagsType,
         \/ BeginStop \/ SetForceClosed \/ ShutdownSocket \/ CloseSocket
         \/ ForgetClosed \/ JoinThread \/ DestroyConnection \/ (\E f \in Fds : OtherOpens(f) \/ OtherCloses(f))
         \/ (\E m \in PeerMessages : PeerSends(m)) \/ PeerStalls \/ PeerCloses
  PROVE  FlagsType'
<1>1. CASE BeginStop
  BY <1>1 DEF BeginStop, thread, FlagsType
<1>2. CASE SetForceClosed
  BY <1>2, BlameType DEF SetForceClosed, At, thread, FlagsType
<1>3. CASE ShutdownSocket
  BY <1>3, QuietKeepsFlags DEF ShutdownSocket, thread
<1>4. CASE CloseSocket
  BY <1>4, QuietKeepsFlags DEF CloseSocket, thread
<1>5. CASE ForgetClosed
  BY <1>5, QuietKeepsFlags DEF ForgetClosed, thread
<1>6. CASE JoinThread
  BY <1>6, QuietKeepsFlags DEF JoinThread, thread
<1>7. CASE DestroyConnection
  BY <1>7, BlameType DEF DestroyConnection, At, thread, FlagsType
<1>8. CASE (\E f \in Fds : OtherOpens(f) \/ OtherCloses(f))
  BY <1>8, QuietKeepsFlags DEF OtherOpens, OtherCloses, thread
<1>9. CASE (\E m \in PeerMessages : PeerSends(m))
  BY <1>9, QuietKeepsFlags DEF PeerSends, descriptor_vars, thread
<1>10. CASE PeerStalls
  BY <1>10, QuietKeepsFlags DEF PeerStalls, descriptor_vars, thread
<1>11. CASE PeerCloses
  BY <1>11, QuietKeepsFlags DEF PeerCloses, descriptor_vars, thread
<1> QED
  BY <1>1, <1>2, <1>3, <1>4, <1>5, <1>6, <1>7, <1>8, <1>9, <1>10, <1>11

LEMMA FlagsStep ==
  ASSUME FlagsType, [Next]_vars
  PROVE  FlagsType'
<1>1. CASE UNCHANGED vars
  BY <1>1, QuietKeepsFlags DEF vars, thread
<1>2. CASE Next
  BY <1>2, EstablishingKeepsFlags, SendingKeepsFlags, ReceivingKeepsFlags, OthersKeepFlags
     DEF Next, SessionThread, EstablishConnection, SendData, ReceiveData, StopThread,
         Environment
<1> QED
  BY <1>1, <1>2

(* Every variable stays in its type: in particular recv() never writes past *)
(* the string that was made for it (Len(buffer) <= wanted), and that string *)
(* is never asked for with a negative size, whatever the peer sends.        *)
THEOREM TypeCorrect == Spec => []TypeOK
<1>1. ASSUME Init
      PROVE  FlagsType
  <2>1. attempts \in 0 .. MaxAttempts
    BY <1>1, TcpAssumption DEF TcpAssumption, Init
  <2>2. is_terminated = FALSE /\ is_force_closed = FALSE /\ caught = FALSE /\ misused = {}
    BY <1>1 DEF Init
  <2> QED
    BY <2>1, <2>2 DEF FlagsType
<1>2. Init => BufferInv /\ DescriptorInv
  BY BufferInit, DescriptorInit
<1>3. BufferInv /\ FlagsType /\ DescriptorInv /\ [Next]_vars
        => BufferInv' /\ FlagsType' /\ DescriptorInv'
  BY BufferStep, FlagsStep, DescriptorStep
<1>4. BufferInv /\ FlagsType /\ DescriptorInv => TypeOK
  BY DEF BufferInv, StreamType, FlagsType, DescriptorInv, DescriptorTypes, TypeOK
<1> QED
  BY <1>1, <1>2, <1>3, <1>4, PTL DEF Spec

-----------------------------------------------------------------------------
(* A number is its digits.                                                  *)
LEMMA Digits ==
  ASSUME NEW n \in Nat
  PROVE  /\ n = (n \div 256) * 256 + (n % 256)
         /\ n \div 256 = (n \div 65536) * 256 + ((n \div 256) % 256)
         /\ n \div 65536 = (n \div 16777216) * 256 + ((n \div 65536) % 256)
BY SMT

LEMMA TopDigit ==
  ASSUME NEW n \in Nat, n <= MaxInt32
  PROVE  (n \div 16777216) % 256 = n \div 16777216 /\ n \div 16777216 < 128
BY SMT DEF MaxInt32

(* A length that is written into a message's first four bytes is read back  *)
(* as it was, for every length a signed 32-bit number has                   *)
(* (int32_to_bytes and bytes_to_int32).                                     *)
THEOREM LengthIsReadBack ==
  ASSUME NEW n \in Nat, n <= MaxInt32
  PROVE  bytes_to_int32(int32_to_bytes(n)) = n
<1>1. PICK a \in Int, b \in Int, c \in Int :
        a = n \div 256 /\ b = n \div 65536 /\ c = n \div 16777216
  BY SMT
<1>2. PICK n1 \in Int, a1 \in Int, b1 \in Int, c1 \in Int :
        n1 = n % 256 /\ a1 = a % 256 /\ b1 = b % 256 /\ c1 = c % 256
  BY SMT
<1>3. n = a * 256 + n1 /\ a = b * 256 + a1 /\ b = c * 256 + b1 /\ c1 = c /\ c < 128
  BY <1>1, <1>2, Digits, TopDigit
<1>4. int32_to_bytes(n) = <<c1, b1, a1, n1>>
  BY <1>1, <1>2 DEF int32_to_bytes
<1>5. bytes_to_int32(<<c1, b1, a1, n1>>) = c1 * 16777216 + b1 * 65536 + a1 * 256 + n1
  BY <1>3, SMT DEF bytes_to_int32
<1>6. c1 * 16777216 + b1 * 65536 + a1 * 256 + n1 = n
  BY <1>3, SMT
<1> QED
  BY <1>4, <1>5, <1>6

(* A length is read from the first four bytes, whatever follows them.       *)
LEMMA LengthInFront ==
  ASSUME NEW s \in Strings(Byte), NEW t \in Strings(Byte), Size(s) >= 4
  PROVE  bytes_to_int32(Cat(s, t)) = bytes_to_int32(s)
<1>1. Size(s) \in Nat
  BY SizeIsNat
<1>2. 1 <= Size(s) /\ 2 <= Size(s) /\ 3 <= Size(s) /\ 4 <= Size(s)
  BY <1>1
<1>3. s[1] \in Byte /\ s[2] \in Byte /\ s[3] \in Byte /\ s[4] \in Byte
  BY <1>2, ElementType
<1>4. PICK b1 \in Int, b2 \in Int, b3 \in Int, b4 \in Int :
        b1 = s[1] /\ b2 = s[2] /\ b3 = s[3] /\ b4 = s[4]
  BY <1>3, BytesAreInt
<1> DEFINE st == Cat(s, t)
<1>5. st[1] = s[1] /\ st[2] = s[2] /\ st[3] = s[3] /\ st[4] = s[4]
  BY <1>2, ElementInFront
<1> HIDE DEF st
<1> DEFINE n == (IF b1 < 128 THEN b1 ELSE b1 - 256) * 16777216 + b2 * 65536 + b3 * 256 + b4
<1>6. bytes_to_int32(s) = n
  BY <1>4, SMT DEF bytes_to_int32
<1>7. bytes_to_int32(st) = n
  BY <1>4, <1>5, SMT DEF bytes_to_int32
<1> HIDE DEF n
<1> QED
  BY <1>6, <1>7 DEF st

(* The two parts of a message on the wire.                                  *)
Lengthy(m) == int32_to_bytes(m.message_length)
Body(m) == IF m = KeepAlive THEN None ELSE Cat(One(m.id), m.payload)

(* The four bytes of a length.                                              *)
LEMMA LengthyType ==
  ASSUME NEW m \in MessageType
  PROVE  Lengthy(m) \in Strings(Byte) /\ Size(Lengthy(m)) = 4
<1>1. m.message_length \in Nat
  BY DEF MessageType
<1>2. int32_to_bytes(m.message_length) \in Seq(Byte)
  BY <1>1, WrittenAsBytes
<1>3. Len(int32_to_bytes(m.message_length)) = 4
  BY DEF int32_to_bytes
<1> QED
  BY <1>2, <1>3 DEF Strings, Size, Lengthy

(* What follows them.                                                       *)
LEMMA BodyType ==
  ASSUME NEW m \in MessageType
  PROVE  /\ Body(m) \in Strings(Byte)
         /\ m.payload \in Strings(Byte)
         /\ One(m.id) \in Strings(Byte)
         /\ Size(One(m.id)) = 1
<1>1. m.id \in Byte /\ m.payload \in Strings(Byte)
  BY DEF MessageType, Strings
<1>2. One(m.id) \in Strings(Byte) /\ Size(One(m.id)) = 1
  BY <1>1, OneType
<1> QED
  BY <1>1, <1>2, CatType, NoneType DEF Body

(* A message on the wire: its length, and what has that length.             *)
LEMMA WireIsCat ==
  ASSUME NEW m \in MessageType
  PROVE  Wire(m) = Cat(Lengthy(m), Body(m))
<1>1. CASE m = KeepAlive
  <2>1. m.message_length = 0
    BY <1>1 DEF KeepAlive
  <2>2. int32_to_bytes(0) = <<0, 0, 0, 0>>
    BY SMT DEF int32_to_bytes
  <2>3. Wire(m) = Lengthy(m)
    BY <1>1, <2>1, <2>2 DEF Wire, Lengthy
  <2>4. Body(m) = None
    BY <1>1 DEF Body
  <2> QED
    BY <2>3, <2>4, CatNone, LengthyType
<1>2. CASE m # KeepAlive
  <2>1. Wire(m) = Cat(Cat(Lengthy(m), One(m.id)), m.payload)
    BY <1>2 DEF Wire, ToString, Cat, One, Lengthy
  <2>2. Body(m) = Cat(One(m.id), m.payload)
    BY <1>2 DEF Body
  <2> QED
    BY <2>1, <2>2, CatAssociates, LengthyType, BodyType
<1> QED
  BY <1>1, <1>2

(* The length that is read off a message is the one that was written.       *)
LEMMA WireType ==
  ASSUME NEW m \in MessageType
  PROVE  /\ Wire(m) \in Strings(Byte)
         /\ Size(Wire(m)) >= 4
         /\ bytes_to_int32(Wire(m)) = bytes_to_int32(Lengthy(m))
<1>1. Lengthy(m) \in Strings(Byte) /\ Size(Lengthy(m)) = 4 /\ Body(m) \in Strings(Byte)
  BY LengthyType, BodyType
<1>2. Size(Body(m)) \in Nat
  BY <1>1, SizeIsNat
<1>3. Wire(m) = Cat(Lengthy(m), Body(m))
  BY WireIsCat
<1>4. Wire(m) \in Strings(Byte) /\ Size(Wire(m)) = 4 + Size(Body(m))
  BY <1>1, <1>3, CatType
<1>5. bytes_to_int32(Wire(m)) = bytes_to_int32(Lengthy(m))
  BY <1>1, <1>3, LengthInFront
<1> QED
  BY <1>2, <1>4, <1>5

(* A keep-alive is a length of zero.                                        *)
LEMMA KeepAliveWire ==
  /\ KeepAlive \in MessageType
  /\ Size(Wire(KeepAlive)) = 4
  /\ bytes_to_int32(Wire(KeepAlive)) = 0
  /\ Parse(Wire(KeepAlive)) = KeepAlive
<1>1. Wire(KeepAlive) = <<0, 0, 0, 0>>
  BY DEF Wire
<1>2. bytes_to_int32(<<0, 0, 0, 0>>) = 0
  BY SMT DEF bytes_to_int32
<1>3. KeepAlive \in MessageType
  <2>1. kKeepAlive \in Byte
    BY DEF kKeepAlive, Byte
  <2> QED
    BY <2>1, NothingIsBytes DEF KeepAlive, MessageType
<1>4. Size(<<0, 0, 0, 0>>) = 4
  BY DEF Size
<1> QED
  BY <1>1, <1>2, <1>3, <1>4 DEF Parse

LEMMA FramedWire ==
  ASSUME NEW m \in MessageType, Framed(m)
  PROVE  /\ Wire(m) = ToString(m)
         /\ bytes_to_int32(Wire(m)) = m.message_length
         /\ Size(Wire(m)) = 4 + m.message_length
         /\ m.message_length \in Nat
         /\ Parse(Wire(m)) = m
<1>1. m.message_length \in Nat /\ m.payload \in Strings(Byte)
      /\ m = [id |-> m.id, message_length |-> m.message_length, payload |-> m.payload]
  BY DEF MessageType, Strings
<1>2. m.message_length = Size(m.payload) + 1 /\ m.message_length <= MaxInt32
  BY DEF Framed, Size
<1>3. Size(m.payload) \in Nat
  BY <1>1, SizeIsNat
<1>4. m.message_length # 0
  BY <1>2, <1>3
<1>5. m # KeepAlive
  BY <1>4 DEF KeepAlive
<1>6. Wire(m) = ToString(m)
  BY <1>5 DEF Wire
<1>7. bytes_to_int32(Wire(m)) = m.message_length
  BY <1>1, <1>2, WireType, LengthIsReadBack DEF Lengthy
<1> DEFINE h == Cat(Lengthy(m), One(m.id))
<1>8. h \in Strings(Byte) /\ Size(h) = 5
  BY LengthyType, BodyType, CatType
<1>9. h[5] = m.id
  <2>1. m.id \in Byte
    BY DEF MessageType
  <2>2. Cat(Lengthy(m), One(m.id))[Size(Lengthy(m)) + 1] = m.id
    BY <2>1, LengthyType, ElementAfter
  <2>3. Size(Lengthy(m)) + 1 = 5
    BY LengthyType
  <2> QED
    BY <2>2, <2>3
<1>10. Wire(m) = Cat(h, m.payload)
  BY <1>6 DEF ToString, Cat, One, Lengthy
<1>11. Wire(m)[5] = m.id
  <2>1. 5 \in Nat /\ 1 <= 5 /\ 5 <= Size(h)
    BY <1>8
  <2> HIDE DEF h
  <2>2. Cat(h, m.payload)[5] = h[5]
    BY <1>1, <1>8, <2>1, ElementInFront
  <2> QED
    BY <1>9, <1>10, <2>2
<1> HIDE DEF h
<1>12. Drop(Wire(m), 5) = m.payload
  BY <1>1, <1>8, <1>10, DropCat
<1>13. SubSeq(Wire(m), 6, Len(Wire(m))) = m.payload
  BY <1>12 DEF Drop
<1>14. Size(Wire(m)) = 4 + m.message_length
  BY <1>1, <1>2, <1>3, <1>8, <1>10, CatType
<1>15. Parse(Wire(m)) = [id |-> m.id, message_length |-> m.message_length, payload |-> m.payload]
  BY <1>4, <1>7, <1>11, <1>13 DEF Parse
<1> QED
  BY <1>1, <1>6, <1>7, <1>14, <1>15

(* Message::ToString and Message::Parse: what is parsed is the message that *)
(* was put into bytes, and it takes as many bytes as its length says.       *)
THEOREM MessageIsReadBack ==
  ASSUME NEW m \in MessageType, Framed(m)
  PROVE  /\ Parse(ToString(m)) = m
         /\ Len(ToString(m)) = 4 + m.message_length
BY FramedWire DEF Size

-----------------------------------------------------------------------------
(* The bytes that stand for messages, in their order.                       *)
StreamOf[ms \in Strings(MessageType)] ==
  IF ms = None THEN None ELSE Cat(Wire(ms[1]), StreamOf[Drop(ms, 1)])

StreamBody ==
  [fd \in [Strings(MessageType) -> Strings(Byte)] \X Strings(MessageType) |->
     IF fd[2] = None THEN None ELSE Cat(Wire(fd[2][1]), fd[1][Drop(fd[2], 1)])]

(* StreamOf calls itself on what follows the first message only ...         *)
LEMMA StreamRecursion ==
  Recursion(Strings(MessageType), Strings(Byte), Sizes(MessageType), StreamBody)
<1> DEFINE D == Strings(MessageType)
           R == Strings(Byte)
<1>1. None \in R
  BY NoneType
<1>2. Sizes(MessageType) \in [D -> Nat]
  BY SizeIsNat DEF Sizes
<1>3. ASSUME NEW ms \in D, ms # None
      PROVE  Drop(ms, 1) \in D /\ Sizes(MessageType)[Drop(ms, 1)] < Sizes(MessageType)[ms]
             /\ ms[1] \in MessageType
  <2>1. PICK a \in MessageType, t \in D : ms = Cat(One(a), t) /\ Size(ms) = Size(t) + 1
    BY <1>3, FirstOf
  <2>2. Drop(ms, 1) = t /\ ms[1] = a
    BY <2>1, FirstIs
  <2>3. Size(t) \in Nat
    BY SizeIsNat
  <2> QED
    BY <2>1, <2>2, <2>3 DEF Sizes
<1>4. StreamBody \in [[D -> R] \X D -> R]
  <2>1. ASSUME NEW f \in [D -> R], NEW ms \in D
        PROVE  (IF ms = None THEN None ELSE Cat(Wire(ms[1]), f[Drop(ms, 1)])) \in R
    <3>1. CASE ms = None
      BY <1>1, <3>1
    <3>2. CASE ms # None
      <4>1. Wire(ms[1]) \in R /\ f[Drop(ms, 1)] \in R
        BY <1>3, <3>2, WireType
      <4> QED
        BY <3>2, <4>1, CatType
    <3> QED
      BY <3>1, <3>2
  <2> HIDE DEF D, R
  <2> QED
    BY <2>1 DEF StreamBody, D, R
<1>5. CallsSmaller(D, R, Sizes(MessageType), StreamBody)
  <2> SUFFICES ASSUME NEW f \in [D -> R], NEW g \in [D -> R], NEW d \in D,
                      \A e \in D : Sizes(MessageType)[e] < Sizes(MessageType)[d] => f[e] = g[e]
               PROVE  StreamBody[<<f, d>>] = StreamBody[<<g, d>>]
    BY DEF CallsSmaller
  <2>1. d # None => f[Drop(d, 1)] = g[Drop(d, 1)]
    BY <1>3
  <2> QED
    BY <2>1 DEF StreamBody
<1> QED
  BY <1>1, <1>2, <1>4, <1>5 DEF Recursion

(* ... so it is what its definition says.                                   *)
LEMMA StreamUnfolds ==
  ASSUME NEW ms \in Strings(MessageType)
  PROVE  StreamOf[ms] = IF ms = None THEN None ELSE Cat(Wire(ms[1]), StreamOf[Drop(ms, 1)])
<1> DEFINE D == Strings(MessageType)
           R == Strings(Byte)
           B(f) == [x \in D |-> IF x = None THEN None ELSE Cat(Wire(x[1]), f[Drop(x, 1)])]
<1>1. PICK f \in [D -> R] : \A x \in D : f[x] = StreamBody[<<f, x>>]
  BY StreamRecursion, RecursionByMeasure
<1>2. f = B(f)
  BY <1>1 DEF StreamBody
<1>3. StreamOf = CHOOSE g : g = B(g)
  BY Zenon DEF StreamOf
<1>4. StreamOf = B(StreamOf)
  BY <1>2, <1>3, Zenon
<1> QED
  BY <1>4

LEMMA StreamOfNone == StreamOf[None] = None
BY NoneType, StreamUnfolds

LEMMA StreamOfMore ==
  ASSUME NEW m \in MessageType, NEW ms \in Strings(MessageType)
  PROVE  StreamOf[Cat(One(m), ms)] = Cat(Wire(m), StreamOf[ms])
<1>1. Cat(One(m), ms) \in Strings(MessageType)
  BY OneType, CatType
<1> QED
  BY <1>1, FirstIs, StreamUnfolds

LEMMA StreamOfType ==
  ASSUME NEW ms \in Strings(MessageType)
  PROVE  StreamOf[ms] \in Strings(Byte)
<1> DEFINE T == {x \in Strings(MessageType) : StreamOf[x] \in Strings(Byte)}
<1>1. None \in T
  BY NoneType, StreamOfNone
<1>2. ASSUME NEW m \in MessageType, NEW x \in Strings(MessageType), x \in T
      PROVE  Cat(One(m), x) \in T
  BY <1>2, OneType, CatType, StreamOfMore, WireType
<1> HIDE DEF T
<1>3. Strings(MessageType) \subseteq T
  BY <1>1, <1>2, SequenceInduction
<1> QED
  BY <1>3 DEF T

(* The bytes of two lists of messages, one after the other.                 *)
LEMMA StreamOfCat ==
  ASSUME NEW ms \in Strings(MessageType), NEW more \in Strings(MessageType)
  PROVE  StreamOf[Cat(ms, more)] = Cat(StreamOf[ms], StreamOf[more])
<1> DEFINE T == {x \in Strings(MessageType) :
                   StreamOf[Cat(x, more)] = Cat(StreamOf[x], StreamOf[more])}
<1>1. None \in T
  BY NoneType, StreamOfNone, StreamOfType, CatNone
<1>2. ASSUME NEW m \in MessageType, NEW x \in Strings(MessageType), x \in T
      PROVE  Cat(One(m), x) \in T
  <2>1. Cat(x, more) \in Strings(MessageType) /\ One(m) \in Strings(MessageType)
        /\ Cat(One(m), x) \in Strings(MessageType)
    BY OneType, CatType
  <2>2. Cat(Cat(One(m), x), more) = Cat(One(m), Cat(x, more))
    BY <2>1, CatAssociates
  <2>3. StreamOf[Cat(Cat(One(m), x), more)] = Cat(Wire(m), Cat(StreamOf[x], StreamOf[more]))
    BY <1>2, <2>1, <2>2, StreamOfMore
  <2>4. Cat(Wire(m), Cat(StreamOf[x], StreamOf[more])) = Cat(Cat(Wire(m), StreamOf[x]), StreamOf[more])
    BY WireType, StreamOfType, CatAssociates
  <2>5. StreamOf[Cat(One(m), x)] = Cat(Wire(m), StreamOf[x])
    BY StreamOfMore
  <2> QED
    BY <2>1, <2>3, <2>4, <2>5
<1> HIDE DEF T
<1>3. Strings(MessageType) \subseteq T
  BY <1>1, <1>2, SequenceInduction
<1> QED
  BY <1>3 DEF T

LEMMA StreamOfOne ==
  ASSUME NEW m \in MessageType
  PROVE  StreamOf[One(m)] = Wire(m)
<1>1. One(m) \in Strings(MessageType) /\ Cat(One(m), None) = One(m)
  BY OneType, CatNone
<1>2. StreamOf[Cat(One(m), None)] = Cat(Wire(m), None)
  BY NoneType, StreamOfNone, StreamOfMore
<1> QED
  BY <1>1, <1>2, CatNone, WireType

-----------------------------------------------------------------------------
(* A stream begins with a whole message.                                    *)
Whole(b) == Size(b) >= 4 /\ bytes_to_int32(b) \in 0 .. Size(b) - 4
End(b) == 4 + bytes_to_int32(b)
Parsed == {Parse(b) : b \in Strings(Byte)}

(* It is a part of the stream; what follows it is shorter.                  *)
LEMMA WholeIsPart ==
  ASSUME NEW b \in Strings(Byte), Whole(b)
  PROVE  /\ End(b) \in Nat /\ 4 <= End(b) /\ End(b) <= Size(b)
         /\ Take(b, End(b)) \in Strings(Byte)
         /\ Drop(b, End(b)) \in Strings(Byte)
         /\ Size(Drop(b, End(b))) < Size(b)
<1>1. Size(b) \in Nat
  BY SizeIsNat
<1>2. End(b) \in Nat /\ 4 <= End(b) /\ End(b) <= Size(b)
  BY <1>1 DEF Whole, End
<1>3. Drop(b, End(b)) \in Strings(Byte) /\ Size(Drop(b, End(b))) = Size(b) - End(b)
  BY <1>2, DropType
<1>4. Take(b, End(b)) \in Strings(Byte)
  BY <1>2, TakeType
<1>5. Size(Drop(b, End(b))) < Size(b)
  BY <1>1, <1>2, <1>3
<1> QED
  BY <1>2, <1>3, <1>4, <1>5

MessagesBody ==
  [fb \in [Strings(Byte) -> Strings(Parsed)] \X Strings(Byte) |->
     IF Whole(fb[2])
     THEN Cat(One(Parse(Take(fb[2], End(fb[2])))), fb[1][Drop(fb[2], End(fb[2]))])
     ELSE None]

(* MessagesIn calls itself on what follows a whole message only ...         *)
LEMMA MessagesRecursion ==
  Recursion(Strings(Byte), Strings(Parsed), Sizes(Byte), MessagesBody)
<1> DEFINE D == Strings(Byte)
           R == Strings(Parsed)
<1>1. None \in R
  BY NoneType
<1>2. Sizes(Byte) \in [D -> Nat]
  BY SizeIsNat DEF Sizes
<1>3. ASSUME NEW b \in D, Whole(b)
      PROVE  /\ Drop(b, End(b)) \in D /\ Sizes(Byte)[Drop(b, End(b))] < Sizes(Byte)[b]
             /\ One(Parse(Take(b, End(b)))) \in R
  <2>1. Drop(b, End(b)) \in D /\ Sizes(Byte)[Drop(b, End(b))] < Sizes(Byte)[b]
    BY <1>3, WholeIsPart DEF Sizes
  <2>2. Parse(Take(b, End(b))) \in Parsed
    BY <1>3, WholeIsPart DEF Parsed
  <2> QED
    BY <2>1, <2>2, OneType
<1>4. MessagesBody \in [[D -> R] \X D -> R]
  <2>1. ASSUME NEW f \in [D -> R], NEW b \in D
        PROVE  (IF Whole(b) THEN Cat(One(Parse(Take(b, End(b)))), f[Drop(b, End(b))]) ELSE None)
                 \in R
    <3>1. CASE ~Whole(b)
      BY <1>1, <3>1
    <3>2. CASE Whole(b)
      <4>1. One(Parse(Take(b, End(b)))) \in R /\ f[Drop(b, End(b))] \in R
        BY <1>3, <3>2
      <4> QED
        BY <3>2, <4>1, CatType
    <3> QED
      BY <3>1, <3>2
  <2> HIDE DEF D, R
  <2> QED
    BY <2>1 DEF MessagesBody, D, R
<1>5. CallsSmaller(D, R, Sizes(Byte), MessagesBody)
  <2> SUFFICES ASSUME NEW f \in [D -> R], NEW g \in [D -> R], NEW d \in D,
                      \A e \in D : Sizes(Byte)[e] < Sizes(Byte)[d] => f[e] = g[e]
               PROVE  MessagesBody[<<f, d>>] = MessagesBody[<<g, d>>]
    BY DEF CallsSmaller
  <2>1. Whole(d) => f[Drop(d, End(d))] = g[Drop(d, End(d))]
    BY <1>3
  <2> QED
    BY <2>1 DEF MessagesBody
<1> QED
  BY <1>1, <1>2, <1>4, <1>5 DEF Recursion

(* ... so it is what its definition says.                                   *)
LEMMA MessagesInUnfolds ==
  ASSUME NEW b \in Strings(Byte)
  PROVE  MessagesIn[b] = IF Whole(b)
                         THEN Cat(One(Parse(Take(b, End(b)))), MessagesIn[Drop(b, End(b))])
                         ELSE None
<1> DEFINE D == Strings(Byte)
           R == Strings(Parsed)
           B(f) == [x \in D |-> IF Whole(x)
                                THEN Cat(One(Parse(Take(x, End(x)))), f[Drop(x, End(x))])
                                ELSE None]
           C(f) == [bytes \in Seq(Byte) |->
                      IF Len(bytes) < 4 \/ bytes_to_int32(bytes) \notin 0 .. Len(bytes) - 4
                      THEN <<>>
                      ELSE LET size == 4 + bytes_to_int32(bytes)
                           IN <<Parse(SubSeq(bytes, 1, size))>> \o f[Rest(bytes, size)]]
<1>1. PICK f \in [D -> R] : \A x \in D : f[x] = MessagesBody[<<f, x>>]
  BY MessagesRecursion, RecursionByMeasure
<1>2. f = B(f)
  BY <1>1 DEF MessagesBody
<1>3. MessagesIn = CHOOSE g : g = C(g)
  BY Zenon DEF MessagesIn
<1>4. ASSUME NEW g
      PROVE  C(g) = B(g)
  <2>1. D = Seq(Byte)
    BY DEF Strings
  <2>2. ASSUME NEW x \in D
        PROVE  (Len(x) < 4 \/ bytes_to_int32(x) \notin 0 .. Len(x) - 4) <=> ~Whole(x)
    <3>1. Size(x) \in Nat /\ Size(x) = Len(x)
      BY SizeIsNat DEF Size
    <3> QED
      BY <3>1 DEF Whole
  <2>3. ASSUME NEW x \in D
        PROVE  B(g)[x] = C(g)[x]
    BY <2>1, <2>2, Zenon DEF Cat, One, None, Take, Drop, Rest, End
  <2> QED
    BY <2>1, <2>3
<1>5. f = C(f)
  <2> HIDE DEF B, C
  <2> QED
    BY <1>2, <1>4, Zenon
<1>6. MessagesIn = C(MessagesIn)
  BY <1>3, <1>5, Zenon
<1>7. MessagesIn = B(MessagesIn)
  <2> HIDE DEF B, C
  <2> QED
    BY <1>4, <1>6, Zenon
<1> QED
  BY <1>7

LEMMA MessagesInNone == MessagesIn[None] = None
<1>1. ~Whole(None)
  BY NoneType DEF Whole
<1> QED
  BY <1>1, NoneType, MessagesInUnfolds

FramedMessages == {m \in MessageType : Framed(m)}

(* A message in front is the first that is found.                           *)
LEMMA MessagesInMore ==
  ASSUME NEW m \in FramedMessages, NEW w \in Strings(Byte)
  PROVE  MessagesIn[Cat(Wire(m), w)] = Cat(One(m), MessagesIn[w])
<1> DEFINE b == Cat(Wire(m), w)
<1>1. m \in MessageType /\ Framed(m)
  BY DEF FramedMessages
<1>2. /\ Wire(m) \in Strings(Byte) /\ Size(Wire(m)) >= 4
      /\ bytes_to_int32(Wire(m)) = m.message_length
      /\ Size(Wire(m)) = 4 + m.message_length
      /\ m.message_length \in Nat
      /\ Parse(Wire(m)) = m
  BY <1>1, WireType, FramedWire
<1>3. b \in Strings(Byte) /\ Size(b) = Size(Wire(m)) + Size(w) /\ Size(w) \in Nat
  BY <1>2, CatType, SizeIsNat
<1>4. bytes_to_int32(b) = m.message_length
  BY <1>2, LengthInFront
<1>5. End(b) = Size(Wire(m))
  BY <1>2, <1>4 DEF End
<1>6. Take(b, End(b)) = Wire(m) /\ Drop(b, End(b)) = w
  BY <1>2, <1>5, TakeCat, DropCat
<1> HIDE DEF b
<1>7. Whole(b)
  BY <1>2, <1>3, <1>4 DEF Whole
<1>8. MessagesIn[b] = Cat(One(m), MessagesIn[w])
  BY <1>2, <1>3, <1>6, <1>7, MessagesInUnfolds
<1> QED
  BY <1>8 DEF b

(* In a part of a message none is found.                                    *)
LEMMA MessagesInPart ==
  ASSUME NEW m \in FramedMessages, NEW p \in Strings(Byte), NEW q \in Strings(Byte),
         Wire(m) = Cat(p, q), q # None
  PROVE  MessagesIn[p] = None
<1>1. m \in MessageType /\ Framed(m)
  BY DEF FramedMessages
<1>2. /\ bytes_to_int32(Wire(m)) = m.message_length
      /\ Size(Wire(m)) = 4 + m.message_length
      /\ m.message_length \in Nat
  BY <1>1, FramedWire
<1>3. Size(p) \in Nat /\ Size(q) \in Nat /\ Size(q) # 0
  BY SizeIsNat, NoneSize
<1>4. Size(p) + Size(q) = 4 + m.message_length
  BY <1>2, CatType
<1>5. Size(p) >= 4 => bytes_to_int32(p) = m.message_length
  BY <1>2, LengthInFront
<1>6. ~Whole(p)
  BY <1>2, <1>3, <1>4, <1>5 DEF Whole
<1> QED
  BY <1>6, MessagesInUnfolds

(* In a list of messages with no whole one behind them they are all found.  *)
LEMMA MessagesInStream ==
  ASSUME NEW ms \in Strings(FramedMessages), NEW w \in Strings(Byte), MessagesIn[w] = None
  PROVE  MessagesIn[Cat(StreamOf[ms], w)] = ms
<1> DEFINE T == {x \in Strings(FramedMessages) : MessagesIn[Cat(StreamOf[x], w)] = x}
<1>1. None \in T
  BY NoneType, StreamOfNone, CatNone
<1>2. ASSUME NEW m \in FramedMessages, NEW x \in Strings(FramedMessages), x \in T
      PROVE  Cat(One(m), x) \in T
  <2>1. m \in MessageType /\ x \in Strings(MessageType)
    BY SubStrings DEF FramedMessages
  <2>2. StreamOf[Cat(One(m), x)] = Cat(Wire(m), StreamOf[x])
    BY <2>1, StreamOfMore
  <2>3. StreamOf[x] \in Strings(Byte) /\ Wire(m) \in Strings(Byte)
    BY <2>1, StreamOfType, WireType
  <2>4. Cat(StreamOf[x], w) \in Strings(Byte)
    BY <2>3, CatType
  <2>5. Cat(StreamOf[Cat(One(m), x)], w) = Cat(Wire(m), Cat(StreamOf[x], w))
    <3>1. Cat(Cat(Wire(m), StreamOf[x]), w) = Cat(Wire(m), Cat(StreamOf[x], w))
      BY <2>3, CatAssociates
    <3> QED
      BY <2>2, <3>1
  <2>6. MessagesIn[Cat(StreamOf[Cat(One(m), x)], w)] = Cat(One(m), x)
    BY <1>2, <2>4, <2>5, MessagesInMore
  <2>7. Cat(One(m), x) \in Strings(FramedMessages)
    BY OneType, CatType
  <2> QED
    BY <2>6, <2>7
<1> HIDE DEF T
<1>3. Strings(FramedMessages) \subseteq T
  BY <1>1, <1>2, SequenceInduction
<1> QED
  BY <1>3 DEF T

-----------------------------------------------------------------------------
Handed == Requests \cup {InitMessage(kInterested, <<>>)}

(* Where the calls of a phase are, and what they know.                      *)
PhaseInv ==
  /\ pc \in {"send", "sending", "blocked"} => phase \in {"handshake", "interested", "loop"}
  /\ pc = "poll" => phase \in {"bitfield", "loop"}
  /\ pc \in {"exact", "recv"} => phase \in {"reply", "bitfield", "loop"}
  /\ pc \in {"exact", "recv"} /\ phase = "reply" => wanted = HandshakeSize /\ header = None
  /\ header # None =>
       Size(header) = 4 /\ wanted = bytes_to_int32(header) /\ ~TooLarge(wanted)

(* The peer's handshake, while it has not been read.                        *)
Greeting == IF phase \in {"handshake", "reply"} THEN Handshake ELSE None

(* What has been read of a message, what can be read and what is lost with  *)
(* the connection are together the messages that have not been delivered.   *)
FromInv ==
  /\ peer_sent \in Strings(PeerMessages)
  /\ received \in Strings(Strings(Byte))
  /\ Size(received) <= Size(peer_sent)
  /\ \E lost \in Strings(Byte) :
       /\ peer_open => lost = None
       /\ Cat(Cat(header, buffer), Cat(inbound, lost))
            = Cat(Greeting, StreamOf[Drop(peer_sent, Size(received))])

(* What is still to be sent is the end of the last message.                 *)
LastIsUnsent ==
  \E ms \in Strings(Handed) : \E m \in Handed :
    handed = Cat(ms, One(m)) /\ Size(unsent) <= Size(Wire(m))

(* What the peer has been sent, with what SendData still has, is the        *)
(* handshake and the messages that were handed over.                        *)
ToInv ==
  /\ handed \in Strings(Handed)
  /\ phase = "handshake" => handed = None
  /\ pc \in {"call", "poll", "exact", "recv"} /\ phase # "handshake" => unsent = None
  /\ peer_open /\ phase = "handshake" /\ pc = "call" => outbound = None
  /\ peer_open /\ phase = "handshake" /\ pc # "call" => Cat(outbound, unsent) = Handshake
  /\ peer_open /\ phase # "handshake" =>
       /\ Cat(outbound, unsent) = Cat(Handshake, StreamOf[handed])
       /\ unsent # None => LastIsUnsent

LinkInv == Up => PhaseInv /\ FromInv /\ ToInv

-----------------------------------------------------------------------------
(* What the invariants are about.                                           *)
LEMMA HandshakeType == Handshake \in Strings(Byte) /\ Size(Handshake) = HandshakeSize
<1>1. Len(Handshake) = HandshakeSize
  BY TcpAssumption DEF TcpAssumption, Handshake
<1> QED
  BY <1>1, HandshakeIsBytes DEF Strings, Size

LEMMA MessagesAreMessages ==
  /\ PeerMessages \subseteq MessageType
  /\ Handed \subseteq MessageType
  /\ Handed \subseteq FramedMessages
<1>1. Handed \subseteq MessageType /\ PeerMessages \subseteq MessageType
  BY InterestedIsMessage, TcpAssumption DEF TcpAssumption, Handed
<1>2. Framed(InitMessage(kInterested, <<>>))
  <2>1. Len(<<>>) + 1 = 1
    OBVIOUS
  <2> QED
    BY <2>1, SMT DEF Framed, InitMessage, MaxInt32
<1>3. \A m \in Handed : Framed(m)
  BY <1>2, FramingAssumption DEF FramingAssumption, Handed
<1> QED
  BY <1>1, <1>3 DEF FramedMessages

LEMMA LocalTypes ==
  ASSUME BufferInv
  PROVE  /\ unsent \in Strings(Byte) /\ buffer \in Strings(Byte) /\ header \in Strings(Byte)
         /\ inbound \in Strings(Byte) /\ outbound \in Strings(Byte)
BY DEF BufferInv, StreamType, Strings

-----------------------------------------------------------------------------
(* A stream that begins with as many bytes as its first four say begins     *)
(* with a message: the first that has not been delivered.                   *)
LEMMA NextMessage ==
  ASSUME NEW ms \in Strings(PeerMessages), NEW b \in Strings(Byte), NEW r \in Strings(Byte),
         Cat(b, r) = StreamOf[ms], Size(b) >= 4, Size(b) = End(b),
         ~TooLarge(bytes_to_int32(b))
  PROVE  \E m \in PeerMessages : \E more \in Strings(PeerMessages) :
           ms = Cat(One(m), more) /\ r = StreamOf[more] /\ Parse(b) = m
<1>1. Size(b) \in Nat /\ Size(r) \in Nat /\ Size(Cat(b, r)) = Size(b) + Size(r)
  BY SizeIsNat, CatType
<1>2. ms # None
  BY <1>1, StreamOfNone, NoneType
<1>3. PICK m \in PeerMessages, more \in Strings(PeerMessages) : ms = Cat(One(m), more)
  BY <1>2, FirstOf
<1>4. m \in MessageType /\ more \in Strings(MessageType)
  BY MessagesAreMessages, SubStrings
<1>5. Cat(b, r) = Cat(Wire(m), StreamOf[more])
  BY <1>3, <1>4, StreamOfMore
<1>6. Wire(m) \in Strings(Byte) /\ Size(Wire(m)) >= 4 /\ StreamOf[more] \in Strings(Byte)
      /\ bytes_to_int32(Wire(m)) = bytes_to_int32(Lengthy(m))
  BY <1>4, WireType, StreamOfType
<1>7. bytes_to_int32(b) = bytes_to_int32(Wire(m))
  BY <1>5, <1>6, LengthInFront
<1>8. ~Refused(m)
  BY <1>6, <1>7 DEF Refused, Lengthy
<1>9. Size(Wire(m)) = End(Wire(m)) /\ Parse(Wire(m)) = m
  <2>1. CASE m = KeepAlive
    BY <2>1, KeepAliveWire DEF End
  <2>2. CASE Framed(m)
    BY <1>4, <2>2, FramedWire DEF End
  <2> QED
    BY <1>8, <2>1, <2>2, FramingAssumption DEF FramingAssumption
<1>10. Size(b) = Size(Wire(m))
  BY <1>7, <1>9 DEF End
<1>11. b = Wire(m) /\ r = StreamOf[more]
  BY <1>5, <1>6, <1>10, SameParts
<1> QED
  BY <1>3, <1>9, <1>11

(* What the peer can read of what it has been sent.                         *)
LEMMA DecodesToHanded ==
  ASSUME NEW ms \in Strings(Handed), NEW out \in Strings(Byte),
         out = Cat(Handshake, StreamOf[ms])
  PROVE  MessagesIn[Drop(out, HandshakeSize)] = ms
<1>1. ms \in Strings(MessageType) /\ ms \in Strings(FramedMessages)
  BY MessagesAreMessages, SubStrings
<1>2. StreamOf[ms] \in Strings(Byte) /\ Cat(StreamOf[ms], None) = StreamOf[ms]
  BY <1>1, StreamOfType, CatNone
<1>3. Drop(out, HandshakeSize) = StreamOf[ms]
  BY <1>2, HandshakeType, DropCat
<1>4. MessagesIn[Cat(StreamOf[ms], None)] = ms
  BY <1>1, NoneType, MessagesInNone, MessagesInStream
<1> QED
  BY <1>2, <1>3, <1>4

LEMMA DecodesToFront ==
  ASSUME NEW ms \in Strings(Handed), NEW m \in Handed,
         NEW out \in Strings(Byte), NEW left \in Strings(Byte), left # None,
         Cat(out, left) = Cat(Handshake, StreamOf[Cat(ms, One(m))]),
         Size(left) <= Size(Wire(m))
  PROVE  MessagesIn[Drop(out, HandshakeSize)] = ms
<1> DEFINE h == Cat(Handshake, StreamOf[ms])
<1>1. ms \in Strings(MessageType) /\ ms \in Strings(FramedMessages)
      /\ m \in MessageType /\ m \in FramedMessages
  BY MessagesAreMessages, SubStrings
<1>2. StreamOf[ms] \in Strings(Byte) /\ Wire(m) \in Strings(Byte) /\ Handshake \in Strings(Byte)
  BY <1>1, StreamOfType, WireType, HandshakeType
<1>3. StreamOf[Cat(ms, One(m))] = Cat(StreamOf[ms], Wire(m))
  BY <1>1, OneType, StreamOfCat, StreamOfOne
<1>4. Cat(out, left) = Cat(h, Wire(m)) /\ h \in Strings(Byte)
  <2>1. Cat(Cat(Handshake, StreamOf[ms]), Wire(m)) = Cat(Handshake, Cat(StreamOf[ms], Wire(m)))
    BY <1>2, CatAssociates
  <2>2. h \in Strings(Byte)
    BY <1>2, CatType
  <2> QED
    BY <1>3, <2>1, <2>2
<1> HIDE DEF h
<1>5. Size(h) <= Size(out)
  <2>1. Size(out) + Size(left) = Size(h) + Size(Wire(m))
    BY <1>2, <1>4, CatType
  <2>2. Size(out) \in Nat /\ Size(left) \in Nat /\ Size(h) \in Nat /\ Size(Wire(m)) \in Nat
    BY <1>2, <1>4, SizeIsNat
  <2> QED
    BY <2>1, <2>2
<1>6. PICK p \in Strings(Byte) : out = Cat(h, p) /\ Wire(m) = Cat(p, left)
  BY <1>2, <1>4, <1>5, CutLater
<1>7. MessagesIn[p] = None
  BY <1>1, <1>6, MessagesInPart
<1>8. Cat(h, p) = Cat(Handshake, Cat(StreamOf[ms], p)) /\ Cat(StreamOf[ms], p) \in Strings(Byte)
  <2>1. Cat(Cat(Handshake, StreamOf[ms]), p) = Cat(Handshake, Cat(StreamOf[ms], p))
    BY <1>2, CatAssociates
  <2>2. Cat(StreamOf[ms], p) \in Strings(Byte)
    BY <1>2, CatType
  <2> QED
    BY <2>1, <2>2 DEF h
<1>9. Drop(out, HandshakeSize) = Cat(StreamOf[ms], p)
  BY <1>2, <1>6, <1>8, HandshakeType, DropCat
<1> QED
  BY <1>1, <1>7, <1>9, MessagesInStream

-----------------------------------------------------------------------------
(* What the peer can make of the bytes it has been sent.                    *)
Arrived == MessagesIn[Rest(outbound, HandshakeSize)]

(* What a step may do to the messages of a connection in use: nothing, one  *)
(* more is sent, or the next one is delivered.                              *)
FromStep ==
  \/ UNCHANGED <<peer_sent, received>>
  \/ \E m \in PeerMessages : peer_sent' = Append(peer_sent, m) /\ UNCHANGED received
  \/ /\ UNCHANGED peer_sent
     /\ Len(received) < Len(peer_sent)
     /\ \E b \in Strings(Byte) :
          received' = Append(received, b) /\ Parse(b) = peer_sent[Len(received) + 1]

ToStep ==
  \/ UNCHANGED <<handed, Arrived>>
  \/ \E m \in Handed : handed' = Append(handed, m) /\ UNCHANGED Arrived
  \/ /\ UNCHANGED handed
     /\ Len(Arrived) < Len(handed)
     /\ Arrived' = Append(Arrived, handed[Len(Arrived) + 1])

Invs == PhaseInv /\ FromInv /\ ToInv
StepsWell == Invs' /\ FromStep /\ ToStep

(* A connection in use has its own socket, or none: nobody has begun to     *)
(* stop it.                                                                 *)
LEMMA UpIsOurs ==
  ASSUME DescriptorInv, Up
  PROVE  stop_at = "no" /\ ~Others
BY DEF DescriptorInv, StopKeepsOut, NumberIsOurs, InBetween, Up, Others, Calling

LEMMA AfterIs ==
  /\ After["handshake"] = "reply" /\ After["reply"] = "bitfield"
  /\ After["bitfield"] = "interested" /\ After["interested"] = "loop"
  /\ After["loop"] = "loop"
BY DEF After

(* Steps that leave a stream alone.                                         *)
LEMMA FromSame ==
  ASSUME FromInv, UNCHANGED <<header, buffer, inbound, peer_open, peer_sent, received>>,
         Greeting' = Greeting
  PROVE  FromInv' /\ FromStep
BY DEF FromInv, FromStep

LEMMA ToSame ==
  ASSUME ToInv, UNCHANGED <<unsent, outbound, handed, peer_open, phase>>,
         phase = "handshake" => (pc = "call" <=> pc' = "call"),
         pc' \in {"call", "poll", "exact", "recv"} => pc \in {"call", "poll", "exact", "recv"}
  PROVE  ToInv' /\ ToStep
BY DEF ToInv, ToStep, LastIsUnsent, Arrived

(* Steps of a call that has to wait, and of everybody else.                 *)
LEMMA QuietStep ==
  ASSUME Invs,
         UNCHANGED <<locals, phase, peer_open, incoming, outgoing>>,
         \/ pc' = pc
         \/ pc = "send" /\ pc' = "sending"
         \/ pc = "sending" /\ pc' = "blocked"
         \/ pc = "exact" /\ pc' = "recv"
         \/ pc = "call" /\ pc' = "poll" /\ phase \in {"bitfield", "loop"}
  PROVE  StepsWell
<1> USE DEF locals, incoming, outgoing, Invs
<1>1. PhaseInv'
  BY DEF PhaseInv
<1>2. FromInv' /\ FromStep
  BY FromSame DEF Greeting
<1>3. phase = "handshake" => (pc = "call" <=> pc' = "call")
  BY DEF PhaseInv
<1>4. ToInv' /\ ToStep
  BY <1>3, ToSame
<1> QED
  BY <1>1, <1>2, <1>4 DEF StepsWell

(* The steps of the calls, one by one: SendData ...                         *)
LEMMA HandshakeBegins ==
  ASSUME BufferInv, Invs, PerformHandshake, Up'
  PROVE  StepsWell
<1>1. /\ pc = "call" /\ phase = "handshake" /\ pc' = "send" /\ phase' = phase
      /\ unsent' = Handshake
      /\ UNCHANGED <<wanted, buffer, header, link>>
  BY DEF PerformHandshake, Up, Calling, Throw, GiveUp, Unsent
<1>2. PhaseInv'
  BY <1>1 DEF PhaseInv, Invs
<1>3. FromInv' /\ FromStep
  BY <1>1, FromSame DEF Greeting, Invs, link, incoming, peer
<1>4. Cat(None, Handshake) = Handshake
  BY HandshakeType, CatNone
<1>5. ToInv' /\ ToStep
  BY <1>1, <1>4 DEF Invs, ToInv, ToStep, link, peer, outgoing, Arrived
<1> QED
  BY <1>2, <1>3, <1>5 DEF StepsWell, Invs

LEMMA MessageBegins ==
  ASSUME BufferInv, Invs, NEW m \in Handed, SendMessage(m), Up'
  PROVE  StepsWell
<1>1. /\ pc = "call" /\ phase \in {"interested", "loop"} /\ pc' = "send" /\ phase' = phase
      /\ unsent' = ToString(m) /\ handed' = Append(handed, m)
      /\ UNCHANGED <<wanted, buffer, header, peer, incoming, outbound>>
  BY DEF SendMessage, Up, Calling, Throw, GiveUp, Unsent
<1>2. PhaseInv'
  BY <1>1 DEF PhaseInv, Invs
<1>3. FromInv' /\ FromStep
  BY <1>1, FromSame DEF Greeting, Invs, incoming, peer
<1>4. m \in MessageType /\ Framed(m) /\ Wire(m) = ToString(m)
  BY MessagesAreMessages, FramedWire DEF FramedMessages
<1>5. handed \in Strings(Handed) /\ handed' = Cat(handed, One(m)) /\ One(m) \in Strings(Handed)
  <2>1. handed \in Strings(Handed)
    BY DEF Invs, ToInv
  <2>2. Append(handed, m) = handed \o <<m>>
    BY <2>1 DEF Strings
  <2> QED
    BY <1>1, <2>1, <2>2, OneType DEF Cat, One
<1>6. handed' \in Strings(Handed) /\ handed \in Strings(MessageType) /\ One(m) \in Strings(MessageType)
  BY <1>5, CatType, SubStrings, MessagesAreMessages
<1>7. StreamOf[handed'] = Cat(StreamOf[handed], Wire(m))
  BY <1>4, <1>5, <1>6, StreamOfCat, StreamOfOne
<1>8. ASSUME peer_open
      PROVE  Cat(outbound, Wire(m)) = Cat(Handshake, StreamOf[handed'])
  <2>1. unsent = None /\ Cat(outbound, unsent) = Cat(Handshake, StreamOf[handed])
    BY <1>1, <1>8 DEF Invs, ToInv
  <2>2. outbound = Cat(Handshake, StreamOf[handed])
    BY <2>1, LocalTypes, CatNone
  <2>3. StreamOf[handed] \in Strings(Byte) /\ Wire(m) \in Strings(Byte)
    BY <1>4, <1>6, StreamOfType, WireType
  <2> QED
    BY <1>7, <2>2, <2>3, HandshakeType, CatAssociates
<1>9. LastIsUnsent'
  <2>1. Size(unsent') <= Size(Wire(m))
    <3>1. Size(Wire(m)) \in Nat
      BY <1>4, WireType, SizeIsNat
    <3> QED
      BY <1>1, <1>4, <3>1
  <2> QED
    BY <1>5, <2>1 DEF LastIsUnsent
<1>10. ToInv'
  BY <1>1, <1>4, <1>6, <1>8, <1>9 DEF ToInv, peer
<1>11. ToStep
  BY <1>1 DEF ToStep, Arrived
<1> QED
  BY <1>2, <1>3, <1>10, <1>11 DEF StepsWell, Invs

LEMMA ReplyBegins ==
  ASSUME BufferInv, Invs, ReceiveHandshake, Up'
  PROVE  StepsWell
<1>1. /\ pc = "call" /\ phase = "reply" /\ pc' = "exact" /\ phase' = phase
      /\ wanted' = HandshakeSize
      /\ UNCHANGED <<unsent, buffer, header, link>>
  BY DEF ReceiveHandshake, Up, Calling, Throw, GiveUp, BeginReceive
<1>2. header = None
  BY <1>1 DEF BufferInv, Locals, None
<1>3. PhaseInv'
  BY <1>1, <1>2 DEF PhaseInv, Invs
<1>4. FromInv' /\ FromStep
  BY <1>1, FromSame DEF Greeting, Invs, link, incoming, peer
<1>5. ToInv' /\ ToStep
  BY <1>1, ToSame DEF Invs, link, peer, outgoing
<1> QED
  BY <1>3, <1>4, <1>5 DEF StepsWell, Invs

LEMMA SendReturns ==
  ASSUME BufferInv, Invs, SendLoop, Up', unsent = None
  PROVE  StepsWell
<1>1. /\ pc = "send" /\ pc' = "call" /\ phase' = After[phase]
      /\ unsent' = None /\ wanted' = 0 /\ buffer' = None /\ header' = None
      /\ UNCHANGED link
  BY DEF SendLoop, Return, ClearLocals, None
<1>2. buffer = None /\ header = None
  BY <1>1 DEF BufferInv, Locals, None
<1>3. \/ phase = "handshake" /\ phase' = "reply"
      \/ phase = "interested" /\ phase' = "loop"
      \/ phase = "loop" /\ phase' = "loop"
  BY <1>1, AfterIs DEF PhaseInv, Invs
<1>4. PhaseInv'
  BY <1>1 DEF PhaseInv
<1>5. FromInv' /\ FromStep
  BY <1>1, <1>2, <1>3, FromSame DEF Greeting, Invs, link, incoming, peer
<1>6. ToInv'
  <2>1. Cat(Handshake, StreamOf[None]) = Handshake
    BY StreamOfNone, HandshakeType, CatNone
  <2> QED
    BY <1>1, <1>3, <2>1 DEF ToInv, Invs, link, peer, outgoing
<1>7. ToStep
  BY <1>1 DEF ToStep, link, outgoing, Arrived
<1> QED
  BY <1>4, <1>5, <1>6, <1>7 DEF StepsWell, Invs

(* ... and ReceiveData, of which PollTimesOut leaves between two messages.  *)
LEMMA PollReturns ==
  ASSUME BufferInv, Invs, PollTimesOut, Up'
  PROVE  StepsWell
<1>1. /\ pc = "poll" /\ pc' = "call" /\ phase' = After[phase]
      /\ unsent' = None /\ wanted' = 0 /\ buffer' = None /\ header' = None
      /\ UNCHANGED link
  BY DEF PollTimesOut, Return, ClearLocals, None, Up, Calling, Throw, GiveUp
<1>2. buffer = None /\ header = None
  BY <1>1 DEF BufferInv, Locals, None
<1>3. \/ phase = "bitfield" /\ phase' = "interested"
      \/ phase = "loop" /\ phase' = "loop"
  BY <1>1, AfterIs DEF PhaseInv, Invs
<1>4. PhaseInv'
  BY <1>1 DEF PhaseInv
<1>5. FromInv' /\ FromStep
  BY <1>1, <1>2, <1>3, FromSame DEF Greeting, Invs, link, incoming, peer
<1>6. unsent = None
  BY <1>1, <1>3 DEF ToInv, Invs
<1>7. ToInv'
  BY <1>1, <1>3, <1>6 DEF ToInv, Invs, link, peer, outgoing
<1>8. ToStep
  BY <1>1 DEF ToStep, link, outgoing, Arrived
<1> QED
  BY <1>4, <1>5, <1>7, <1>8 DEF StepsWell, Invs

LEMMA HeaderBegins ==
  ASSUME BufferInv, Invs, PollHeader, Up'
  PROVE  StepsWell
<1>1. /\ pc = "poll" /\ pc' = "exact" /\ phase' = phase /\ wanted' = 4
      /\ UNCHANGED <<unsent, buffer, header, link>>
  BY DEF PollHeader, BeginReceive, Up, Calling, Throw, GiveUp
<1>2. header = None /\ phase \in {"bitfield", "loop"}
  BY <1>1 DEF BufferInv, Locals, None, Invs, PhaseInv
<1>3. PhaseInv'
  BY <1>1, <1>2 DEF PhaseInv
<1>4. FromInv' /\ FromStep
  BY <1>1, FromSame DEF Greeting, Invs, link, incoming, peer
<1>5. ToInv' /\ ToStep
  BY <1>1, <1>2, ToSame DEF Invs, link, peer, outgoing
<1> QED
  BY <1>3, <1>4, <1>5 DEF StepsWell, Invs

(* What is sent to nobody is not in the stream any more.                    *)
LEMMA NobodyStep ==
  ASSUME BufferInv, DescriptorInv, Invs, SendToNobody, Up, Up'
  PROVE  StepsWell
<1>1. ~Others
  BY UpIsOurs
<1>2. /\ pc = "sending" /\ pc' = "send" /\ phase' = phase /\ ~peer_open
      /\ UNCHANGED <<wanted, buffer, header, link>>
  BY <1>1 DEF SendToNobody, Unsent, Up, Calling, Throw, GiveUp
<1>3. PhaseInv'
  BY <1>2 DEF PhaseInv, Invs
<1>4. FromInv' /\ FromStep
  BY <1>2, FromSame DEF Greeting, Invs, link, incoming, peer
<1>5. ToInv' /\ ToStep
  BY <1>2 DEF Invs, ToInv, ToStep, link, peer, outgoing, Arrived
<1> QED
  BY <1>3, <1>4, <1>5 DEF StepsWell, Invs

-----------------------------------------------------------------------------
(* What remains of the invariant of one stream when nothing but the calls'  *)
(* own locals change.                                                       *)
LEMMA ReadingKeepsTo ==
  ASSUME ToInv, UNCHANGED <<unsent, peer_open, outgoing>>,
         pc \in {"exact", "recv"}, pc' \in {"call", "exact", "recv"},
         phase \in {"reply", "bitfield", "loop"}, phase' # "handshake"
  PROVE  ToInv' /\ ToStep
BY DEF ToInv, ToStep, LastIsUnsent, Arrived, outgoing

(* The bytes send() takes go from one end of the stream to the other.  With *)
(* the last of them the message has arrived.                                *)
LEMMA SendMoves ==
  ASSUME BufferInv, Invs, SendSome, Up'
  PROVE  StepsWell
<1>1. PICK n \in Moved(Len(unsent)) :
        /\ outbound' = outbound \o SubSeq(unsent, 1, n)
        /\ unsent' = Rest(unsent, n)
  BY DEF SendSome, Unsent
<1>2. /\ pc = "sending" /\ pc' = "send" /\ phase' = phase /\ peer_open
      /\ UNCHANGED <<wanted, buffer, header, peer, incoming, handed>>
  BY DEF SendSome, Unsent
<1>3. unsent \in Strings(Byte) /\ outbound \in Strings(Byte)
  BY LocalTypes
<1>4. n \in Nat /\ n <= Size(unsent)
  <2>1. Size(unsent) \in Nat
    BY <1>3, SizeIsNat
  <2>2. n \in 0 .. Size(unsent)
    BY <2>1, MovedIsPart DEF Size
  <2> QED
    BY <2>1, <2>2
<1>5. PICK p \in Strings(Byte), r \in Strings(Byte) :
        /\ unsent = Cat(p, r)
        /\ outbound' = Cat(outbound, p) /\ unsent' = r
        /\ Size(r) <= Size(unsent)
  <2>1. Take(unsent, n) \in Strings(Byte) /\ Drop(unsent, n) \in Strings(Byte)
        /\ unsent = Cat(Take(unsent, n), Drop(unsent, n))
        /\ Size(Drop(unsent, n)) = Size(unsent) - n
    BY <1>3, <1>4, TakeType, DropType, TakeAndDrop
  <2>2. outbound' = Cat(outbound, Take(unsent, n)) /\ unsent' = Drop(unsent, n)
    BY <1>1 DEF Cat, Take, Drop, Rest
  <2>3. Size(Drop(unsent, n)) <= Size(unsent)
    BY <1>3, <1>4, <2>1, SizeIsNat
  <2> QED
    BY <2>1, <2>2, <2>3
<1>6. outbound' \in Strings(Byte) /\ Cat(outbound', unsent') = Cat(outbound, unsent)
  <2>1. Cat(Cat(outbound, p), r) = Cat(outbound, Cat(p, r))
    BY <1>3, CatAssociates
  <2> QED
    BY <1>3, <1>5, <2>1, CatType
<1>7. unsent = None => unsent' = None
  <2>1. ASSUME unsent = None
        PROVE  unsent' = None
    <3>1. Size(r) \in Nat /\ Size(r) <= 0
      BY <1>5, <2>1, NoneType, SizeIsNat
    <3> QED
      BY <1>5, <3>1, NoneSize
  <2> QED
    BY <2>1
<1>8. PhaseInv'
  BY <1>2 DEF PhaseInv, Invs
<1>9. FromInv' /\ FromStep
  BY <1>2, FromSame DEF Greeting, Invs, incoming, peer
<1>10. ASSUME NEW ms \in Strings(Handed), NEW m \in Handed,
              handed = Cat(ms, One(m)), Size(unsent) <= Size(Wire(m))
       PROVE  Size(unsent') <= Size(Wire(m))
  <2>1. Size(unsent') \in Nat /\ Size(unsent) \in Nat
    BY <1>3, <1>5, SizeIsNat
  <2>2. Size(Wire(m)) \in Nat
    BY MessagesAreMessages, WireType, SizeIsNat
  <2> QED
    BY <1>5, <1>10, <2>1, <2>2
<1>11. LastIsUnsent => LastIsUnsent'
  BY <1>2, <1>10 DEF LastIsUnsent
<1>12. ToInv'
  BY <1>2, <1>6, <1>7, <1>11 DEF ToInv, Invs, peer
<1>13. CASE phase = "handshake"
  <2>1. Cat(outbound, unsent) = Handshake
    BY <1>2, <1>13 DEF ToInv, Invs
  <2>2. Size(outbound) + Size(unsent) = HandshakeSize /\ Size(outbound') + Size(unsent') = HandshakeSize
    BY <1>3, <1>5, <1>6, <2>1, HandshakeType, CatType
  <2>3. Size(outbound) \in Nat /\ Size(outbound') \in Nat /\ Size(unsent) \in Nat
        /\ Size(unsent') \in Nat /\ HandshakeSize \in Nat
    BY <1>3, <1>5, <1>6, SizeIsNat, TcpAssumption DEF TcpAssumption
  <2>4. Drop(outbound, HandshakeSize) = None /\ Drop(outbound', HandshakeSize) = None
    BY <1>3, <1>6, <2>2, <2>3, DropAll
  <2>5. UNCHANGED Arrived
    BY <2>4 DEF Arrived, Rest, Drop
  <2> QED
    BY <1>2, <1>8, <1>9, <1>12, <2>5 DEF StepsWell, Invs, ToStep
<1>14. CASE phase # "handshake" /\ unsent = None
  <2>1. outbound = outbound'
    BY <1>3, <1>6, <1>7, <1>14, CatNone
  <2> QED
    BY <1>2, <1>8, <1>9, <1>12, <2>1 DEF StepsWell, Invs, ToStep, Arrived
<1>15. CASE phase # "handshake" /\ unsent # None
  <2>1. Cat(outbound, unsent) = Cat(Handshake, StreamOf[handed]) /\ LastIsUnsent
    BY <1>2, <1>15 DEF ToInv, Invs
  <2>2. PICK ms \in Strings(Handed), m \in Handed :
          handed = Cat(ms, One(m)) /\ Size(unsent) <= Size(Wire(m))
    BY <2>1 DEF LastIsUnsent
  <2>3. MessagesIn[Drop(outbound, HandshakeSize)] = ms
    BY <1>3, <1>15, <2>1, <2>2, DecodesToFront
  <2>4. Arrived = ms
    BY <2>3 DEF Arrived, Rest, Drop
  <2>5. CASE unsent' # None
    <3>1. MessagesIn[Drop(outbound', HandshakeSize)] = ms
      BY <1>5, <1>6, <1>10, <2>1, <2>2, <2>5, DecodesToFront
    <3>2. Arrived' = ms
      BY <3>1 DEF Arrived, Rest, Drop
    <3> QED
      BY <1>2, <1>8, <1>9, <1>12, <2>4, <3>2 DEF StepsWell, Invs, ToStep
  <2>6. CASE unsent' = None
    <3>1. outbound' = Cat(Handshake, StreamOf[handed])
      BY <1>6, <2>1, <2>6, CatNone
    <3>2. handed \in Strings(Handed)
      BY DEF Invs, ToInv
    <3>3. MessagesIn[Drop(outbound', HandshakeSize)] = handed
      BY <1>6, <3>1, <3>2, DecodesToHanded
    <3>4. Arrived' = handed
      BY <3>3 DEF Arrived, Rest, Drop
    <3>5. Size(handed) = Size(ms) + 1 /\ handed[Size(ms) + 1] = m /\ Size(ms) \in Nat
      BY <2>2, OneType, CatType, ElementAfter, SizeIsNat
    <3>6. handed = Append(ms, m)
      <4>1. Append(ms, m) = ms \o <<m>>
        BY DEF Strings
      <4> QED
        BY <2>2, <4>1 DEF Cat, One
    <3>7. Len(Arrived) < Len(handed) /\ Arrived' = Append(Arrived, handed[Len(Arrived) + 1])
      BY <2>4, <3>4, <3>5, <3>6 DEF Size
    <3> QED
      BY <1>2, <1>8, <1>9, <1>12, <3>7 DEF StepsWell, Invs, ToStep
  <2> QED
    BY <2>5, <2>6
<1> QED
  BY <1>13, <1>14, <1>15

-----------------------------------------------------------------------------
(* The other stream.                                                        *)
Undelivered == StreamOf[Drop(peer_sent, Size(received))]

(* What is still to be delivered, as messages and as bytes.                 *)
LEMMA UndeliveredType ==
  ASSUME FromInv
  PROVE  /\ Size(received) \in Nat /\ Size(peer_sent) \in Nat
         /\ Drop(peer_sent, Size(received)) \in Strings(PeerMessages)
         /\ Drop(peer_sent, Size(received)) \in Strings(MessageType)
         /\ Undelivered \in Strings(Byte)
<1>1. Size(received) \in Nat /\ Size(peer_sent) \in Nat
  BY SizeIsNat DEF FromInv
<1>2. Drop(peer_sent, Size(received)) \in Strings(PeerMessages)
  BY <1>1, DropType DEF FromInv
<1>3. Drop(peer_sent, Size(received)) \in Strings(MessageType)
  BY <1>2, MessagesAreMessages, SubStrings
<1>4. Undelivered \in Strings(Byte)
  BY <1>3, StreamOfType DEF Undelivered
<1> QED
  BY <1>1, <1>2, <1>3, <1>4

(* The bytes recv() returns stay in the stream.                             *)
LEMMA RecvMoves ==
  ASSUME BufferInv, Invs, RecvSome, Up'
  PROVE  StepsWell
<1>1. PICK n \in Moved(Smaller(Len(inbound), wanted - Len(buffer))) : Receive(n)
  BY DEF RecvSome
<1>2. /\ pc = "recv" /\ pc' = "exact" /\ phase' = phase
      /\ buffer' = buffer \o SubSeq(inbound, 1, n)
      /\ inbound' = Rest(inbound, n)
      /\ UNCHANGED <<unsent, wanted, header, peer, outgoing, peer_sent, received>>
  BY <1>1 DEF Receive
<1>3. buffer \in Strings(Byte) /\ inbound \in Strings(Byte) /\ header \in Strings(Byte)
  BY LocalTypes
<1>4. n \in Nat /\ n <= Size(inbound)
  <2>1. Len(inbound) \in Nat /\ Len(buffer) \in Nat /\ wanted \in Nat /\ Len(buffer) <= wanted
    BY <1>3, SizeIsNat DEF Size, BufferInv, StreamType
  <2>2. Smaller(Len(inbound), wanted - Len(buffer)) \in Nat
        /\ Smaller(Len(inbound), wanted - Len(buffer)) <= Len(inbound)
    BY <2>1 DEF Smaller
  <2>3. n \in 0 .. Smaller(Len(inbound), wanted - Len(buffer))
    BY <2>2, MovedIsPart
  <2> QED
    BY <2>1, <2>2, <2>3 DEF Size
<1>5. PICK p \in Strings(Byte), r \in Strings(Byte) :
        inbound = Cat(p, r) /\ buffer' = Cat(buffer, p) /\ inbound' = r
  <2>1. Take(inbound, n) \in Strings(Byte) /\ Drop(inbound, n) \in Strings(Byte)
        /\ inbound = Cat(Take(inbound, n), Drop(inbound, n))
    BY <1>3, <1>4, TakeType, DropType, TakeAndDrop
  <2>2. buffer' = Cat(buffer, Take(inbound, n)) /\ inbound' = Drop(inbound, n)
    BY <1>2 DEF Cat, Take, Drop, Rest
  <2> QED
    BY <2>1, <2>2
<1>6. phase \in {"reply", "bitfield", "loop"}
  BY <1>2 DEF Invs, PhaseInv
<1>7. PhaseInv'
  BY <1>2 DEF Invs, PhaseInv
<1>8. ToInv' /\ ToStep
  BY <1>2, <1>6, ReadingKeepsTo DEF Invs, peer
<1>9. ASSUME NEW lost \in Strings(Byte)
      PROVE  Cat(Cat(header, buffer'), Cat(inbound', lost))
               = Cat(Cat(header, buffer), Cat(inbound, lost))
  <2>1. Cat(header, Cat(buffer, p)) = Cat(Cat(header, buffer), p)
    BY <1>3, CatAssociates
  <2>2. Cat(header, buffer) \in Strings(Byte) /\ Cat(r, lost) \in Strings(Byte)
    BY <1>3, CatType
  <2>3. Cat(Cat(Cat(header, buffer), p), Cat(r, lost))
          = Cat(Cat(header, buffer), Cat(p, Cat(r, lost)))
    BY <2>2, CatAssociates
  <2>4. Cat(p, Cat(r, lost)) = Cat(Cat(p, r), lost)
    BY CatAssociates
  <2> QED
    BY <1>5, <2>1, <2>3, <2>4
<1>10. FromInv'
  BY <1>2, <1>9 DEF Invs, FromInv, Greeting, peer
<1>11. FromStep
  BY <1>2 DEF FromStep
<1> QED
  BY <1>7, <1>8, <1>10, <1>11 DEF StepsWell, Invs

(* The handshake is read; what follows it are the peer's messages.          *)
LEMMA GotHandshakeStep ==
  ASSUME BufferInv, Invs, GotHandshake, Up'
  PROVE  StepsWell
<1>1. /\ pc = "exact" /\ pc' = "call" /\ phase = "reply" /\ phase' = After[phase]
      /\ unsent' = None /\ wanted' = 0 /\ buffer' = None /\ header' = None
      /\ ~Missing /\ UNCHANGED link
  BY DEF GotHandshake, Return, ClearLocals, None
<1>2. phase' = "bitfield" /\ header = None /\ wanted = HandshakeSize /\ unsent = None
  BY <1>1, AfterIs DEF Invs, PhaseInv, ToInv
<1>3. buffer \in Strings(Byte) /\ inbound \in Strings(Byte)
  BY LocalTypes
<1>4. Size(buffer) = HandshakeSize
  <2>1. Len(buffer) <= wanted /\ ~(Len(buffer) < wanted) /\ wanted \in Nat /\ Len(buffer) \in Nat
    BY <1>1, <1>3, SizeIsNat DEF BufferInv, StreamType, Missing, Size
  <2> QED
    BY <1>2, <2>1 DEF Size
<1>5. PhaseInv'
  BY <1>1, <1>2 DEF PhaseInv
<1>6. ToInv' /\ ToStep
  BY <1>1, <1>2, ReadingKeepsTo DEF Invs, link, peer
<1>7. PICK lost \in Strings(Byte) :
        /\ peer_open => lost = None
        /\ Cat(Cat(header, buffer), Cat(inbound, lost)) = Cat(Greeting, Undelivered)
  BY DEF Invs, FromInv, Undelivered
<1>8. Cat(None, buffer) = buffer /\ Greeting = Handshake
  BY <1>1, <1>3, CatNone DEF Greeting
<1>9. Cat(inbound, lost) \in Strings(Byte) /\ Undelivered \in Strings(Byte)
  BY <1>3, CatType, UndeliveredType DEF Invs
<1>10. Cat(inbound, lost) = Undelivered
  BY <1>2, <1>3, <1>4, <1>7, <1>8, <1>9, HandshakeType, SameParts
<1>11. Cat(Cat(None, None), Cat(inbound, lost)) = Cat(inbound, lost)
       /\ Cat(None, Undelivered) = Undelivered
  BY <1>9, CatNone, NoneType
<1>12. Cat(Cat(header', buffer'), Cat(inbound', lost))
         = Cat(Greeting', StreamOf[Drop(peer_sent', Size(received'))])
  BY <1>1, <1>2, <1>10, <1>11 DEF Undelivered, Greeting, link, incoming
<1>13. FromInv' /\ FromStep
  BY <1>1, <1>7, <1>12 DEF Invs, FromInv, FromStep, link, incoming, peer
<1> QED
  BY <1>5, <1>6, <1>13 DEF StepsWell, Invs

-----------------------------------------------------------------------------
(* A buffer that is full has the size that was asked for.                   *)
LEMMA FullBuffer ==
  ASSUME BufferInv, ~Missing
  PROVE  Size(buffer) = wanted
BY DEF BufferInv, StreamType, Missing, Size

(* The header is kept, and the rest of the message asked for.               *)
LEMMA GotHeaderStep ==
  ASSUME BufferInv, Invs, GotHeader, Up'
  PROVE  StepsWell
<1>1. /\ pc = "exact" /\ ~Missing /\ phase # "reply" /\ header = None
      /\ ~TooLarge(bytes_to_int32(buffer))
      /\ header' = buffer /\ wanted' = bytes_to_int32(buffer) /\ buffer' = None
      /\ UNCHANGED <<pc, phase, unsent, link>>
  BY DEF GotHeader, None, Up, Calling, Throw, GiveUp
<1>2. wanted = 4 /\ Size(buffer) = 4
  BY <1>1, FullBuffer DEF BufferInv, Locals, None
<1>3. buffer \in Strings(Byte)
  BY LocalTypes
<1>4. PhaseInv'
  BY <1>1, <1>2 DEF PhaseInv, Invs
<1>5. phase \in {"reply", "bitfield", "loop"}
  BY <1>1 DEF PhaseInv, Invs
<1>6. ToInv' /\ ToStep
  BY <1>1, <1>5, ReadingKeepsTo DEF Invs, link, peer
<1>7. Cat(header', buffer') = Cat(header, buffer)
  BY <1>1, <1>3, CatNone
<1>8. FromInv' /\ FromStep
  BY <1>1, <1>7 DEF Invs, FromInv, FromStep, Greeting, link, incoming, peer
<1> QED
  BY <1>4, <1>6, <1>8 DEF StepsWell, Invs

(* What ReceiveData returns is a whole message, the first that had not been *)
(* returned.                                                                *)
LEMMA ReturnsNextMessage ==
  ASSUME BufferInv, Invs, GotMessage
  PROVE  \E m \in PeerMessages : \E more \in Strings(PeerMessages) :
           \E lost \in Strings(Byte) :
             /\ Drop(peer_sent, Size(received)) = Cat(One(m), more)
             /\ Parse(Cat(header, buffer)) = m
             /\ peer_open => lost = None
             /\ Cat(inbound, lost) = StreamOf[more]
<1> DEFINE b == Cat(header, buffer)
<1>1. /\ pc = "exact" /\ ~Missing /\ phase # "reply"
      /\ header = None => bytes_to_int32(buffer) = 0
  BY DEF GotMessage, None
<1>2. buffer \in Strings(Byte) /\ header \in Strings(Byte) /\ inbound \in Strings(Byte)
  BY LocalTypes
<1>3. Size(buffer) = wanted /\ Size(b) = Size(header) + Size(buffer) /\ b \in Strings(Byte)
  BY <1>1, <1>2, FullBuffer, CatType
<1>4. Size(b) >= 4 /\ Size(b) = End(b) /\ ~TooLarge(bytes_to_int32(b))
  <2>1. CASE header = None
    <3>1. b = buffer
      BY <1>2, <2>1, CatNone
    <3>2. wanted = 4 /\ bytes_to_int32(buffer) = 0
      BY <1>1, <2>1 DEF BufferInv, Locals, None
    <3>3. ~TooLarge(0)
      BY TcpAssumption DEF TcpAssumption, TooLarge
    <3> HIDE DEF b
    <3> QED
      BY <1>3, <3>1, <3>2, <3>3 DEF End
  <2>2. CASE header # None
    <3>1. Size(header) = 4 /\ wanted = bytes_to_int32(header) /\ ~TooLarge(wanted)
      BY <2>2 DEF Invs, PhaseInv
    <3>2. bytes_to_int32(b) = wanted
      BY <1>2, <3>1, LengthInFront
    <3>3. wanted \in Nat
      BY DEF BufferInv, StreamType
    <3> HIDE DEF b
    <3> QED
      BY <1>3, <3>1, <3>2, <3>3 DEF End
  <2> QED
    BY <2>1, <2>2
<1>5. PICK lost \in Strings(Byte) :
        /\ peer_open => lost = None
        /\ Cat(Cat(header, buffer), Cat(inbound, lost)) = Cat(Greeting, Undelivered)
  BY DEF Invs, FromInv, Undelivered
<1>6. Greeting = None
  BY <1>1 DEF Invs, PhaseInv, Greeting
<1>7. Cat(b, Cat(inbound, lost)) = StreamOf[Drop(peer_sent, Size(received))]
  BY <1>5, <1>6, UndeliveredType, CatNone DEF Undelivered, Invs
<1>8. Cat(inbound, lost) \in Strings(Byte)
        /\ Drop(peer_sent, Size(received)) \in Strings(PeerMessages)
  BY <1>2, CatType, UndeliveredType DEF Invs
<1> HIDE DEF b
<1>9. PICK m \in PeerMessages, more \in Strings(PeerMessages) :
        /\ Drop(peer_sent, Size(received)) = Cat(One(m), more)
        /\ Cat(inbound, lost) = StreamOf[more] /\ Parse(b) = m
  BY <1>3, <1>4, <1>7, <1>8, NextMessage
<1> QED
  BY <1>5, <1>9 DEF b

LEMMA GotMessageStep ==
  ASSUME BufferInv, Invs, GotMessage, Up'
  PROVE  StepsWell
<1>1. /\ pc = "exact" /\ pc' = "call" /\ phase # "reply" /\ phase' = After[phase]
      /\ unsent' = None /\ wanted' = 0 /\ buffer' = None /\ header' = None
      /\ received' = Append(received, header \o buffer)
      /\ UNCHANGED <<peer, inbound, outgoing, peer_sent>>
  BY DEF GotMessage, Return, ClearLocals, None
<1>2. phase \in {"bitfield", "loop"} /\ unsent = None
  BY <1>1 DEF Invs, PhaseInv, ToInv
<1>3. phase' \in {"interested", "loop"}
  BY <1>1, <1>2, AfterIs
<1>4. PhaseInv'
  BY <1>1 DEF PhaseInv
<1>5. ToInv' /\ ToStep
  BY <1>1, <1>2, <1>3, ReadingKeepsTo DEF Invs, peer
<1>6. PICK m \in PeerMessages, more \in Strings(PeerMessages), lost \in Strings(Byte) :
        /\ Drop(peer_sent, Size(received)) = Cat(One(m), more)
        /\ Parse(Cat(header, buffer)) = m
        /\ peer_open => lost = None
        /\ Cat(inbound, lost) = StreamOf[more]
  BY ReturnsNextMessage
<1> DEFINE b == Cat(header, buffer)
<1>7. received \in Strings(Strings(Byte)) /\ b \in Strings(Byte)
      /\ peer_sent \in Strings(PeerMessages)
  BY LocalTypes, CatType DEF Invs, FromInv
<1>8. received' = Cat(received, One(b)) /\ received' = Append(received, b)
  <2>1. received' = Append(received, b)
    BY <1>1 DEF Cat
  <2>2. Append(received, b) = received \o <<b>>
    BY <1>7 DEF Strings
  <2> QED
    BY <2>1, <2>2 DEF Cat, One
<1>9. received' \in Strings(Strings(Byte)) /\ Size(received') = Size(received) + 1
  <2> HIDE DEF b
  <2>1. One(b) \in Strings(Strings(Byte)) /\ Size(One(b)) = 1
    BY <1>7, OneType
  <2>2. Cat(received, One(b)) \in Strings(Strings(Byte))
        /\ Size(Cat(received, One(b))) = Size(received) + Size(One(b))
    BY <1>7, <2>1, CatType
  <2> QED
    BY <1>8, <2>1, <2>2
<1>10. /\ Size(received) + 1 <= Size(peer_sent)
       /\ peer_sent[Size(received) + 1] = m
       /\ Drop(peer_sent, Size(received) + 1) = more
  BY <1>6, <1>7, SizeIsNat, DropOneMore DEF Invs, FromInv
<1>11. Cat(Cat(None, None), Cat(inbound, lost)) = Cat(None, StreamOf[more])
  <2>1. more \in Strings(MessageType)
    BY MessagesAreMessages, SubStrings
  <2>2. StreamOf[more] \in Strings(Byte)
    BY <2>1, StreamOfType
  <2> QED
    BY <1>6, <2>2, CatNone, NoneType
<1>12. Greeting' = None
  BY <1>3 DEF Greeting
<1>13. FromInv'
  <2>1. Cat(Cat(header', buffer'), Cat(inbound', lost))
          = Cat(Greeting', StreamOf[Drop(peer_sent', Size(received'))])
    BY <1>1, <1>9, <1>10, <1>11, <1>12
  <2>2. peer_open' => lost = None
    BY <1>1, <1>6 DEF peer
  <2>3. peer_sent' \in Strings(PeerMessages) /\ Size(received') <= Size(peer_sent')
    BY <1>1, <1>7, <1>9, <1>10
  <2> QED
    BY <1>9, <2>1, <2>2, <2>3 DEF FromInv
<1>14. FromStep
  <2>1. Len(received) < Len(peer_sent) /\ Parse(b) = peer_sent[Len(received) + 1]
    BY <1>6, <1>7, <1>10, SizeIsNat DEF Size
  <2> HIDE DEF b
  <2> QED
    BY <1>1, <1>7, <1>8, <2>1 DEF FromStep
<1> QED
  BY <1>4, <1>5, <1>13, <1>14 DEF StepsWell, Invs

(* What the peer sends comes behind everything else.                        *)
LEMMA PeerSendsStep ==
  ASSUME BufferInv, Invs, NEW m \in PeerMessages, PeerSends(m), Up'
  PROVE  StepsWell
<1>1. /\ peer_open /\ peer_sent' = Append(peer_sent, m)
      /\ inbound' = inbound \o Wire(m)
      /\ UNCHANGED <<thread, peer, outgoing, received>>
  BY DEF PeerSends
<1>2. PhaseInv'
  BY <1>1 DEF PhaseInv, Invs, thread, locals
<1>3. ToInv' /\ ToStep
  BY <1>1, ToSame DEF Invs, thread, locals, peer, outgoing
<1>4. m \in MessageType /\ peer_sent \in Strings(PeerMessages)
  BY MessagesAreMessages DEF Invs, FromInv
<1>5. Wire(m) \in Strings(Byte) /\ inbound \in Strings(Byte)
      /\ Cat(header, buffer) \in Strings(Byte)
  BY <1>4, WireType, LocalTypes, CatType
<1>6. peer_sent' = Cat(peer_sent, One(m)) /\ inbound' = Cat(inbound, Wire(m))
  <2>1. Append(peer_sent, m) = peer_sent \o <<m>>
    BY <1>4 DEF Strings
  <2> QED
    BY <1>1, <2>1 DEF Cat, One
<1>7. Cat(Cat(header, buffer), inbound) = Cat(Greeting, Undelivered)
  <2>1. PICK lost \in Strings(Byte) :
          /\ peer_open => lost = None
          /\ Cat(Cat(header, buffer), Cat(inbound, lost)) = Cat(Greeting, Undelivered)
    BY DEF Invs, FromInv, Undelivered
  <2> QED
    BY <1>1, <1>5, <2>1, CatNone
<1>8. Undelivered' = Cat(Undelivered, Wire(m))
  <2>1. /\ Size(received) \in Nat /\ Size(received) <= Size(peer_sent)
        /\ Drop(peer_sent, Size(received)) \in Strings(MessageType)
    BY UndeliveredType DEF Invs, FromInv
  <2>2. One(m) \in Strings(PeerMessages) /\ One(m) \in Strings(MessageType)
    BY <1>4, OneType
  <2>3. Drop(peer_sent', Size(received)) = Cat(Drop(peer_sent, Size(received)), One(m))
    BY <1>4, <1>6, <2>1, <2>2, DropOfCat
  <2>4. StreamOf[Cat(Drop(peer_sent, Size(received)), One(m))] = Cat(Undelivered, StreamOf[One(m)])
    BY <2>1, <2>2, StreamOfCat DEF Undelivered
  <2>5. StreamOf[One(m)] = Wire(m)
    BY <1>4, StreamOfOne
  <2> QED
    BY <1>1, <2>3, <2>4, <2>5 DEF Undelivered
<1>9. Greeting \in Strings(Byte) /\ Undelivered \in Strings(Byte)
  BY HandshakeType, NoneType, UndeliveredType DEF Greeting, Invs
<1>10. Cat(Cat(header, buffer), Cat(inbound', None)) = Cat(Greeting, Undelivered')
  <2>1. Cat(inbound, Wire(m)) \in Strings(Byte)
    BY <1>5, CatType
  <2>2. Cat(Cat(header, buffer), Cat(inbound, Wire(m)))
          = Cat(Cat(Cat(header, buffer), inbound), Wire(m))
    BY <1>5, CatAssociates
  <2>3. Cat(Greeting, Cat(Undelivered, Wire(m))) = Cat(Cat(Greeting, Undelivered), Wire(m))
    BY <1>5, <1>9, CatAssociates
  <2>4. Cat(Cat(inbound, Wire(m)), None) = Cat(inbound, Wire(m))
    BY <2>1, CatNone
  <2> QED
    BY <1>6, <1>7, <1>8, <2>2, <2>3, <2>4
<1>11. peer_sent' \in Strings(PeerMessages) /\ Size(received) <= Size(peer_sent')
  <2>1. peer_sent' \in Strings(PeerMessages) /\ Size(peer_sent') = Size(peer_sent) + 1
    BY <1>4, <1>6, OneType, CatType
  <2> QED
    BY <2>1, UndeliveredType DEF Invs, FromInv
<1>12. FromInv'
  <2>1. Cat(Cat(header', buffer'), Cat(inbound', None))
          = Cat(Greeting', StreamOf[Drop(peer_sent', Size(received'))])
    BY <1>1, <1>10 DEF Undelivered, Greeting, thread, locals
  <2>2. received' \in Strings(Strings(Byte)) /\ Size(received') <= Size(peer_sent')
    BY <1>1, <1>11 DEF Invs, FromInv
  <2>3. None \in Strings(Byte)
    BY NoneType
  <2> QED
    BY <1>11, <2>1, <2>2, <2>3 DEF FromInv
<1>13. FromStep
  BY <1>1 DEF FromStep
<1> QED
  BY <1>2, <1>3, <1>12, <1>13 DEF StepsWell, Invs

(* What does not arrive any more is still in the stream, as lost.           *)
LEMMA PeerClosesStep ==
  ASSUME BufferInv, Invs, PeerCloses, Up'
  PROVE  StepsWell
<1>1. PICK n \in {0} \cup Moved(Len(inbound)) : inbound' = SubSeq(inbound, 1, n)
  BY DEF PeerCloses
<1>2. /\ peer_open /\ peer_open' = FALSE
      /\ UNCHANGED <<thread, outgoing, peer_sent, received>>
  BY DEF PeerCloses
<1>3. PhaseInv'
  BY <1>2 DEF PhaseInv, Invs, thread, locals
<1>4. ToInv' /\ ToStep
  BY <1>2 DEF Invs, ToInv, ToStep, LastIsUnsent, thread, locals, outgoing, Arrived
<1>5. inbound \in Strings(Byte)
  BY LocalTypes
<1>6. n \in Nat /\ n <= Size(inbound)
  <2>1. Size(inbound) \in Nat
    BY <1>5, SizeIsNat
  <2>2. n \in 0 .. Size(inbound)
    BY <2>1, MovedIsPart DEF Size
  <2> QED
    BY <2>1, <2>2
<1>7. PICK lost \in Strings(Byte) : inbound = Cat(inbound', lost)
  <2>1. inbound' = Take(inbound, n)
    BY <1>1 DEF Take
  <2> QED
    BY <1>5, <1>6, <2>1, DropType, TakeAndDrop
<1>8. inbound' \in Strings(Byte)
  BY <1>1, <1>5, <1>6, TakeType DEF Take
<1>9. Cat(Cat(header, buffer), Cat(inbound', lost)) = Cat(Greeting, Undelivered)
  <2>1. PICK none \in Strings(Byte) :
          /\ peer_open => none = None
          /\ Cat(Cat(header, buffer), Cat(inbound, none)) = Cat(Greeting, Undelivered)
    BY DEF Invs, FromInv, Undelivered
  <2> QED
    BY <1>2, <1>5, <1>7, <2>1, CatNone
<1>10. FromInv'
  <2>1. Cat(Cat(header', buffer'), Cat(inbound', lost))
          = Cat(Greeting', StreamOf[Drop(peer_sent', Size(received'))])
    BY <1>2, <1>9 DEF Undelivered, Greeting, thread, locals
  <2> QED
    BY <1>2, <2>1 DEF Invs, FromInv
<1>11. FromStep
  BY <1>2 DEF FromStep
<1> QED
  BY <1>3, <1>4, <1>10, <1>11 DEF StepsWell, Invs

-----------------------------------------------------------------------------
(* A new connection begins with empty streams, whatever the last one left.  *)
LEMMA NewLinkIsWell ==
  ASSUME BufferInv, pc \in Connecting, Established
  PROVE  Invs' /\ peer_sent' = <<>> /\ received' = <<>> /\ handed' = <<>> /\ Arrived' = <<>>
<1>1. /\ pc' = "call" /\ phase' = "handshake" /\ buffer' = None /\ header' = None
      /\ peer_open' = Ours /\ inbound' = (IF Ours THEN Handshake ELSE None)
      /\ outbound' = None /\ peer_sent' = None /\ received' = None /\ handed' = None
  BY DEF Established, NewLink, locals, BufferInv, Locals, None, Connecting
<1>2. PhaseInv'
  BY <1>1 DEF PhaseInv
<1>3. ToInv'
  BY <1>1, NoneType DEF ToInv
<1>4. FromInv'
  <2>1. None \in Strings(PeerMessages) /\ None \in Strings(Strings(Byte))
        /\ None \in Strings(Byte) /\ Size(None) = 0
    BY NoneType
  <2>2. Drop(None, 0) = None
    BY NoneType, DropNothing
  <2>3. Greeting' = Handshake
    BY <1>1 DEF Greeting
  <2>4. Cat(Handshake, None) = Handshake /\ Cat(None, Handshake) = Handshake
        /\ Cat(None, None) = None
    BY HandshakeType, CatNone, NoneType
  <2>5. PICK lost \in Strings(Byte) :
          /\ lost = (IF Ours THEN None ELSE Handshake)
    BY <2>1, HandshakeType
  <2>6. Cat(inbound', lost) = Handshake
    BY <1>1, <2>4, <2>5
  <2>7. Cat(Cat(header', buffer'), Cat(inbound', lost))
          = Cat(Greeting', StreamOf[Drop(peer_sent', Size(received'))])
    BY <1>1, <2>1, <2>2, <2>3, <2>4, <2>6, StreamOfNone
  <2>8. peer_open' => lost = None
    BY <1>1, <2>5
  <2>9. 0 <= 0
    OBVIOUS
  <2> QED
    BY <1>1, <2>1, <2>7, <2>8, <2>9 DEF FromInv
<1>5. Arrived' = None
  <2>1. Drop(None, HandshakeSize) = None
    BY NoneType, DropAll, TcpAssumption DEF TcpAssumption
  <2> QED
    BY <1>1, <2>1, MessagesInNone DEF Arrived, Rest, Drop
<1> QED
  BY <1>1, <1>2, <1>3, <1>4, <1>5 DEF Invs, None

(* The thread of a connection that is in use was in use before, or has just *)
(* been connected.                                                          *)
LEMMA UpBegins ==
  ASSUME [Next]_vars, Up', ~Up
  PROVE  pc \in Connecting /\ Established
<1> USE DEF Up, Calling, Connecting, descriptor_vars, flags, thread
<1>1. CASE UNCHANGED vars
  BY <1>1 DEF vars
<1>2. CASE BeginAttempt \/ EndThread
  BY <1>2 DEF BeginAttempt, EndThread, At
<1>3. CASE EstablishConnection
  <2>1. CASE ConnectAtOnce
    BY <2>1 DEF ConnectAtOnce
  <2>2. CASE Connected
    BY <2>2 DEF Connected
  <2>3. CASE ClearForceClosed \/ CloseOldSocket \/ OpenSocket \/ OpenSocketFails
    BY <2>3 DEF ClearForceClosed, CloseOldSocket, OpenSocket, OpenSocketFails, At, Throw, GiveUp
  <2>4. CASE ConnectLater \/ ConnectFails \/ DropSocket \/ ForgetSocket
    BY <2>4 DEF ConnectLater, ConnectFails, DropSocket, ForgetSocket, At, Throw, GiveUp
  <2> QED
    BY <1>3, <2>1, <2>2, <2>3, <2>4 DEF EstablishConnection
<1>4. CASE PerformHandshake \/ (\E m \in Handed : SendMessage(m)) \/ ReceiveHandshake
           \/ ReceiveMessage \/ MainLoopReturns
  BY <1>4 DEF PerformHandshake, SendMessage, ReceiveHandshake, ReceiveMessage, MainLoopReturns,
              Throw, GiveUp
<1>5. CASE SendData
  BY <1>5 DEF SendData, SendLoop, SendSome, SendToNobody, SendBlocks, SendWakes, At
<1>6. CASE ReceiveData
  <2>1. CASE PollTimesOut \/ PollHeader \/ PollExact \/ ExactThrows
    BY <2>1 DEF PollTimesOut, PollHeader, PollExact, ExactThrows, At
  <2>2. CASE RecvSome \/ RecvFails \/ RecvFromOther
    BY <2>2 DEF RecvSome, Receive, RecvFails, RecvFromOther
  <2>3. CASE GotHandshake \/ GotHeader \/ GotMessage
    BY <2>3 DEF GotHandshake, GotHeader, GotMessage
  <2> QED
    BY <1>6, <2>1, <2>2, <2>3 DEF ReceiveData
<1>7. CASE BeginStop \/ StopThread
  BY <1>7 DEF BeginStop, StopThread, SetForceClosed, ShutdownSocket, CloseSocket, ForgetClosed,
              JoinThread, DestroyConnection
<1>8. CASE Environment
  BY <1>8 DEF Environment, OtherOpens, OtherCloses, PeerSends, PeerStalls, PeerCloses
<1> QED
  BY <1>1, <1>2, <1>3, <1>4, <1>5, <1>6, <1>7, <1>8 DEF Next, SessionThread, Handed

(* While a connection is in use, every step keeps both streams in order.    *)
LEMMA CallingStep ==
  ASSUME BufferInv, DescriptorInv, Invs, Up, Up',
         \/ PerformHandshake \/ (\E m \in Handed : SendMessage(m)) \/ ReceiveHandshake
         \/ ReceiveMessage \/ MainLoopReturns \/ SendData
  PROVE  StepsWell
<1>1. CASE PerformHandshake
  BY <1>1, HandshakeBegins
<1>2. CASE \E m \in Handed : SendMessage(m)
  BY <1>2, MessageBegins
<1>3. CASE ReceiveHandshake
  BY <1>3, ReplyBegins
<1>4. CASE ReceiveMessage
  <2>1. /\ pc = "call" /\ pc' = "poll" /\ phase \in {"bitfield", "loop"}
        /\ UNCHANGED <<phase, locals, link>>
    BY <1>4 DEF ReceiveMessage, Up, Calling, Throw, GiveUp, At
  <2> QED
    BY <2>1, QuietStep DEF link, peer
<1>5. CASE MainLoopReturns
  BY <1>5 DEF MainLoopReturns, GiveUp, Up, Calling
<1>6. CASE SendLoop
  <2>1. CASE unsent = None
    BY <1>6, <2>1, SendReturns
  <2>2. CASE unsent # None
    <3>1. pc = "send" /\ pc' = "sending" /\ UNCHANGED <<phase, locals, link>>
      BY <1>6, <2>2 DEF SendLoop, None, Up, Calling, Throw, GiveUp, At
    <3> QED
      BY <3>1, QuietStep DEF link, peer
  <2> QED
    BY <2>1, <2>2
<1>7. CASE SendSome
  BY <1>7, SendMoves
<1>8. CASE SendToNobody
  BY <1>8, NobodyStep
<1>9. CASE SendBlocks
  BY <1>9, QuietStep DEF SendBlocks, At, link, peer
<1>10. CASE SendWakes
  BY <1>10 DEF SendWakes, Throw, GiveUp, Up, Calling
<1> QED
  BY <1>1, <1>2, <1>3, <1>4, <1>5, <1>6, <1>7, <1>8, <1>9, <1>10 DEF SendData

LEMMA ReceivingStep ==
  ASSUME BufferInv, DescriptorInv, Invs, Up, Up', ReceiveData
  PROVE  StepsWell
<1>1. CASE PollTimesOut
  BY <1>1, PollReturns
<1>2. CASE PollHeader
  BY <1>2, HeaderBegins
<1>3. CASE PollExact
  BY <1>3, QuietStep DEF PollExact, At, link, peer
<1>4. CASE ExactThrows \/ RecvFails
  BY <1>4 DEF ExactThrows, RecvFails, Throw, GiveUp, Up, Calling
<1>5. CASE RecvSome
  BY <1>5, RecvMoves
<1>6. CASE RecvFromOther
  BY <1>6, UpIsOurs DEF RecvFromOther
<1>7. CASE GotHandshake
  BY <1>7, GotHandshakeStep
<1>8. CASE GotHeader
  BY <1>8, GotHeaderStep
<1>9. CASE GotMessage
  BY <1>9, GotMessageStep
<1> QED
  BY <1>1, <1>2, <1>3, <1>4, <1>5, <1>6, <1>7, <1>8, <1>9 DEF ReceiveData

LEMMA UpStep ==
  ASSUME BufferInv, DescriptorInv, Invs, Up, Up', [Next]_vars
  PROVE  StepsWell
<1>1. CASE UNCHANGED vars
  BY <1>1, QuietStep DEF vars, thread, link, peer
<1>2. CASE BeginAttempt \/ EndThread \/ EstablishConnection
  BY <1>2 DEF Up, Calling, BeginAttempt, EndThread, EstablishConnection, ClearForceClosed,
              CloseOldSocket, OpenSocket, OpenSocketFails, ConnectAtOnce, ConnectLater,
              Connected, ConnectFails, DropSocket, ForgetSocket, At
<1>3. CASE \/ PerformHandshake \/ (\E m \in Handed : SendMessage(m)) \/ ReceiveHandshake
           \/ ReceiveMessage \/ MainLoopReturns \/ SendData
  BY <1>3, CallingStep
<1>4. CASE ReceiveData
  BY <1>4, ReceivingStep
<1>5. CASE BeginStop
  BY <1>5 DEF BeginStop, Up
<1>6. CASE StopThread
  BY <1>6, UpIsOurs DEF StopThread, SetForceClosed, ShutdownSocket, CloseSocket, ForgetClosed,
                        JoinThread, DestroyConnection
<1>7. CASE \E f \in Fds : OtherOpens(f) \/ OtherCloses(f)
  BY <1>7, QuietStep DEF OtherOpens, OtherCloses, thread, link, peer
<1>8. CASE \E m \in PeerMessages : PeerSends(m)
  BY <1>8, PeerSendsStep
<1>9. CASE PeerStalls
  BY <1>9, QuietStep DEF PeerStalls, thread
<1>10. CASE PeerCloses
  BY <1>10, PeerClosesStep
<1> QED
  BY <1>1, <1>2, <1>3, <1>4, <1>5, <1>6, <1>7, <1>8, <1>9, <1>10
     DEF Next, SessionThread, Environment, Handed

(* The inductive invariant.                                                 *)
LinksInv == BufferInv /\ DescriptorInv /\ LinkInv

LEMMA LinksStep ==
  ASSUME LinksInv, [Next]_vars
  PROVE  LinksInv'
<1>1. BufferInv' /\ DescriptorInv'
  BY BufferStep, DescriptorStep DEF LinksInv
<1>2. CASE ~Up'
  BY <1>1, <1>2 DEF LinksInv, LinkInv
<1>3. CASE Up' /\ ~Up
  BY <1>1, <1>3, UpBegins, NewLinkIsWell DEF LinksInv, LinkInv, Invs
<1>4. CASE Up' /\ Up
  BY <1>1, <1>4, UpStep DEF LinksInv, LinkInv, Invs, StepsWell
<1> QED
  BY <1>2, <1>3, <1>4

-----------------------------------------------------------------------------
Delivered == [i \in DOMAIN received |-> Parse(received[i])]

(* What has been delivered, as messages.                                    *)
LEMMA DeliveredGrows ==
  ASSUME NEW b \in Strings(Byte), received \in Strings(Strings(Byte)),
         received' = Append(received, b)
  PROVE  Delivered' = Append(Delivered, Parse(b)) /\ Len(Delivered) = Len(received)
<1> DEFINE n == Len(received)
<1>1. received \in Seq(Strings(Byte)) /\ n \in Nat
  BY DEF Strings
<1>2. /\ received' \in Seq(Strings(Byte)) /\ Len(received') = n + 1
      /\ received'[n + 1] = b
      /\ \A i \in 1 .. n : received'[i] = received[i]
  BY <1>1 DEF Strings
<1>3. DOMAIN received = 1 .. n /\ DOMAIN received' = 1 .. n + 1
  BY <1>1, <1>2
<1>4. /\ \A i \in 1 .. n : received[i] \in Strings(Byte)
      /\ \A i \in 1 .. n + 1 : received'[i] \in Strings(Byte)
  BY <1>1, <1>2
<1> HIDE DEF n
<1>5. Delivered \in [1 .. n -> Parsed] /\ Delivered' \in [1 .. n + 1 -> Parsed]
  BY <1>3, <1>4 DEF Delivered, Parsed
<1>6. /\ \A i \in 1 .. n : Delivered[i] = Parse(received[i])
      /\ \A i \in 1 .. n + 1 : Delivered'[i] = Parse(received'[i])
  BY <1>3 DEF Delivered
<1> DEFINE d == Delivered
           e == Delivered'
<1>7. d \in Seq(Parsed) /\ Len(d) = n /\ e \in Seq(Parsed) /\ Len(e) = n + 1
  BY <1>1, <1>5
<1>8. Parse(b) \in Parsed
  BY DEF Parsed
<1>9. /\ \A i \in 1 .. n : e[i] = d[i]
      /\ e[n + 1] = Parse(b)
  <2>1. \A i \in 1 .. n : i \in 1 .. n + 1
    BY <1>1
  <2>2. n + 1 \in 1 .. n + 1
    BY <1>1
  <2> QED
    BY <1>2, <1>6, <2>1, <2>2 DEF n
<1> HIDE DEF d, e
<1>10. e = Append(d, Parse(b))
  <2>1. Append(d, Parse(b)) \in Seq(Parsed) /\ Len(Append(d, Parse(b))) = n + 1
    BY <1>1, <1>7, <1>8
  <2>2. ASSUME NEW i \in 1 .. n + 1
        PROVE  e[i] = Append(d, Parse(b))[i]
    BY <1>1, <1>7, <1>8, <1>9
  <2> QED
    BY <1>7, <2>1, <2>2, SameElements
<1> QED
  BY <1>7, <1>10 DEF d, e, n

LEMMA NoneDelivered ==
  ASSUME received' = <<>>
  PROVE  Delivered' = <<>>
BY DEF Delivered

LEMMA UpIsBoolean == Up \in BOOLEAN /\ Up' \in BOOLEAN
BY DEF Up

(* The channel's steps.                                                     *)
LEMMA FromPeerInit == Init => FromPeer!Init
BY DEF Init, FromPeer!Init, WhileUp, Up, Calling

LEMMA ToPeerInit == Init => ToPeer!Init
BY DEF Init, ToPeer!Init, WhileUp, Up, Calling

LEMMA FromPeerStep ==
  ASSUME LinksInv, [Next]_vars
  PROVE  [FromPeer!Next]_(FromPeer!vars)
<1> USE DEF FromPeer!Next, FromPeer!vars
<1>1. CASE ~Up /\ ~Up'
  BY <1>1, UpIsBoolean DEF WhileUp
<1>2. CASE Up /\ ~Up'
  BY <1>2, UpIsBoolean DEF WhileUp, FromPeer!Disconnect
<1>3. CASE ~Up /\ Up'
  <2>1. peer_sent' = <<>> /\ Delivered' = <<>>
    BY <1>3, UpBegins, NewLinkIsWell, NoneDelivered DEF LinksInv
  <2> QED
    BY <1>3, <2>1 DEF WhileUp, FromPeer!Connect, Delivered
<1>4. CASE Up /\ Up'
  <2>1. FromStep /\ FromInv
    BY <1>4, UpStep DEF LinksInv, LinkInv, Invs, StepsWell
  <2>2. CASE UNCHANGED <<peer_sent, received>>
    BY <1>4, <2>2 DEF WhileUp
  <2>3. ASSUME NEW m \in PeerMessages, peer_sent' = Append(peer_sent, m), UNCHANGED received
        PROVE  FromPeer!Send
    <3>1. Len(peer_sent') = Len(peer_sent) + 1 /\ SubSeq(peer_sent', 1, Len(peer_sent)) = peer_sent
      BY <2>1, <2>3, AppendIsLonger DEF FromInv
    <3> QED
      BY <1>4, <2>3, <3>1 DEF WhileUp, FromPeer!Send
  <2>4. ASSUME UNCHANGED peer_sent, Len(received) < Len(peer_sent),
               NEW b \in Strings(Byte),
               received' = Append(received, b), Parse(b) = peer_sent[Len(received) + 1]
        PROVE  FromPeer!Deliver
    <3>1. Delivered' = Append(Delivered, Parse(b)) /\ Len(Delivered) = Len(received)
      BY <2>1, <2>4, DeliveredGrows DEF FromInv
    <3> QED
      BY <1>4, <2>4, <3>1 DEF WhileUp, FromPeer!Deliver, Delivered
  <2> QED
    BY <2>1, <2>2, <2>3, <2>4 DEF FromStep
<1> QED
  BY <1>1, <1>2, <1>3, <1>4

LEMMA ToPeerStep ==
  ASSUME LinksInv, [Next]_vars
  PROVE  [ToPeer!Next]_(ToPeer!vars)
<1> USE DEF ToPeer!Next, ToPeer!vars
<1>1. CASE ~Up /\ ~Up'
  BY <1>1, UpIsBoolean DEF WhileUp
<1>2. CASE Up /\ ~Up'
  BY <1>2, UpIsBoolean DEF WhileUp, ToPeer!Disconnect
<1>3. CASE ~Up /\ Up'
  <2>1. handed' = <<>> /\ Arrived' = <<>>
    BY <1>3, UpBegins, NewLinkIsWell DEF LinksInv
  <2> QED
    BY <1>3, <2>1 DEF WhileUp, ToPeer!Connect, Arrived
<1>4. CASE Up /\ Up'
  <2>1. ToStep /\ ToInv
    BY <1>4, UpStep DEF LinksInv, LinkInv, Invs, StepsWell
  <2>2. CASE UNCHANGED <<handed, Arrived>>
    BY <1>4, <2>2 DEF WhileUp, Arrived
  <2>3. ASSUME NEW m \in Handed, handed' = Append(handed, m), UNCHANGED Arrived
        PROVE  ToPeer!Send
    <3>1. Len(handed') = Len(handed) + 1 /\ SubSeq(handed', 1, Len(handed)) = handed
      BY <2>1, <2>3, AppendIsLonger DEF ToInv
    <3> QED
      BY <1>4, <2>3, <3>1 DEF WhileUp, ToPeer!Send, Arrived
  <2>4. ASSUME UNCHANGED handed, Len(Arrived) < Len(handed),
               Arrived' = Append(Arrived, handed[Len(Arrived) + 1])
        PROVE  ToPeer!Deliver
    BY <1>4, <2>4 DEF WhileUp, ToPeer!Deliver, Arrived
  <2> QED
    BY <2>1, <2>2, <2>3, <2>4 DEF ToStep
<1> QED
  BY <1>1, <1>2, <1>3, <1>4

(* In both directions messages arrive whole, in order and once each, or     *)
(* they are lost with the connection: although bytes arrive in any pieces,  *)
(* calls give up in the middle of a message, the descriptor's number is     *)
(* used by others before and after, and the session connects again.  Each   *)
(* direction implements MessageChannel.                                     *)
THEOREM MessagesArriveWhole == Spec => ImplementsMessageChannel
<1>1. Init => LinksInv
  BY BufferInit, DescriptorInit DEF LinksInv, LinkInv, Init, Up, Calling
<1>2. LinksInv /\ [Next]_vars => LinksInv'
  BY LinksStep
<1>3. LinksInv /\ [Next]_vars => [FromPeer!Next]_(FromPeer!vars) /\ [ToPeer!Next]_(ToPeer!vars)
  BY FromPeerStep, ToPeerStep
<1> QED
  BY <1>1, <1>2, <1>3, FromPeerInit, ToPeerInit, PTL
     DEF Spec, ImplementsMessageChannel, FromPeer!Spec, ToPeer!Spec
=============================================================================
