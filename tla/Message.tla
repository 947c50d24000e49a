------------------------------ MODULE Message ------------------------------
(***************************************************************************)
(* peer/Message.cpp: the messages of the peer protocol, as records and as  *)
(* the bytes that stand for them.                                          *)
(***************************************************************************)
EXTENDS ByteTools

kInterested == 2
kHave == 4
kRequest == 6
kPiece == 7
kKeepAlive == 10

MessageType == [id : Byte, message_length : Nat, payload : Seq(Byte)]

KeepAlive == [id |-> kKeepAlive, message_length |-> 0, payload |-> <<>>]

InitMessage(id, payload) ==
  [id |-> id, message_length |-> Len(payload) + 1, payload |-> payload]

ToString(m) == int32_to_bytes(m.message_length) \o <<m.id>> \o m.payload

(* Parse throws on fewer bytes than a length, or than a length and an id.   *)
CanParse(bytes) ==
  /\ Len(bytes) >= 4
  /\ bytes_to_int32(bytes) # 0 => Len(bytes) >= 5

Parse(bytes) ==
  IF bytes_to_int32(bytes) = 0
  THEN KeepAlive
  ELSE [id             |-> bytes[5],
        message_length |-> bytes_to_int32(bytes),
        payload        |-> SubSeq(bytes, 6, Len(bytes))]
=============================================================================
