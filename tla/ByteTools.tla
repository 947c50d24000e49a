----------------------------- MODULE ByteTools -----------------------------
(***************************************************************************)
(* utils/byte_tools.cpp: numbers as bytes, the highest first.  A string of *)
(* bytes is a sequence of numbers below 256.                               *)
(***************************************************************************)
EXTENDS Integers, Sequences

Byte == 0 .. 255

MaxInt32 == 2147483647

(* A 32-bit number is signed: the highest byte carries the sign.  TLC's     *)
(* integers have that width too, so the sign is applied before the shift.   *)
bytes_to_int32(bytes) ==
  (IF bytes[1] < 128 THEN bytes[1] ELSE bytes[1] - 256) * 16777216
    + bytes[2] * 65536 + bytes[3] * 256 + bytes[4]

int32_to_bytes(value) ==
  <<(value \div 16777216) % 256, (value \div 65536) % 256, (value \div 256) % 256,
    value % 256>>

(* Of a 64-bit number first the bytes of its upper half.                    *)
uint64_to_bytes(value) ==
  int32_to_bytes((value \div 16777216) \div 256) \o int32_to_bytes(value)
=============================================================================
