-------------------------------- MODULE Sha1 --------------------------------
(***************************************************************************)
(* utils/Sha1.cpp, but for ProcessBlock's arithmetic: the hash state is    *)
(* the sequence of the blocks it has been given, and the 20 bytes of the   *)
(* digest are some function of them.                                       *)
(***************************************************************************)
EXTENDS ByteTools, SequencesExt

CONSTANTS
  BlockSize,                \* kBlockSize (64)
  BytesInHashContextBlock,  \* kBytesInHashContextBlock (56): 8 bytes are left
  DigestOf(_)               \* the digest for a sequence of blocks

ASSUME Sha1Assumption ==
  BytesInHashContextBlock \in Nat /\ BytesInHashContextBlock + 8 = BlockSize

NewContext == [message_block |-> <<>>, hash_state |-> <<>>, total_bits_processed |-> 0]

ProcessBlock(context, block) ==
  [context EXCEPT !.hash_state = Append(@, block), !.message_block = <<>>]

UpdateByte(context, byte) ==
  LET block == Append(context.message_block, byte)
      counted == [context EXCEPT !.message_block = block, !.total_bits_processed = @ + 8]
  IN IF Len(block) = BlockSize THEN ProcessBlock(counted, block) ELSE counted

Update(context, data) == FoldLeft(UpdateByte, context, data)

FillWithZeros(block, size) == block \o [k \in 1 .. size - Len(block) |-> 0]

(* The mark leaves no room for the length: it takes a block of its own.     *)
NoRoom(block) == Len(block) > BytesInHashContextBlock

ApplyPadding(context) ==
  LET marked == Append(context.message_block, 128)
      padded == IF NoRoom(marked)
                THEN ProcessBlock(context, FillWithZeros(marked, BlockSize))
                ELSE [context EXCEPT !.message_block = marked]
  IN ProcessBlock(padded,
       FillWithZeros(padded.message_block, BytesInHashContextBlock)
         \o uint64_to_bytes(context.total_bits_processed))

Final(context) == DigestOf(ApplyPadding(context).hash_state)

Compute(data) == Final(Update(NewContext, data))
=============================================================================
