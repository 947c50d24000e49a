------------------------------- MODULE Piece -------------------------------
(***************************************************************************)
(* The Piece class (storage/Piece.cpp) as operators on a record.           *)
(*                                                                         *)
(* A piece is a row of 16 KiB blocks, numbered here from 1 in the order of *)
(* their offsets.  A block is kMissing, kPending or kRetrieved; the bytes  *)
(* of a retrieved block are abstracted to whether they are the bytes the   *)
(* piece's hash was computed from: "good" or "bad".  The hash of a piece   *)
(* then matches exactly when all the bytes it is given are good.           *)
(*                                                                         *)
(* Nothing in Piece is synchronised: every operator below is an unlocked   *)
(* read or write of one object by the thread that calls it.                *)
(***************************************************************************)
EXTENDS Naturals

Retrieved == {"good", "bad"}

BlockState == {"missing", "pending"} \cup Retrieved

(* What GetData can hand out: a block that is not there yet reads as zeros. *)
Bytes == Retrieved \cup {"zero"}

(* The pieces of n blocks; the empty cached_data is the empty string.       *)
PieceType(n) ==
  [blocks : [1 .. n -> BlockState], cached_data : {<< >>} \cup [1 .. n -> Bytes]]

(* The constructor: every block missing, nothing cached.                    *)
NewPiece(n) ==
  [blocks |-> [b \in 1 .. n |-> "missing"], cached_data |-> << >>]

MissingBlocks(p) == {b \in DOMAIN p.blocks : p.blocks[b] = "missing"}

PendingBlocks(p) == {b \in DOMAIN p.blocks : p.blocks[b] = "pending"}

(* GetFirstMissingBlock returns b, the missing block of lowest offset ...   *)
IsFirstMissingBlock(p, b) ==
  b \in MissingBlocks(p) /\ \A c \in MissingBlocks(p) : b <= c

(* ... and has marked it pending before the caller sends any request.       *)
MarkPending(p, b) == [p EXCEPT !.blocks[b] = "pending"]

(* Only a pending block takes data; saving drops the cached bytes.          *)
SaveBlock(p, b, data) ==
  IF b \in PendingBlocks(p)
  THEN [p EXCEPT !.blocks[b] = data, !.cached_data = << >>]
  ELSE p

AllBlocksRetrieved(p) == \A b \in DOMAIN p.blocks : p.blocks[b] \in Retrieved

(* GetData: the cached bytes when there are any, else the blocks in order.  *)
GetData(p) ==
  IF p.cached_data # << >>
  THEN p.cached_data
  ELSE [b \in DOMAIN p.blocks |->
          IF p.blocks[b] \in Retrieved THEN p.blocks[b] ELSE "zero"]

(* The side effect of GetData, a const method with a mutable cache.         *)
CacheData(p) == [p EXCEPT !.cached_data = GetData(p)]

AllGood(bytes) == \A b \in DOMAIN bytes : bytes[b] = "good"

HashMatches(p) == AllBlocksRetrieved(p) /\ AllGood(GetData(p))

(* Reset: back to the state of a new piece of the same length.              *)
Reset(p) ==
  [blocks |-> [b \in DOMAIN p.blocks |-> "missing"], cached_data |-> << >>]
=============================================================================
