------------------------- MODULE PieceStorageProofs -------------------------
(***************************************************************************)
(* Theorems about Piece and PieceStorage, for every number of pieces,      *)
(* blocks and sessions, and about the two modules that complete it.        *)
(*                                                                         *)
(* DownloadMonitor drives the storage as that component's specification    *)
(* allows, so all that is proved of PieceStorage holds next to the         *)
(* monitor; its counts and flags are coherent, and what the finished       *)
(* session reports is so.                                                  *)
(*                                                                         *)
(* The whole thread of PeerSession does to the storage only what           *)
(* PieceStorage allows of a session, and its own books - the requests in   *)
(* flight, the pieces its peer has - agree with the piece it holds.        *)
(***************************************************************************)
EXTENDS DownloadMonitor, PeerSession, FiniteSetTheorems, SequenceTheorems, TLAPS

-----------------------------------------------------------------------------
(* The operations of Piece.                                                 *)

(* A new piece is a piece of its number of blocks, all of them missing.     *)
LEMMA NewPieceType ==
  ASSUME NEW n \in Nat
  PROVE  NewPiece(n) \in PieceType(n)
  BY DEF NewPiece, PieceType, BlockState

(* GetData returns one entry per block, and the empty string only for a     *)
(* piece whose cache is empty.                                              *)
LEMMA GetDataType ==
  ASSUME NEW n \in Nat, NEW p \in PieceType(n)
  PROVE  GetData(p) \in {<< >>} \cup [1 .. n -> Bytes]
<1>1. CASE p.cached_data # << >>
  BY <1>1 DEF GetData, PieceType
<1>2. CASE p.cached_data = << >>
  <2>1. DOMAIN p.blocks = 1 .. n
    BY DEF PieceType
  <2>2. GetData(p) = [b \in 1 .. n |->
                       IF p.blocks[b] \in Retrieved THEN p.blocks[b] ELSE "zero"]
    BY <1>2, <2>1 DEF GetData
  <2> QED  BY <2>2 DEF Bytes, Retrieved
<1> QED  BY <1>1, <1>2

(* No operation turns a piece into something else than a piece.             *)
LEMMA OperationsKeepType ==
  ASSUME NEW n \in Nat, NEW p \in PieceType(n)
  PROVE  /\ \A b \in DOMAIN p.blocks : MarkPending(p, b) \in PieceType(n)
         /\ \A b \in DOMAIN p.blocks, data \in Retrieved :
              SaveBlock(p, b, data) \in PieceType(n)
         /\ CacheData(p) \in PieceType(n)
         /\ Reset(p) = NewPiece(n)
<1>1. p.blocks \in [1 .. n -> BlockState]
  BY DEF PieceType
<1>2. ASSUME NEW b \in DOMAIN p.blocks
      PROVE  MarkPending(p, b) \in PieceType(n)
  BY <1>1 DEF MarkPending, PieceType, BlockState
<1>3. ASSUME NEW b \in DOMAIN p.blocks, NEW data \in Retrieved
      PROVE  SaveBlock(p, b, data) \in PieceType(n)
  BY <1>1 DEF SaveBlock, PieceType, BlockState, Retrieved
<1>4. CacheData(p) \in PieceType(n)
  BY GetDataType DEF CacheData, PieceType
<1>5. Reset(p) = NewPiece(n)
  BY <1>1 DEF Reset, NewPiece
<1> QED  BY <1>2, <1>3, <1>4, <1>5

(* HashMatches leaves the bytes it hashed in the cache; asked again, it     *)
(* answers the same, and GetData returns the same bytes.                    *)
LEMMA CachingKeepsBytes ==
  ASSUME NEW n \in Nat, NEW p \in PieceType(n)
  PROVE  /\ GetData(CacheData(p)) = GetData(p)
         /\ HashMatches(CacheData(p)) = HashMatches(p)
<1>1. /\ CacheData(p).cached_data = GetData(p)
      /\ CacheData(p).blocks = p.blocks
  BY DEF CacheData, PieceType
<1>2. GetData(CacheData(p)) = GetData(p)
  BY <1>1 DEF GetData
<1> QED  BY <1>1, <1>2 DEF HashMatches, AllBlocksRetrieved

-----------------------------------------------------------------------------
(* The name QueueAnew gives to a new object of index i names an object of   *)
(* that index that no session points to.                                    *)
LEMMA NewObjectIsFree ==
  ASSUME NEW i \in Index, FreeCopies(i) # {}
  PROVE  /\ NewObject(i) \in Object
         /\ IndexOf(NewObject(i)) = i
         /\ \A s \in Sessions : held[s] # NewObject(i)
<1> DEFINE c == CHOOSE n \in FreeCopies(i) : TRUE
<1>1. NewObject(i) = <<i, c>>
  BY DEF NewObject
<1>2. c \in FreeCopies(i)
  OBVIOUS
<1> HIDE DEF c
<1>3. c \in Copies /\ \A s \in Sessions : held[s] # <<i, c>>
  BY <1>2 DEF FreeCopies
<1> QED  BY <1>1, <1>3 DEF Object, IndexOf

(* Every object in use is an object of a piece of the torrent.              *)
LEMMA IndexOfObject ==
  ASSUME NEW o \in Object
  PROVE  /\ IndexOf(o) \in Index
         /\ BlockCount[IndexOf(o)] \in Nat
         /\ New(IndexOf(o)) \in PieceType(BlockCount[IndexOf(o)])
<1>1. IndexOf(o) \in Index
  BY DEF Object, IndexOf
<1>2. BlockCount[IndexOf(o)] \in Nat
  BY <1>1, StorageAssumption
<1> QED  BY <1>1, <1>2, NewPieceType DEF New

(* A change of one object keeps the heap well typed when the new value is a *)
(* piece of that object's index.                                            *)
LEMMA HeapUpdate ==
  ASSUME TypeOK, NEW o \in Object,
         NEW p \in PieceType(BlockCount[IndexOf(o)]),
         heap' = [heap EXCEPT ![o] = p]
  PROVE  /\ heap' = [x \in Object |-> heap'[x]]
         /\ \A x \in Object : heap'[x] \in PieceType(BlockCount[IndexOf(x)])
BY DEF TypeOK

LEMMA TypeInitially == Init => TypeOK
<1> SUFFICES ASSUME Init PROVE TypeOK
  OBVIOUS
<1>1. \A o \in Object : heap[o] \in PieceType(BlockCount[IndexOf(o)])
  BY IndexOfObject DEF Init
<1>2. queue \in Seq(Object)
  <2>1. \A k \in 1 .. PieceCount : <<k - 1, 0>> \in Object
    BY StorageAssumption DEF Object, Index
  <2>2. queue \in [1 .. PieceCount -> Object]
    BY <2>1 DEF Init
  <2> QED  BY <2>2, SeqDef, StorageAssumption
<1> QED  BY <1>1, <1>2 DEF TypeOK, Init, PcValues

(* Every variable keeps its type; a step on a piece leaves a piece of the   *)
(* same number of blocks.                                                   *)
THEOREM TypeCorrect == Spec => []TypeOK
<1>1. TypeOK /\ [Next]_vars => TypeOK'
  <2> SUFFICES ASSUME TypeOK, [Next]_vars PROVE TypeOK'
    OBVIOUS
  <2> USE DEF Goto, Holds, Holding
  <2>1. ASSUME NEW s \in Sessions, StartSession(s) PROVE TypeOK'
    BY <2>1 DEF StartSession, TypeOK, PcValues, queue_vars, file_vars
  <2>2. ASSUME NEW s \in Sessions, DropPointer(s),
               pc' = [pc EXCEPT ![s] = "stopped"] \/ pc' = [pc EXCEPT ![s] = "run"],
               UNCHANGED <<queue_vars, file_vars, stopping, given_up>>
        PROVE  TypeOK'
    <3>1. heap' = [o \in Object |-> heap'[o]]
      BY <2>2 DEF DropPointer
    <3>2. \A o \in Object : heap'[o] \in PieceType(BlockCount[IndexOf(o)])
      BY <2>2, IndexOfObject DEF DropPointer, TypeOK
    <3> QED  BY <2>2, <3>1, <3>2 DEF DropPointer, TypeOK, PcValues, queue_vars, file_vars
  <2>3. ASSUME NEW s \in Sessions, GetNextPieceToDownload(s) PROVE TypeOK'
    <3>1. Head(queue) \in Object /\ Tail(queue) \in Seq(Object)
      BY <2>3 DEF GetNextPieceToDownload, TypeOK
    <3>2. IndexOf(Head(queue)) \in Index
      BY <3>1, IndexOfObject
    <3> QED  BY <2>3, <3>1, <3>2 DEF GetNextPieceToDownload, TypeOK, file_vars
  <2>4. ASSUME NEW s \in Sessions, RequestBlock(s) PROVE TypeOK'
    <3>1. held[s] \in Object
      BY <2>4 DEF RequestBlock, TypeOK
    <3>2. PICK b \in MissingBlocks(heap[held[s]]) :
            heap' = [heap EXCEPT ![held[s]] = MarkPending(heap[held[s]], b)]
      BY <2>4 DEF RequestBlock
    <3>3. MarkPending(heap[held[s]], b) \in PieceType(BlockCount[IndexOf(held[s])])
      BY <3>1, IndexOfObject, OperationsKeepType DEF MissingBlocks, TypeOK
    <3> QED  BY <2>4, <3>1, <3>2, <3>3, HeapUpdate
             DEF RequestBlock, TypeOK, queue_vars, file_vars
  <2>5. ASSUME NEW s \in Sessions, ReceiveBlock(s) PROVE TypeOK'
    <3>1. held[s] \in Object
      BY <2>5 DEF ReceiveBlock, StoreBlock, TypeOK
    <3>2. PICK b \in DOMAIN heap[held[s]].blocks, data \in PeerData :
            /\ heap' = [heap EXCEPT ![held[s]] = SaveBlock(heap[held[s]], b, data)]
            /\ \E label \in PcValues : pc' = [pc EXCEPT ![s] = label]
      BY <2>5 DEF ReceiveBlock, StoreBlock, PcValues
    <3>3. SaveBlock(heap[held[s]], b, data) \in PieceType(BlockCount[IndexOf(held[s])])
      BY <3>1, IndexOfObject, OperationsKeepType, StorageAssumption DEF TypeOK
    <3> QED  BY <2>5, <3>1, <3>2, <3>3, HeapUpdate
             DEF ReceiveBlock, StoreBlock, TypeOK, queue_vars, file_vars
  <2>6. ASSUME NEW s \in Sessions, PieceProcessed(s) PROVE TypeOK'
    BY <2>6 DEF PieceProcessed, TypeOK, PcValues, file_vars
  <2>7. ASSUME NEW s \in Sessions, CheckHash(s) PROVE TypeOK'
    <3>1. held[s] \in Object
      BY <2>7 DEF CheckHash, TypeOK
    <3>2. CacheData(heap[held[s]]) \in PieceType(BlockCount[IndexOf(held[s])])
      BY <3>1, IndexOfObject, OperationsKeepType DEF TypeOK
    <3>3. heap' = [heap EXCEPT ![held[s]] = CacheData(heap[held[s]])]
      BY <2>7 DEF CheckHash
    <3> QED  BY <2>7, <3>1, <3>2, <3>3, HeapUpdate
             DEF CheckHash, TypeOK, PcValues, queue_vars, file_vars
  <2>8. ASSUME NEW s \in Sessions, SavePieceToDisk(s) PROVE TypeOK'
    <3>1. held[s] \in Object /\ IndexOf(held[s]) \in Index
      BY <2>8, IndexOfObject DEF SavePieceToDisk, TypeOK
    <3>2. CASE IndexOf(held[s]) \in saved_pieces
      BY <2>8, <3>2 DEF SavePieceToDisk, TypeOK, PcValues, queue_vars, file_vars
    <3>3. CASE IndexOf(held[s]) \notin saved_pieces
      <4>1. CacheData(heap[held[s]]) \in PieceType(BlockCount[IndexOf(held[s])])
        BY <3>1, IndexOfObject, OperationsKeepType DEF TypeOK
      <4>2. heap' = [heap EXCEPT ![held[s]] = CacheData(heap[held[s]])]
        BY <2>8, <3>3 DEF SavePieceToDisk
      <4>3. /\ output_file' \in [Index -> {"zero", "good", "bad", "torn"}]
            /\ stream_ok' \in BOOLEAN
        BY <2>8, <3>1, <3>3 DEF SavePieceToDisk, WriteData, TypeOK
      <4> QED  BY <2>8, <3>1, <3>3, <4>1, <4>2, <4>3, HeapUpdate
               DEF SavePieceToDisk, TypeOK, PcValues, queue_vars
    <3> QED  BY <3>2, <3>3
  <2>9. ASSUME NEW s \in Sessions, ReturnPiece(s) PROVE TypeOK'
    <3>1. held[s] \in Object
      BY <2>9 DEF ReturnPiece, TypeOK
    <3>2. Reset(heap[held[s]]) \in PieceType(BlockCount[IndexOf(held[s])])
      BY <3>1, IndexOfObject, OperationsKeepType DEF TypeOK, New
    <3>3. UNCHANGED heap \/ heap' = [heap EXCEPT ![held[s]] = Reset(heap[held[s]])]
      BY <2>9 DEF ReturnPiece
    <3>4. /\ heap' = [x \in Object |-> heap'[x]]
          /\ \A x \in Object : heap'[x] \in PieceType(BlockCount[IndexOf(x)])
      BY <3>1, <3>2, <3>3, HeapUpdate DEF TypeOK
    <3> QED  BY <2>9, <3>4 DEF ReturnPiece, TypeOK, PcValues, queue_vars, file_vars
  <2>10. ASSUME NEW s \in Sessions, PushReturnedPiece(s) PROVE TypeOK'
    BY <2>10 DEF PushReturnedPiece, TypeOK, PcValues, file_vars
  <2>11. ASSUME NEW S \in SUBSET Index, QueueAnew(S), given_up' \in BOOLEAN PROVE TypeOK'
    <3> DEFINE fresh == {NewObject(i) : i \in S}
    <3>1. fresh \subseteq Object
      BY <2>11, NewObjectIsFree DEF QueueAnew
    <3>2. heap' = [o \in Object |-> IF o \in fresh THEN New(IndexOf(o)) ELSE heap[o]]
      BY <2>11 DEF QueueAnew
    <3>3. PICK n \in 0 .. PieceCount : queue' \in [1 .. n -> fresh]
      BY <2>11 DEF QueueAnew
    <3> HIDE DEF fresh
    <3>4. queue' \in Seq(Object)
      BY <3>1, <3>3, SeqDef, StorageAssumption
    <3>5. \A o \in Object : heap'[o] \in PieceType(BlockCount[IndexOf(o)])
      BY <3>2, IndexOfObject DEF TypeOK
    <3>6. heap' = [o \in Object |-> heap'[o]]
      BY <3>2
    <3> QED  BY <2>11, <3>4, <3>5, <3>6
             DEF QueueAnew, TypeOK, file_vars
  <2>12. CASE ForceRequeueMissingPieces
    BY <2>11, <2>12 DEF ForceRequeueMissingPieces, GetMissingPieces, TypeOK
  <2>13. CASE RequeueThrows
    <3>1. PICK n \in GetMissingPieces : QueueAnew({i \in GetMissingPieces : i < n})
      BY <2>13 DEF RequeueThrows
    <3>2. {i \in GetMissingPieces : i < n} \in SUBSET Index
      BY DEF GetMissingPieces
    <3> QED  BY <2>11, <2>13, <3>1, <3>2 DEF RequeueThrows
  <2>14. CASE GiveUp \/ StopSessions \/ CloseOutputFile
    BY <2>14 DEF GiveUp, StopSessions, CloseOutputFile, TypeOK, queue_vars, file_vars
  <2>15. CASE UNCHANGED vars
    BY <2>15 DEF vars, TypeOK, queue_vars, file_vars
  <2> QED
    BY <2>1, <2>2, <2>3, <2>4, <2>5, <2>6, <2>7, <2>8, <2>9, <2>10, <2>12,
       <2>13, <2>14, <2>15
    DEF Next, SessionStep, ControlStep, ExitSession, Release
<1> QED  BY TypeInitially, <1>1, PTL DEF Spec

-----------------------------------------------------------------------------
(* Who may touch which object, and in what state objects change hands.      *)
OwnershipInv ==
  /\ ExclusiveOwnership
  /\ QueuedPieceIsReset
  /\ VerifiedBytesAreWritten
  /\ HandlersConsistent

(* A step of session s that changes nothing but the object it owns, and     *)
(* leaves the session owning it, keeps every object with its one owner.     *)
LEMMA OwnerMayWrite ==
  ASSUME TypeOK, OwnershipInv,
         NEW s \in Sessions, Holds(s), pc[s] # "release",
         NEW p, heap' = [heap EXCEPT ![held[s]] = p],
         NEW label \in PcValues, pc' = [pc EXCEPT ![s] = label],
         UNCHANGED <<queue, held>>
  PROVE  /\ ExclusiveOwnership'
         /\ QueuedPieceIsReset'
         /\ \A t \in Sessions \ {s} :
              /\ pc'[t] = pc[t]
              /\ pc[t] # "release" /\ Holds(t) => heap'[held[t]] = heap[held[t]]
         /\ heap'[held[s]] = p
<1>1. held[s] \in Object /\ Owns(s, held[s])
  BY DEF TypeOK, Holds, Owns
<1>2. /\ \A t \in Sessions, o \in Object : Owns(t, o)' => Owns(t, o)
      /\ \A t \in Sessions \ {s} : pc'[t] = pc[t]
  BY <1>1 DEF Owns, TypeOK
<1>3. ExclusiveOwnership'
  <2>1. \A t, u \in Sessions, o \in Object : (Owns(t, o) /\ Owns(u, o))' => t = u
    BY <1>2 DEF OwnershipInv, ExclusiveOwnership
  <2>2. \A t \in Sessions, k \in DOMAIN queue' : ~Owns(t, queue[k])'
    <3>1. \A k \in DOMAIN queue : queue[k] \in Object
      BY DEF TypeOK
    <3> QED  BY <3>1, <1>2 DEF OwnershipInv, ExclusiveOwnership
  <2>3. \A j, k \in DOMAIN queue' : queue'[j] = queue'[k] => j = k
    BY DEF OwnershipInv, ExclusiveOwnership
  <2> QED  BY <2>1, <2>2, <2>3 DEF ExclusiveOwnership
<1>4. QueuedPieceIsReset'
  <2>1. \A k \in DOMAIN queue : queue[k] # held[s]
    BY <1>1 DEF OwnershipInv, ExclusiveOwnership
  <2>2. \A k \in DOMAIN queue : queue[k] \in Object
    BY DEF TypeOK
  <2>3. \A k \in DOMAIN queue : heap'[queue[k]] = heap[queue[k]]
    BY <2>1, <2>2 DEF TypeOK
  <2> QED  BY <2>3 DEF OwnershipInv, QueuedPieceIsReset
<1>5. ASSUME NEW t \in Sessions \ {s}, pc[t] # "release", Holds(t)
      PROVE  heap'[held[t]] = heap[held[t]]
  <2>1. held[t] \in Object /\ Owns(t, held[t])
    BY <1>5 DEF TypeOK, Holds, Owns
  <2>2. held[t] # held[s]
    BY <1>1, <1>5, <2>1 DEF OwnershipInv, ExclusiveOwnership
  <2> QED  BY <2>1, <2>2 DEF TypeOK
<1> QED  BY <1>1, <1>2, <1>3, <1>4, <1>5 DEF TypeOK

LEMMA OwnershipInitially == Init => OwnershipInv
<1> SUFFICES ASSUME Init PROVE OwnershipInv
  OBVIOUS
<1>1. \A k \in DOMAIN queue : queue[k] = <<k - 1, 0>> /\ queue[k] \in Object
  BY StorageAssumption DEF Init, Object, Index
<1>2. ExclusiveOwnership
  BY <1>1, StorageAssumption DEF Init, ExclusiveOwnership, Owns
<1>3. QueuedPieceIsReset
  BY <1>1 DEF Init, QueuedPieceIsReset
<1>4. VerifiedBytesAreWritten
  BY DEF Init, VerifiedBytesAreWritten, Holding
<1>5. HandlersConsistent
  BY DEF Init, HandlersConsistent, Holds, InProcessing
<1> QED  BY <1>2, <1>3, <1>4, <1>5 DEF OwnershipInv

(* The steps that move pointers: a session takes, drops or puts back an     *)
(* object, or the monitor replaces the queue.                               *)
LEMMA TakingKeepsOwnership ==
  ASSUME TypeOK, OwnershipInv, NEW s \in Sessions, GetNextPieceToDownload(s)
  PROVE  OwnershipInv'
<1>1. /\ Len(queue) \in Nat \ {0}
      /\ DOMAIN queue = 1 .. Len(queue)
      /\ \A k \in DOMAIN queue : queue[k] \in Object
      /\ Head(queue) = queue[1]
  BY EmptySeq, LenProperties DEF TypeOK, GetNextPieceToDownload
<1>2. /\ DOMAIN queue' = 1 .. Len(queue) - 1
      /\ \A k \in DOMAIN queue' : queue'[k] = queue[k + 1]
  BY <1>1, HeadTailProperties, LenProperties DEF TypeOK, GetNextPieceToDownload
<1>3. /\ pc[s] = "run" /\ pc' = pc /\ heap' = heap
      /\ held' = [held EXCEPT ![s] = queue[1]]
      /\ UNCHANGED <<stopping, given_up, saved_pieces, file_open>>
  BY <1>1 DEF GetNextPieceToDownload, file_vars
<1>4. \A t \in Sessions, o \in Object :
        Owns(t, o)' <=> IF t = s THEN o = queue[1] ELSE Owns(t, o)
  BY <1>1, <1>3 DEF Owns, TypeOK
<1>5. ExclusiveOwnership'
  <2>1. \A t, u \in Sessions, o \in Object : (Owns(t, o) /\ Owns(u, o))' => t = u
    BY <1>1, <1>4 DEF OwnershipInv, ExclusiveOwnership
  <2>2. \A t \in Sessions, k \in DOMAIN queue' : ~Owns(t, queue[k])'
    BY <1>1, <1>2, <1>4 DEF OwnershipInv, ExclusiveOwnership
  <2>3. \A j, k \in DOMAIN queue' : queue'[j] = queue'[k] => j = k
    BY <1>1, <1>2 DEF OwnershipInv, ExclusiveOwnership
  <2> QED  BY <2>1, <2>2, <2>3 DEF ExclusiveOwnership
<1>6. QueuedPieceIsReset'
  BY <1>1, <1>2, <1>3 DEF OwnershipInv, QueuedPieceIsReset
<1>7. VerifiedBytesAreWritten'
  BY <1>3 DEF OwnershipInv, VerifiedBytesAreWritten, Holding, Holds, TypeOK
<1>8. HandlersConsistent'
  BY <1>1, <1>3 DEF OwnershipInv, HandlersConsistent, Holds, IsDownloadComplete,
                    InProcessing, TypeOK, PcValues
<1> QED  BY <1>5, <1>6, <1>7, <1>8 DEF OwnershipInv

LEMMA DroppingKeepsOwnership ==
  ASSUME TypeOK, OwnershipInv, NEW s \in Sessions, DropPointer(s),
         NEW label \in {"run", "stopped"}, pc' = [pc EXCEPT ![s] = label],
         file_open \/ label = "stopped",
         UNCHANGED <<queue_vars, file_vars, stopping, given_up>>
  PROVE  OwnershipInv'
<1>1. /\ held' = [held EXCEPT ![s] = NoPiece]
      /\ held'[s] = NoPiece
      /\ \A t \in Sessions \ {s} : held'[t] = held[t] /\ pc'[t] = pc[t]
      /\ UNCHANGED <<queue, saved_pieces, file_open, stopping, given_up>>
  BY DEF DropPointer, TypeOK, queue_vars, file_vars
<1>2. \A t \in Sessions, o \in Object : Owns(t, o)' => Owns(t, o)
  BY <1>1, StorageAssumption DEF Owns
<1>3. \A k \in DOMAIN queue : queue[k] \in Object /\ heap'[queue[k]] = heap[queue[k]]
  BY DEF DropPointer, Queues, TypeOK
<1>4. \A t \in Sessions \ {s} : Holds(t) => heap'[held[t]] = heap[held[t]]
  BY DEF DropPointer, Holds, TypeOK
<1>5. ExclusiveOwnership'
  BY <1>1, <1>2, <1>3 DEF OwnershipInv, ExclusiveOwnership
<1>6. QueuedPieceIsReset'
  BY <1>1, <1>3 DEF OwnershipInv, QueuedPieceIsReset
<1>7. VerifiedBytesAreWritten'
  BY <1>1, <1>4 DEF OwnershipInv, VerifiedBytesAreWritten, Holding, Holds
<1>8. HandlersConsistent'
  <2>1. pc'[s] = label
    BY DEF TypeOK
  <2> QED  BY <1>1, <1>4, <2>1 DEF OwnershipInv, HandlersConsistent, Holds,
                               IsDownloadComplete, InProcessing
<1> QED  BY <1>5, <1>6, <1>7, <1>8 DEF OwnershipInv

LEMMA PuttingBackKeepsOwnership ==
  ASSUME TypeOK, OwnershipInv, NEW s \in Sessions, PushReturnedPiece(s)
  PROVE  OwnershipInv'
<1>1. held[s] \in Object /\ Owns(s, held[s]) /\ pc[s] = "returning"
  BY DEF PushReturnedPiece, Holding, Holds, Owns, TypeOK
<1>2. /\ Len(queue) \in Nat
      /\ DOMAIN queue = 1 .. Len(queue)
      /\ DOMAIN queue' = 1 .. Len(queue) + 1
      /\ \A k \in 1 .. Len(queue) : queue'[k] = queue[k] /\ queue[k] \in Object
      /\ queue'[Len(queue) + 1] = held[s]
  BY <1>1, LenProperties, AppendProperties DEF TypeOK, PushReturnedPiece
<1>3. /\ pc' = [pc EXCEPT ![s] = "release"]
      /\ UNCHANGED <<heap, held, stopping, given_up, saved_pieces, file_open>>
  BY DEF PushReturnedPiece, Goto, file_vars
<1>4. \A t \in Sessions, o \in Object : Owns(t, o)' <=> t # s /\ Owns(t, o)
  BY <1>3 DEF Owns, TypeOK
<1>5. ExclusiveOwnership'
  <2>1. \A t, u \in Sessions, o \in Object : (Owns(t, o) /\ Owns(u, o))' => t = u
    BY <1>4 DEF OwnershipInv, ExclusiveOwnership
  <2>2. \A t \in Sessions, k \in DOMAIN queue' : ~Owns(t, queue[k])'
    BY <1>1, <1>2, <1>4 DEF OwnershipInv, ExclusiveOwnership
  <2>3. \A j, k \in DOMAIN queue' : queue'[j] = queue'[k] => j = k
    BY <1>1, <1>2 DEF OwnershipInv, ExclusiveOwnership
  <2> QED  BY <2>1, <2>2, <2>3 DEF ExclusiveOwnership
<1>6. QueuedPieceIsReset'
  <2>1. heap[held[s]] = New(IndexOf(held[s]))
    BY <1>1 DEF OwnershipInv, HandlersConsistent
  <2> QED  BY <1>2, <1>3, <2>1 DEF OwnershipInv, QueuedPieceIsReset
<1>7. VerifiedBytesAreWritten'
  BY <1>3 DEF OwnershipInv, VerifiedBytesAreWritten, Holding, Holds, TypeOK
<1>8. HandlersConsistent'
  BY <1>1, <1>3 DEF OwnershipInv, HandlersConsistent, Holds, IsDownloadComplete,
                    InProcessing, TypeOK, PcValues, Owns
<1> QED  BY <1>5, <1>6, <1>7, <1>8 DEF OwnershipInv

LEMMA RequeuingKeepsOwnership ==
  ASSUME TypeOK, OwnershipInv, NEW S \in SUBSET Index, QueueAnew(S), ~stopping
  PROVE  OwnershipInv'
<1> DEFINE fresh == {NewObject(i) : i \in S}
<1>1. \A o \in fresh : o \in Object /\ \A s \in Sessions : held[s] # o
  BY NewObjectIsFree DEF QueueAnew
<1>2. heap' = [o \in Object |-> IF o \in fresh THEN New(IndexOf(o)) ELSE heap[o]]
  BY DEF QueueAnew
<1>3. PICK n \in 0 .. PieceCount :
        /\ queue' \in [1 .. n -> fresh]
        /\ \A j, k \in 1 .. n : j < k => IndexOf(queue'[j]) < IndexOf(queue'[k])
  BY DEF QueueAnew
<1> HIDE DEF fresh
<1>4. UNCHANGED <<pc, held, stopping, saved_pieces, file_open>>
  BY DEF QueueAnew, file_vars
<1>5. ExclusiveOwnership'
  <2>1. \A t, u \in Sessions, o \in Object : (Owns(t, o) /\ Owns(u, o))' => t = u
    BY <1>4 DEF OwnershipInv, ExclusiveOwnership, Owns
  <2>2. \A t \in Sessions, k \in DOMAIN queue' : ~Owns(t, queue[k])'
    BY <1>1, <1>3, <1>4 DEF Owns
  <2>3. \A j, k \in DOMAIN queue' : queue'[j] = queue'[k] => j = k
    <3>1. \A j \in 1 .. n : IndexOf(queue'[j]) \in Int
      BY <1>1, <1>3, StorageAssumption DEF IndexOf, Object, Index
    <3>2. \A j, k \in 1 .. n : j \in Int /\ k \in Int
      OBVIOUS
    <3> QED  BY <1>3, <3>1, <3>2
  <2> QED  BY <2>1, <2>2, <2>3 DEF ExclusiveOwnership
<1>6. QueuedPieceIsReset'
  BY <1>1, <1>2, <1>3 DEF QueuedPieceIsReset
<1>7. \A s \in Sessions : Holds(s) => heap'[held[s]] = heap[held[s]]
  BY <1>1, <1>2 DEF Holds, TypeOK
<1>8. VerifiedBytesAreWritten'
  BY <1>4, <1>7 DEF OwnershipInv, VerifiedBytesAreWritten, Holding, Holds
<1>9. HandlersConsistent'
  BY <1>4, <1>7 DEF OwnershipInv, HandlersConsistent, Holds, IsDownloadComplete,
                    InProcessing
<1> QED  BY <1>5, <1>6, <1>8, <1>9 DEF OwnershipInv

(* The steps of a session that owns its object and keeps owning it.         *)
LEMMA WorkingKeepsOwnership ==
  ASSUME TypeOK, OwnershipInv,
         NEW s \in Sessions, Holds(s), pc[s] # "release",
         NEW p, heap' = [heap EXCEPT ![held[s]] = p],
         NEW label \in PcValues \ {"stopped"}, pc' = [pc EXCEPT ![s] = label],
         UNCHANGED <<queue, held, stopping, given_up, file_open>>,
         saved_pieces \subseteq saved_pieces', saved_pieces' \subseteq Index,
         label = "verified" => HashMatches(p),
         label = "returning" => p = New(IndexOf(held[s]))
  PROVE  OwnershipInv'
<1>1. /\ ExclusiveOwnership'
      /\ QueuedPieceIsReset'
      /\ \A t \in Sessions \ {s} :
           /\ pc'[t] = pc[t]
           /\ pc[t] # "release" /\ Holds(t) => heap'[held[t]] = heap[held[t]]
      /\ heap'[held[s]] = p
  BY OwnerMayWrite
<1>2. pc'[s] = label /\ held' = held
  BY DEF TypeOK
<1>3. VerifiedBytesAreWritten'
  BY <1>1, <1>2 DEF OwnershipInv, VerifiedBytesAreWritten, Holding, Holds
<1>4. HandlersConsistent'
  <2>1. ASSUME NEW t \in Sessions
        PROVE  (/\ pc[t] = "stopped" => ~Holds(t)
                /\ pc[t] \in {"processing", "release"} \cup InProcessing => Holds(t)
                /\ pc[t] = "returning" => heap[held[t]] = New(IndexOf(held[t])))'
    BY <1>1, <1>2 DEF OwnershipInv, HandlersConsistent, Holds, InProcessing
  <2>2. (stopping => IsDownloadComplete \/ given_up)'
    BY DEF OwnershipInv, HandlersConsistent, IsDownloadComplete, TypeOK
  <2>3. file_open
    BY DEF OwnershipInv, HandlersConsistent
  <2> QED  BY <2>1, <2>2, <2>3 DEF HandlersConsistent
<1> QED  BY <1>1, <1>3, <1>4 DEF OwnershipInv

(* The same step when it leaves the object as it is.                        *)
LEMMA MovingKeepsOwnership ==
  ASSUME TypeOK, OwnershipInv,
         NEW s \in Sessions, Holds(s), pc[s] # "release",
         NEW label \in PcValues \ {"stopped", "verified", "returning"},
         pc' = [pc EXCEPT ![s] = label],
         UNCHANGED <<heap, queue, held, stopping, given_up, file_open, saved_pieces>>
  PROVE  OwnershipInv'
<1>1. held[s] \in Object
  BY DEF TypeOK, Holds
<1>2. heap' = [heap EXCEPT ![held[s]] = heap[held[s]]]
  BY <1>1 DEF TypeOK
<1> QED  BY <1>2, WorkingKeepsOwnership DEF TypeOK

LEMMA OwnershipStep == TypeOK /\ OwnershipInv /\ [Next]_vars => OwnershipInv'
<1> SUFFICES ASSUME TypeOK, OwnershipInv, [Next]_vars PROVE OwnershipInv'
  OBVIOUS
<1>1. ASSUME NEW s \in Sessions, StartSession(s) PROVE OwnershipInv'
  <2>1. /\ pc[s] = "stopped" /\ ~stopping /\ held[s] = NoPiece
        /\ pc' = [pc EXCEPT ![s] = "run"]
        /\ UNCHANGED <<heap, queue, held, stopping, given_up, file_open, saved_pieces>>
    BY <1>1 DEF StartSession, Goto, queue_vars, file_vars, OwnershipInv,
                HandlersConsistent, Holds
  <2>2. \A t \in Sessions, o \in Object : Owns(t, o)' <=> Owns(t, o)
    BY <2>1, StorageAssumption DEF Owns, TypeOK
  <2>3. ExclusiveOwnership'
    <3>1. \A k \in DOMAIN queue : queue[k] \in Object
      BY DEF TypeOK
    <3> QED  BY <2>1, <2>2, <3>1 DEF OwnershipInv, ExclusiveOwnership
  <2>4. QueuedPieceIsReset' /\ VerifiedBytesAreWritten'
    BY <2>1 DEF OwnershipInv, QueuedPieceIsReset, VerifiedBytesAreWritten,
                Holding, Holds, TypeOK
  <2>5. HandlersConsistent'
    BY <2>1 DEF OwnershipInv, HandlersConsistent, Holds, IsDownloadComplete,
                InProcessing, TypeOK, PcValues
  <2> QED  BY <2>3, <2>4, <2>5 DEF OwnershipInv
<1>2. ASSUME NEW s \in Sessions, ExitSession(s) PROVE OwnershipInv'
  BY <1>2, DroppingKeepsOwnership DEF ExitSession, Goto
<1>3. ASSUME NEW s \in Sessions, GetNextPieceToDownload(s) PROVE OwnershipInv'
  BY <1>3, TakingKeepsOwnership
<1>4. ASSUME NEW s \in Sessions, RequestBlock(s) PROVE OwnershipInv'
  <2>1. PICK p : heap' = [heap EXCEPT ![held[s]] = p]
    BY <1>4 DEF RequestBlock
  <2>2. pc[s] = "run" /\ pc' = [pc EXCEPT ![s] = "run"]
    BY <1>4 DEF RequestBlock, Holding, TypeOK
  <2> QED  BY <1>4, <2>1, <2>2, WorkingKeepsOwnership
           DEF RequestBlock, Holding, PcValues, queue_vars, file_vars, TypeOK
<1>5. ASSUME NEW s \in Sessions, ReceiveBlock(s) PROVE OwnershipInv'
  <2>1. PICK b \in DOMAIN heap[held[s]].blocks, data \in PeerData :
          LET piece == SaveBlock(heap[held[s]], b, data) IN
          /\ heap' = [heap EXCEPT ![held[s]] = piece]
          /\ Goto(s, IF AllBlocksRetrieved(piece) THEN "processing" ELSE "run")
    BY <1>5 DEF ReceiveBlock, StoreBlock
  <2> DEFINE piece == SaveBlock(heap[held[s]], b, data)
             label == IF AllBlocksRetrieved(piece) THEN "processing" ELSE "run"
  <2>2. /\ heap' = [heap EXCEPT ![held[s]] = piece]
        /\ pc' = [pc EXCEPT ![s] = label]
    BY <2>1 DEF Goto
  <2>3. label \in {"processing", "run"}
    OBVIOUS
  <2> HIDE DEF piece, label
  <2> QED  BY <1>5, <2>2, <2>3, WorkingKeepsOwnership
           DEF ReceiveBlock, StoreBlock, Holding, PcValues, queue_vars, file_vars, TypeOK
<1>6. ASSUME NEW s \in Sessions, PieceProcessed(s) PROVE OwnershipInv'
  BY <1>6, MovingKeepsOwnership
  DEF PieceProcessed, Holding, Goto, PcValues, file_vars
<1>7. ASSUME NEW s \in Sessions, CheckHash(s) PROVE OwnershipInv'
  <2> DEFINE piece == heap[held[s]]
             label == IF HashMatches(piece) THEN "verified" ELSE "mismatch"
  <2>1. /\ Holds(s) /\ pc[s] = "hashing" /\ held[s] \in Object
        /\ heap' = [heap EXCEPT ![held[s]] = CacheData(piece)]
        /\ pc' = [pc EXCEPT ![s] = label]
        /\ UNCHANGED <<queue, held, stopping, given_up, file_open, saved_pieces>>
    BY <1>7 DEF CheckHash, Holding, Holds, Goto, queue_vars, file_vars, TypeOK
  <2>2. HashMatches(CacheData(piece)) = HashMatches(piece)
    BY <2>1, IndexOfObject, CachingKeepsBytes DEF TypeOK
  <2>3. /\ label \in PcValues \ {"stopped", "returning"}
        /\ label = "verified" => HashMatches(CacheData(piece))
    BY <2>2 DEF PcValues
  <2> HIDE DEF piece, label
  <2> QED  BY <2>1, <2>3, WorkingKeepsOwnership DEF TypeOK
<1>8. ASSUME NEW s \in Sessions, SavePieceToDisk(s) PROVE OwnershipInv'
  <2>1. /\ Holds(s) /\ pc[s] = "verified" /\ held[s] \in Object
        /\ pc' = [pc EXCEPT ![s] = "release"]
        /\ UNCHANGED <<queue, held, stopping, given_up, file_open>>
        /\ saved_pieces \subseteq saved_pieces'
        /\ saved_pieces' \subseteq Index
    BY <1>8, IndexOfObject
    DEF SavePieceToDisk, Holding, Holds, Goto, queue_vars, file_vars, TypeOK
  <2>2. \/ heap' = [heap EXCEPT ![held[s]] = CacheData(heap[held[s]])]
        \/ heap' = [heap EXCEPT ![held[s]] = heap[held[s]]]
    BY <1>8, <2>1 DEF SavePieceToDisk, TypeOK
  <2>3. "release" \in PcValues \ {"stopped"}
    BY DEF PcValues
  <2> QED  BY <2>1, <2>2, <2>3, WorkingKeepsOwnership
<1>9. ASSUME NEW s \in Sessions, ReturnPiece(s) PROVE OwnershipInv'
  <2>1. /\ Holds(s) /\ pc[s] # "release" /\ held[s] \in Object
        /\ UNCHANGED <<queue, held, stopping, given_up, file_open, saved_pieces>>
    BY <1>9 DEF ReturnPiece, Holding, Holds, queue_vars, file_vars, TypeOK
  <2>2. CASE IsPieceAlreadySaved(IndexOf(held[s]))
    BY <1>9, <2>1, <2>2, MovingKeepsOwnership DEF ReturnPiece, Goto, PcValues
  <2>3. CASE ~IsPieceAlreadySaved(IndexOf(held[s]))
    <3>1. /\ heap' = [heap EXCEPT ![held[s]] = Reset(heap[held[s]])]
          /\ pc' = [pc EXCEPT ![s] = "returning"]
      BY <1>9, <2>3 DEF ReturnPiece, Goto
    <3>2. Reset(heap[held[s]]) = New(IndexOf(held[s]))
      BY <2>1, IndexOfObject, OperationsKeepType DEF TypeOK, New
    <3> QED  BY <2>1, <3>1, <3>2, WorkingKeepsOwnership DEF PcValues, TypeOK
  <2> QED  BY <2>2, <2>3
<1>10. ASSUME NEW s \in Sessions, PushReturnedPiece(s) PROVE OwnershipInv'
  BY <1>10, PuttingBackKeepsOwnership
<1>11. ASSUME NEW s \in Sessions, Release(s) PROVE OwnershipInv'
  <2>1. file_open
    BY <1>11 DEF Release, OwnershipInv, HandlersConsistent
  <2> QED  BY <1>11, <2>1, DroppingKeepsOwnership DEF Release, Goto
<1>12. CASE ForceRequeueMissingPieces \/ RequeueThrows
  <2>1. PICK S \in SUBSET GetMissingPieces : QueueAnew(S) /\ ~stopping
    <3>1. CASE ForceRequeueMissingPieces
      BY <3>1 DEF ForceRequeueMissingPieces
    <3>2. CASE RequeueThrows
      <4>1. PICK n \in GetMissingPieces : QueueAnew({i \in GetMissingPieces : i < n})
        BY <3>2 DEF RequeueThrows
      <4>2. {i \in GetMissingPieces : i < n} \in SUBSET GetMissingPieces
        OBVIOUS
      <4> QED  BY <3>2, <4>1, <4>2 DEF RequeueThrows
    <3> QED  BY <1>12, <3>1, <3>2
  <2>2. S \in SUBSET Index
    BY DEF GetMissingPieces
  <2> QED  BY <2>1, <2>2, RequeuingKeepsOwnership
<1>13. CASE GiveUp \/ StopSessions \/ CloseOutputFile \/ UNCHANGED vars
  <2>1. UNCHANGED <<heap, queue, held, pc, saved_pieces>>
    BY <1>13 DEF GiveUp, StopSessions, CloseOutputFile, vars, queue_vars, file_vars
  <2>2. ExclusiveOwnership' /\ QueuedPieceIsReset' /\ VerifiedBytesAreWritten'
    BY <2>1 DEF OwnershipInv, ExclusiveOwnership, QueuedPieceIsReset,
                VerifiedBytesAreWritten, Owns, Holding, Holds
  <2>3. HandlersConsistent'
    BY <1>13, <2>1 DEF GiveUp, StopSessions, CloseOutputFile, vars, file_vars, OwnershipInv,
       HandlersConsistent, Holds, InProcessing, IsDownloadComplete
  <2> QED  BY <2>2, <2>3 DEF OwnershipInv
<1> QED
  BY <1>1, <1>2, <1>3, <1>4, <1>5, <1>6, <1>7, <1>8, <1>9, <1>10, <1>11,
     <1>12, <1>13
  DEF Next, SessionStep, ControlStep

(* No piece object is ever touched by two threads, whatever the number of   *)
(* sessions and the moments at which they fail, return pieces, or meet a    *)
(* requeue: the unlocked accesses of Piece never race.                      *)
THEOREM OwnershipIsExclusive == Spec => []ExclusiveOwnership
<1>1. Spec => []OwnershipInv
  BY TypeCorrect, OwnershipInitially, OwnershipStep, PTL DEF Spec
<1> QED  BY <1>1, PTL DEF OwnershipInv

(* A piece that waits in the queue is as new: no session takes one with a   *)
(* block left pending by a thread that gave up, or with bytes of an attempt *)
(* that failed its hash.                                                    *)
THEOREM QueuedPiecesAreNew == Spec => []QueuedPieceIsReset
<1>1. Spec => []OwnershipInv
  BY TypeCorrect, OwnershipInitially, OwnershipStep, PTL DEF Spec
<1> QED  BY <1>1, PTL DEF OwnershipInv

-----------------------------------------------------------------------------
(* Only SavePieceToDisk and CloseOutputFile touch the file, and both do it  *)
(* as the abstract file allows.                                             *)
LEMMA FileInitially == Init => FileIntegrity /\ Assembly!Init
BY DEF Init, FileIntegrity, Assembly!Init

LEMMA FileStep ==
  ASSUME TypeOK, OwnershipInv, FileIntegrity, [Next]_vars
  PROVE  FileIntegrity' /\ [Assembly!Next]_(Assembly!vars)
<1>1. ASSUME UNCHANGED file_vars
      PROVE  /\ FileIntegrity'
             /\ UNCHANGED given_up => UNCHANGED Assembly!vars
  BY <1>1 DEF FileIntegrity, file_vars, Assembly!vars
<1>2. ASSUME NEW s \in Sessions, SavePieceToDisk(s)
      PROVE  FileIntegrity' /\ [Assembly!Next]_(Assembly!vars)
  <2> DEFINE i == IndexOf(held[s])
             data == GetData(heap[held[s]])
  <2>1. i \in Index /\ AllGood(data) /\ file_open
    BY <1>2, IndexOfObject
    DEF SavePieceToDisk, OwnershipInv, VerifiedBytesAreWritten, HashMatches,
        HandlersConsistent, Holding, Holds, TypeOK
  <2>2. CASE i \in saved_pieces
    BY <1>1, <1>2, <2>2 DEF SavePieceToDisk
  <2>3. CASE i \notin saved_pieces
    <3>1. /\ WriteData(i, data)
          /\ saved_pieces' = saved_pieces \cup {i}
          /\ UNCHANGED <<file_open, given_up>>
      BY <1>2, <2>3 DEF SavePieceToDisk
    <3> HIDE DEF i, data
    <3>2. CASE stream_ok /\ stream_ok'
      <4>1. output_file' = [output_file EXCEPT ![i] = "good"]
        BY <2>1, <3>1, <3>2 DEF WriteData
      <4>2. Assembly!Commit(i)
        BY <2>1, <2>3, <3>1, <3>2, <4>1 DEF Assembly!Commit, Assembly!Count
      <4>3. FileIntegrity'
        BY <2>1, <3>1, <3>2, <4>1 DEF FileIntegrity, TypeOK
      <4> QED  BY <2>1, <4>2, <4>3 DEF Assembly!Next
    <3>3. CASE stream_ok /\ ~stream_ok'
      <4>1. output_file' = [output_file EXCEPT ![i] = "torn"]
        BY <2>1, <3>1, <3>3 DEF WriteData
      <4>2. Assembly!CommitCutShort(i)
        BY <2>1, <2>3, <3>1, <3>3, <4>1, StorageAssumption
        DEF Assembly!CommitCutShort, Assembly!Count, WriteData, TypeOK
      <4>3. FileIntegrity'
        BY <2>1, <2>3, <3>1, <3>3, <4>1 DEF FileIntegrity, TypeOK
      <4> QED  BY <2>1, <4>2, <4>3 DEF Assembly!Next
    <3>4. CASE ~stream_ok
      <4>1. UNCHANGED <<output_file, stream_ok>>
        BY <3>1, <3>4 DEF WriteData, TypeOK
      <4>2. Assembly!CommitLost(i)
        BY <2>1, <2>3, <3>1, <3>4, <4>1 DEF Assembly!CommitLost, Assembly!Count
      <4>3. FileIntegrity'
        BY <2>1, <3>1, <3>4, <4>1 DEF FileIntegrity, TypeOK
      <4> QED  BY <2>1, <4>2, <4>3 DEF Assembly!Next
    <3> QED  BY <3>2, <3>3, <3>4
  <2> QED  BY <2>2, <2>3
<1>3. ASSUME CloseOutputFile
      PROVE  FileIntegrity' /\ [Assembly!Next]_(Assembly!vars)
  BY <1>3 DEF CloseOutputFile, FileIntegrity, OwnershipInv, HandlersConsistent,
              IsDownloadComplete, Assembly!Next, Assembly!Close
<1>4. ASSUME GiveUp \/ RequeueThrows
      PROVE  FileIntegrity' /\ [Assembly!Next]_(Assembly!vars)
  <2>1. UNCHANGED file_vars /\ ~stopping /\ given_up' = TRUE
    BY <1>4 DEF GiveUp, RequeueThrows, QueueAnew
  <2>2. file_open
    BY <2>1 DEF OwnershipInv, HandlersConsistent
  <2> QED  BY <1>1, <2>1, <2>2 DEF Assembly!Next, Assembly!GiveUp, file_vars
<1>5. \/ \E s \in Sessions : SavePieceToDisk(s)
      \/ CloseOutputFile
      \/ GiveUp \/ RequeueThrows
      \/ UNCHANGED <<file_vars, given_up>>
  BY DEF Next, SessionStep, ControlStep, StartSession, ExitSession,
         GetNextPieceToDownload, RequestBlock, ReceiveBlock, StoreBlock, PieceProcessed,
         CheckHash, ReturnPiece, PushReturnedPiece, Release, ForceRequeueMissingPieces,
         QueueAnew, StopSessions, vars
<1> QED  BY <1>1, <1>2, <1>3, <1>4, <1>5

(* Unless the disk fails, what the file holds is exactly the verified bytes *)
(* of the saved pieces; if it fails, one piece at most is cut short.        *)
THEOREM FileStaysIntact == Spec => []FileIntegrity
<1>1. Spec => []OwnershipInv
  BY TypeCorrect, OwnershipInitially, OwnershipStep, PTL DEF Spec
<1>2. TypeOK /\ OwnershipInv /\ FileIntegrity /\ [Next]_vars => FileIntegrity'
  BY FileStep
<1> QED  BY <1>1, <1>2, TypeCorrect, FileInitially, PTL DEF Spec

(* The threads, the queue and the locks implement a file to which every     *)
(* piece is committed once at most while it is open, with its verified      *)
(* bytes, and which is closed when all is committed or the rest given up.   *)
THEOREM ImplementsAssembly == Spec => ImplementsFileAssembly
<1>1. Spec => []OwnershipInv
  BY TypeCorrect, OwnershipInitially, OwnershipStep, PTL DEF Spec
<1>2. TypeOK /\ OwnershipInv /\ FileIntegrity /\ [Next]_vars
        => [Assembly!Next]_(Assembly!vars)
  BY FileStep
<1> QED  BY <1>1, <1>2, TypeCorrect, FileStaysIntact, FileInitially, PTL
         DEF Spec, ImplementsFileAssembly, Assembly!Spec

-----------------------------------------------------------------------------
(* Where an unsaved piece is.  NoPieceLost is not inductive: that a piece   *)
(* is in somebody's hands does not say it will come back.  Its two halves   *)
(* are: every unsaved index is visible, and an active one is worked on.     *)
WorkInv == WorkIsVisible /\ ActiveIsWorkedOn

LEMMA WorkInitially == Init => WorkInv
<1> SUFFICES ASSUME Init PROVE WorkInv
  OBVIOUS
<1>1. ASSUME NEW i \in Index PROVE Queued(i)
  <2>1. i + 1 \in 1 .. PieceCount /\ (i + 1) - 1 = i
    BY StorageAssumption DEF Index
  <2>2. i + 1 \in DOMAIN queue /\ queue[i + 1] = <<i, 0>>
    BY <2>1 DEF Init
  <2> QED  BY <2>2, StorageAssumption DEF Queued, Queues
<1> QED  BY <1>1 DEF Init, WorkInv, WorkIsVisible, ActiveIsWorkedOn, GetMissingPieces

(* A step of one session that leaves the queue and active_pieces alone and  *)
(* keeps its piece in its hands keeps every unsaved piece accounted for, if *)
(* it neither leaves the downloading states nor the processing ones.        *)
LEMMA SameHandsKeepWork ==
  ASSUME TypeOK, WorkInv, NEW s \in Sessions,
         NEW label \in PcValues, pc' = [pc EXCEPT ![s] = label],
         UNCHANGED <<queue, active_pieces, held, given_up>>,
         saved_pieces \subseteq saved_pieces',
         Holds(s) /\ IndexOf(held[s]) \notin saved_pieces' =>
           /\ pc[s] \in InProcessing => label \in InProcessing
           /\ pc[s] \in {"run", "processing", "returning"} =>
                label \in {"run", "processing", "returning"}
  PROVE  WorkInv'
<1>1. \A t \in Sessions : pc'[t] = IF t = s THEN label ELSE pc[t]
  BY DEF TypeOK
<1>2. \A i \in Index : Queued(i)' <=> Queued(i)
  BY DEF Queued, Queues
<1>3. \A i \in GetMissingPieces' : WorkedOn(i, InProcessing) => WorkedOn(i, InProcessing)'
  BY <1>1 DEF WorkedOn, Holds, GetMissingPieces
<1>4. \A i \in GetMissingPieces' : WorkedOn(i, {"run", "processing", "returning"})
                        => WorkedOn(i, {"run", "processing", "returning"})'
  BY <1>1 DEF WorkedOn, Holds, GetMissingPieces
<1>5. GetMissingPieces' \subseteq GetMissingPieces /\ GetMissingPieces \subseteq Index
  BY DEF GetMissingPieces
<1> QED  BY <1>2, <1>3, <1>4, <1>5 DEF WorkInv, WorkIsVisible, ActiveIsWorkedOn

LEMMA WorkStep == TypeOK /\ OwnershipInv /\ WorkInv /\ [Next]_vars => WorkInv'
<1> SUFFICES ASSUME TypeOK, OwnershipInv, WorkInv, [Next]_vars PROVE WorkInv'
  OBVIOUS
<1> USE DEF Goto, Holding
<1>1. ASSUME NEW s \in Sessions, StartSession(s) PROVE WorkInv'
  BY <1>1, SameHandsKeepWork
  DEF StartSession, PcValues, queue_vars, file_vars, OwnershipInv, HandlersConsistent
<1>2. ASSUME NEW s \in Sessions, DropPointer(s),
             NEW label \in {"run", "stopped"}, pc' = [pc EXCEPT ![s] = label],
             pc[s] = "release" \/ ~Holds(s) \/ IsDownloadComplete \/ given_up,
             UNCHANGED <<queue_vars, file_vars, given_up>>
      PROVE  WorkInv'
  <2>1. CASE IsDownloadComplete \/ given_up
    BY <1>2, <2>1 DEF WorkInv, WorkIsVisible, ActiveIsWorkedOn, IsDownloadComplete,
                      GetMissingPieces, file_vars
  <2>2. CASE pc[s] = "release" \/ ~Holds(s)
    <3>1. \A t \in Sessions \ {s} : held'[t] = held[t] /\ pc'[t] = pc[t]
      BY <1>2 DEF DropPointer, TypeOK
    <3>2. /\ \A i : WorkedOn(i, InProcessing) => WorkedOn(i, InProcessing)'
          /\ \A i : WorkedOn(i, {"run", "processing", "returning"})
                     => WorkedOn(i, {"run", "processing", "returning"})'
      BY <2>2, <3>1 DEF WorkedOn, Holds, InProcessing
    <3>3. \A i \in Index : Queued(i)' <=> Queued(i)
      BY <1>2 DEF Queued, Queues, queue_vars
    <3> QED  BY <1>2, <3>2, <3>3
             DEF WorkInv, WorkIsVisible, ActiveIsWorkedOn, GetMissingPieces,
                 queue_vars, file_vars
  <2> QED  BY <1>2, <2>1, <2>2
<1>3. ASSUME NEW s \in Sessions, GetNextPieceToDownload(s) PROVE WorkInv'
  <2>1. /\ Len(queue) \in Nat \ {0}
        /\ DOMAIN queue = 1 .. Len(queue)
        /\ Head(queue) = queue[1] /\ queue[1] \in Object
        /\ DOMAIN queue' = 1 .. Len(queue) - 1
        /\ \A k \in DOMAIN queue' : queue'[k] = queue[k + 1]
    BY <1>3, EmptySeq, LenProperties, HeadTailProperties
    DEF TypeOK, GetNextPieceToDownload
  <2>2. /\ held' = [held EXCEPT ![s] = queue[1]]
        /\ active_pieces' = active_pieces \cup {IndexOf(queue[1])}
        /\ pc' = pc /\ pc[s] = "run" /\ ~Holds(s)
        /\ UNCHANGED <<saved_pieces, given_up>>
    BY <1>3, <2>1 DEF GetNextPieceToDownload, file_vars
  <2>3. \A i \in Index : Queued(i) => Queued(i)' \/ i = IndexOf(queue[1])
    <3>1. SUFFICES ASSUME NEW i \in Index, NEW n \in Copies, NEW k \in DOMAIN queue,
                          queue[k] = <<i, n>>, i # IndexOf(queue[1])
                   PROVE  Queued(i)'
      BY DEF Queued, Queues
    <3>2. k # 1
      BY <3>1 DEF IndexOf
    <3>3. k - 1 \in DOMAIN queue' /\ queue'[k - 1] = <<i, n>>
      BY <2>1, <3>1, <3>2
    <3> QED  BY <3>3 DEF Queued, Queues
  <2>4. \A t \in Sessions \ {s} : held'[t] = held[t]
    BY <2>2 DEF TypeOK
  <2>5. /\ \A i : WorkedOn(i, InProcessing) => WorkedOn(i, InProcessing)'
        /\ \A i : WorkedOn(i, {"run", "processing", "returning"})
                   => WorkedOn(i, {"run", "processing", "returning"})'
    BY <2>2, <2>4 DEF WorkedOn, Holds
  <2>6. \A i : i = IndexOf(queue[1]) => WorkedOn(i, {"run", "processing", "returning"})'
    <3>1. held'[s] = queue[1] /\ queue[1] # NoPiece
      BY <2>1, <2>2, StorageAssumption DEF TypeOK
    <3> QED  BY <2>2, <3>1 DEF WorkedOn, Holds
  <2>7. WorkIsVisible'
    BY <2>2, <2>3, <2>5 DEF WorkInv, WorkIsVisible, GetMissingPieces
  <2>8. ActiveIsWorkedOn'
    BY <2>2, <2>5, <2>6 DEF WorkInv, ActiveIsWorkedOn, GetMissingPieces
  <2> QED  BY <2>7, <2>8 DEF WorkInv
<1>4. ASSUME NEW s \in Sessions, RequestBlock(s) PROVE WorkInv'
  <2>1. pc' = [pc EXCEPT ![s] = "run"] /\ pc[s] = "run"
    BY <1>4 DEF RequestBlock, TypeOK
  <2> QED  BY <1>4, <2>1, SameHandsKeepWork
           DEF RequestBlock, PcValues, queue_vars, file_vars, InProcessing
<1>5. ASSUME NEW s \in Sessions, ReceiveBlock(s) PROVE WorkInv'
  <2>1. PICK label \in {"run", "processing"} : pc' = [pc EXCEPT ![s] = label]
    BY <1>5 DEF ReceiveBlock, StoreBlock
  <2> QED  BY <1>5, <2>1, SameHandsKeepWork
           DEF ReceiveBlock, StoreBlock, PcValues, queue_vars, file_vars, InProcessing
<1>6. ASSUME NEW s \in Sessions, PieceProcessed(s) PROVE WorkInv'
  <2> DEFINE j == IndexOf(held[s])
  <2>1. /\ pc' = [pc EXCEPT ![s] = "hashing"] /\ pc[s] = "processing" /\ Holds(s)
        /\ active_pieces' = active_pieces \ {j}
        /\ UNCHANGED <<queue, held, saved_pieces, given_up>>
    BY <1>6 DEF PieceProcessed, file_vars
  <2>2. \A t \in Sessions : pc'[t] = IF t = s THEN "hashing" ELSE pc[t]
    BY <2>1 DEF TypeOK
  <2>3. \A i : WorkedOn(i, InProcessing) => WorkedOn(i, InProcessing)'
    BY <2>1, <2>2 DEF WorkedOn, Holds, InProcessing
  <2>4. \A i : i = j => WorkedOn(i, InProcessing)'
    BY <2>1, <2>2 DEF WorkedOn, Holds, InProcessing
  <2>5. \A i : i # j /\ WorkedOn(i, {"run", "processing", "returning"})
                => WorkedOn(i, {"run", "processing", "returning"})'
    BY <2>1, <2>2 DEF WorkedOn, Holds
  <2>6. \A i \in Index : Queued(i)' <=> Queued(i)
    BY <2>1 DEF Queued, Queues
  <2> HIDE DEF j
  <2>7. WorkIsVisible'
    BY <2>1, <2>3, <2>4, <2>6 DEF WorkInv, WorkIsVisible, GetMissingPieces
  <2>8. ActiveIsWorkedOn'
    BY <2>1, <2>5 DEF WorkInv, ActiveIsWorkedOn, GetMissingPieces
  <2> QED  BY <2>7, <2>8 DEF WorkInv
<1>7. ASSUME NEW s \in Sessions, CheckHash(s) PROVE WorkInv'
  <2>1. PICK label \in {"verified", "mismatch"} : pc' = [pc EXCEPT ![s] = label]
    BY <1>7 DEF CheckHash
  <2> QED  BY <1>7, <2>1, SameHandsKeepWork
           DEF CheckHash, PcValues, queue_vars, file_vars, InProcessing
<1>8. ASSUME NEW s \in Sessions, SavePieceToDisk(s) PROVE WorkInv'
  <2>1. /\ pc' = [pc EXCEPT ![s] = "release"]
        /\ UNCHANGED <<queue, active_pieces, held, given_up>>
        /\ saved_pieces \subseteq saved_pieces'
        /\ IndexOf(held[s]) \in saved_pieces'
    BY <1>8 DEF SavePieceToDisk, queue_vars, file_vars
  <2> QED  BY <2>1, SameHandsKeepWork DEF PcValues
<1>9. ASSUME NEW s \in Sessions, ReturnPiece(s) PROVE WorkInv'
  <2>1. PICK label \in {"release", "returning"} :
          /\ pc' = [pc EXCEPT ![s] = label]
          /\ IndexOf(held[s]) \notin saved_pieces => label = "returning"
    BY <1>9 DEF ReturnPiece, IsPieceAlreadySaved
  <2> QED  BY <1>9, <2>1, SameHandsKeepWork
           DEF ReturnPiece, PcValues, queue_vars, file_vars, InProcessing
<1>10. ASSUME NEW s \in Sessions, PushReturnedPiece(s) PROVE WorkInv'
  <2> DEFINE j == IndexOf(held[s])
  <2>1. /\ pc' = [pc EXCEPT ![s] = "release"] /\ held[s] \in Object
        /\ active_pieces' = active_pieces \ {j}
        /\ UNCHANGED <<held, saved_pieces, given_up>>
    BY <1>10 DEF PushReturnedPiece, Holds, file_vars, TypeOK
  <2>2. /\ Len(queue) \in Nat
        /\ DOMAIN queue = 1 .. Len(queue)
        /\ DOMAIN queue' = 1 .. Len(queue) + 1
        /\ \A k \in 1 .. Len(queue) : queue'[k] = queue[k]
        /\ queue'[Len(queue) + 1] = held[s]
    BY <1>10, <2>1, LenProperties, AppendProperties DEF TypeOK, PushReturnedPiece
  <2>3. \A i \in Index : Queued(i) => Queued(i)'
    BY <2>2 DEF Queued, Queues
  <2>4. \A i : i = j => Queued(i)'
    <3>1. PICK n \in Copies : held[s] = <<j, n>>
      BY <2>1 DEF Object, IndexOf
    <3>2. Len(queue) + 1 \in DOMAIN queue'
      BY <2>2
    <3> HIDE DEF j
    <3> QED  BY <2>2, <3>1, <3>2 DEF Queued, Queues
  <2>5. \A t \in Sessions \ {s} : pc'[t] = pc[t]
    BY <2>1 DEF TypeOK
  <2>6. /\ \A i : i # j /\ WorkedOn(i, InProcessing) => WorkedOn(i, InProcessing)'
        /\ \A i : i # j /\ WorkedOn(i, {"run", "processing", "returning"})
                   => WorkedOn(i, {"run", "processing", "returning"})'
    BY <2>1, <2>5 DEF WorkedOn, Holds
  <2> HIDE DEF j
  <2>7. WorkIsVisible'
    BY <2>1, <2>3, <2>4, <2>6 DEF WorkInv, WorkIsVisible, GetMissingPieces
  <2>8. ActiveIsWorkedOn'
    BY <2>1, <2>6 DEF WorkInv, ActiveIsWorkedOn, GetMissingPieces
  <2> QED  BY <2>7, <2>8 DEF WorkInv
<1>11. CASE ForceRequeueMissingPieces
  <2> DEFINE fresh == {NewObject(i) : i \in GetMissingPieces}
  <2>1. \A i \in GetMissingPieces :
          NewObject(i) \in fresh /\ \E n \in Copies : NewObject(i) = <<i, n>>
    <3>1. \A i \in GetMissingPieces : NewObject(i) \in Object /\ IndexOf(NewObject(i)) = i
      BY <1>11, NewObjectIsFree DEF ForceRequeueMissingPieces, QueueAnew, GetMissingPieces
    <3> QED  BY <3>1 DEF Object, IndexOf
  <2>2. PICK n \in 0 .. PieceCount :
          /\ queue' \in [1 .. n -> fresh]
          /\ fresh \subseteq {queue'[k] : k \in 1 .. n}
    BY <1>11 DEF ForceRequeueMissingPieces, QueueAnew
  <2>3. UNCHANGED saved_pieces /\ active_pieces' = {}
    BY <1>11 DEF ForceRequeueMissingPieces, QueueAnew, file_vars
  <2> HIDE DEF fresh
  <2>4. \A i \in GetMissingPieces : Queued(i)'
    BY <2>1, <2>2 DEF Queued, Queues
  <2> QED  BY <2>3, <2>4 DEF WorkInv, WorkIsVisible, ActiveIsWorkedOn, GetMissingPieces
<1>12. CASE StopSessions \/ CloseOutputFile \/ UNCHANGED vars
  <2>1. UNCHANGED <<queue_vars, held, pc, saved_pieces, given_up>>
    BY <1>12 DEF StopSessions, CloseOutputFile, vars, file_vars
  <2> QED  BY <2>1 DEF WorkInv, WorkIsVisible, ActiveIsWorkedOn, GetMissingPieces,
                       Queued, Queues, WorkedOn, Holds, queue_vars
<1>13. ASSUME NEW s \in Sessions, ExitSession(s) PROVE WorkInv'
  BY <1>2, <1>13 DEF ExitSession, OwnershipInv, HandlersConsistent
<1>14. ASSUME NEW s \in Sessions, Release(s) PROVE WorkInv'
  BY <1>2, <1>14 DEF Release
<1>15. CASE GiveUp \/ RequeueThrows
  BY <1>15 DEF GiveUp, RequeueThrows, WorkInv, WorkIsVisible, ActiveIsWorkedOn
<1> QED
  BY <1>1, <1>3, <1>4, <1>5, <1>6, <1>7, <1>8, <1>9, <1>10, <1>11, <1>12,
     <1>13, <1>14, <1>15
  DEF Next, SessionStep, ControlStep

(* Whatever sessions fail, return pieces late, mismatch a hash or race with *)
(* a requeue, every unsaved piece that is waited for is queued or held by a session that will  *)
(* save it or put it back: no piece is ever forgotten.                      *)
THEOREM NoPieceIsLost == Spec => []NoPieceLost
<1>1. Spec => []OwnershipInv
  BY TypeCorrect, OwnershipInitially, OwnershipStep, PTL DEF Spec
<1>2. Spec => []WorkInv
  BY <1>1, TypeCorrect, WorkInitially, WorkStep, PTL DEF Spec
<1>3. WorkInv => NoPieceLost
  BY DEF WorkInv, WorkIsVisible, ActiveIsWorkedOn, NoPieceLost, WorkedOn, InProcessing
<1> QED  BY <1>2, <1>3, PTL

-----------------------------------------------------------------------------
(* DownloadMonitor.                                                         *)

(* The number of pieces in a set of indices, and when it is all of them.    *)
LEMMA PiecesCount ==
  ASSUME NEW S \in SUBSET Index
  PROVE  /\ Cardinality(S) \in 0 .. PieceCount
         /\ Cardinality(Index) = PieceCount
<1>1. IsFiniteSet(Index) /\ Cardinality(Index) = PieceCount
  BY FS_Interval, StorageAssumption DEF Index
<1>2. IsFiniteSet(S) /\ Cardinality(S) \in Nat /\ Cardinality(S) <= PieceCount
  BY <1>1, FS_Subset, FS_CardinalityType
<1> QED  BY <1>1, <1>2, StorageAssumption

(* Every step of the monitor, of its shutdown and of the sessions next to   *)
(* it is a step PieceStorage allows, or leaves the storage alone.           *)
THEOREM MonitorRunsStorage == MonitorSpec => Spec
<1>1. MonitorInit => Init
  BY DEF MonitorInit
<1>2. [MonitorNext]_mvars => [Next]_vars
  <2> SUFFICES ASSUME [MonitorNext]_mvars PROVE [Next]_vars
    OBVIOUS
  <2>1. ASSUME NEW s \in Sessions, StorageStep(s) PROVE Next
    BY <2>1 DEF StorageStep, Beside, Next
  <2>2. CASE MonitorStep
    BY <2>2 DEF MonitorStep, CheckComplete, ReadSavedCount, ReadMissingPieces,
       EnterEndgameMode, LookAtQueue, Requeue, BeginStop, JoinSessions,
       UpdateTaskAfterJoin, SetFinalStatus, Finish, CleanupComponents, Next, ControlStep
  <2>3. CASE RequeueIntervalPasses \/ Finished \/ UNCHANGED mvars
    BY <2>3 DEF RequeueIntervalPasses, Finished, mvars
  <2>4. CASE MonitorMay
    BY <2>4 DEF MonitorMay, PeersFound, NoPeersFound, WaitForCompletionThrows,
       RequeueFails, Next, ControlStep
  <2> QED  BY <2>1, <2>2, <2>3, <2>4 DEF MonitorNext
<1> QED  BY <1>1, <1>2, PTL DEF MonitorSpec, Spec

(* No piece is forgotten and no object is shared next to the real monitor,  *)
(* whose look at the queue and whose requeue are two separate steps.        *)
THEOREM MonitorLosesNoPiece == MonitorSpec => [](NoPieceLost /\ ExclusiveOwnership)
BY MonitorRunsStorage, NoPieceIsLost, OwnershipIsExclusive, PTL

(* And the file is assembled as promised: a piece is committed once at      *)
(* most, with verified bytes unless the disk fails; whichever way the wait  *)
(* for the pieces ended, nothing is written after the file is closed, and   *)
(* it is not closed while pieces are missing and waited for.                *)
THEOREM MonitorAssemblesFile == MonitorSpec => ImplementsFileAssembly
BY MonitorRunsStorage, ImplementsAssembly, PTL

(* The monitor's own variables keep their types, and what the screen counts *)
(* as saved is at most all there is.                                        *)
THEOREM MonitorTypeCorrect == MonitorSpec => []MonitorTypeOK
<1>1. MonitorInit => MonitorTypeOK
  <2> SUFFICES ASSUME MonitorInit PROVE MonitorTypeOK
    OBVIOUS
  <2>1. TypeOK
    BY TypeInitially DEF MonitorInit
  <2>2. 0 \in 0 .. PieceCount /\ {} \in SUBSET Index
    BY StorageAssumption
  <2>3. task \in [downloaded_pieces_count : 0 .. PieceCount,
                  missing_pieces : SUBSET Index]
    BY <2>2 DEF MonitorInit
  <2> QED  BY <2>1, <2>3 DEF MonitorInit, MonitorTypeOK
<1>2. TypeOK' /\ MonitorTypeOK /\ [MonitorNext]_mvars => MonitorTypeOK'
  <2> SUFFICES ASSUME TypeOK', MonitorTypeOK, [MonitorNext]_mvars
               PROVE  MonitorTypeOK'
    OBVIOUS
  <2>1. ASSUME UNCHANGED monitor_vars PROVE MonitorTypeOK'
    BY <2>1 DEF MonitorTypeOK, monitor_vars
  <2>2. CASE CheckComplete \/ UpdateTaskAfterJoin
    BY <2>2 DEF CheckComplete, UpdateTaskAfterJoin, UpdateTaskThen, MonitorTypeOK, Waiting
  <2>3. CASE ReadSavedCount
    <3>1. Cardinality(saved_pieces) \in 0 .. PieceCount
      BY PiecesCount DEF MonitorTypeOK, TypeOK
    <3> QED  BY <2>3, <3>1 DEF ReadSavedCount, MonitorTypeOK, Waiting
  <2>4. CASE ReadMissingPieces
    BY <2>4 DEF ReadMissingPieces, GetMissingPieces, MonitorTypeOK, Waiting
  <2>5. CASE EnterEndgameMode
    BY <2>5 DEF EnterEndgameMode, MonitorTypeOK, Waiting
  <2>6. CASE LookAtQueue \/ Requeue \/ JoinSessions \/ SetFinalStatus \/ Finish
               \/ CleanupComponents
    BY <2>6 DEF LookAtQueue, Requeue, JoinSessions, SetFinalStatus, Finish,
       CleanupComponents, MonitorTypeOK, Waiting
  <2>7. CASE MonitorMay
    BY <2>7 DEF MonitorMay, PeersFound, NoPeersFound, WaitForCompletionThrows,
       RequeueFails, MonitorTypeOK, Waiting
  <2>8. CASE RequeueIntervalPasses
    BY <2>8 DEF RequeueIntervalPasses, MonitorTypeOK
  <2>9. CASE BeginStop \/ Finished \/ UNCHANGED mvars
    BY <2>1, <2>9 DEF BeginStop, Finished, mvars
  <2>10. ASSUME NEW s \in Sessions, StorageStep(s) PROVE MonitorTypeOK'
    BY <2>1, <2>10 DEF StorageStep, Beside
  <2> QED  BY <2>2, <2>3, <2>4, <2>5, <2>6, <2>7, <2>8, <2>9, <2>10
           DEF MonitorNext, MonitorStep
<1> QED  BY <1>1, <1>2, MonitorRunsStorage, TypeCorrect, PTL DEF MonitorSpec

-----------------------------------------------------------------------------
(* How far the shutdown has come.  Without peers there is no session and    *)
(* nothing is saved.  Else the sessions are joined before the task is       *)
(* updated for the last time, so that what this update reads stays true,    *)
(* however the wait ended and whatever was saved by then.                   *)
LastUpdate == at \in {"count", "missing"} /\ after_update = "status"

AfterJoin == LastUpdate \/ at \in {"joined", "status", "close"} \cup Ended

NothingStarted ==
  /\ saved_pieces = {}
  /\ \A s \in Sessions : pc[s] = "stopped"

NoPeers == {"fetch", "cleanup", "no_peers"}

Counted == at = "missing" /\ LastUpdate

ShutdownInv ==
  /\ at \in NoPeers => NothingStarted
  /\ at \in {"cleanup", "no_peers"} => status = "error"
  /\ AfterJoin => stopping /\ \A s \in Sessions : pc[s] = "stopped"
  /\ Counted => task.downloaded_pieces_count = Cardinality(saved_pieces)
  /\ at \in {"status", "close", "finished"} =>
       task = [downloaded_pieces_count |-> Cardinality(saved_pieces),
               missing_pieces |-> GetMissingPieces]
  /\ at \in {"close", "finished"} =>
       status = IF IsDownloadComplete THEN "completed" ELSE "error"
  /\ at \in Ended => ~file_open

(* What a session reports at its end can be trusted, whether all was saved, *)
(* WaitForCompletion threw or no peer was found: no thread is left, the     *)
(* closed file holds exactly the verified pieces the last task shows as     *)
(* saved, unless the disk failed, and its status is the one of that task.   *)
THEOREM FinishedMeansAsReported == MonitorSpec => []FinishedIsAsReported
<1> USE DEF Waiting, Ended, NoPeers, AfterJoin, LastUpdate, Counted
<1>1. MonitorInit => ShutdownInv
  BY DEF MonitorInit, Init, ShutdownInv, NothingStarted
<1>2. ASSUME TypeOK, MonitorTypeOK, ShutdownInv, [MonitorNext]_mvars
      PROVE  ShutdownInv'
  <2>1. CASE UNCHANGED mvars
    BY <1>2, <2>1 DEF ShutdownInv, NothingStarted, IsDownloadComplete, GetMissingPieces,
       mvars, monitor_vars, vars, file_vars
  <2> DEFINE ToWaiting ==
               \/ at' \in {"check", "endgame", "queue", "requeue", "stop"}
               \/ at' \in {"count", "missing"} /\ after_update' # "status"
  <2>2. ToWaiting => ShutdownInv'
    BY DEF ShutdownInv
  <2>3. CASE PeersFound \/ CheckComplete \/ EnterEndgameMode \/ LookAtQueue
    <3>1. ToWaiting
      BY <1>2, <2>3 DEF PeersFound, CheckComplete, UpdateTaskThen, EnterEndgameMode,
         LookAtQueue
    <3> QED  BY <2>2, <3>1
  <2>4. CASE Requeue \/ WaitForCompletionThrows \/ RequeueFails
    <3>1. ToWaiting
      BY <2>4 DEF Requeue, WaitForCompletionThrows, RequeueFails
    <3> QED  BY <2>2, <3>1
  <2>5. CASE ReadSavedCount
    <3>1. /\ at = "count" /\ at' = "missing" /\ UNCHANGED <<vars, after_update>>
          /\ task'.downloaded_pieces_count = Cardinality(saved_pieces)
      BY <1>2, <2>5 DEF ReadSavedCount, MonitorTypeOK
    <3> QED  BY <1>2, <3>1 DEF ShutdownInv, vars, file_vars
  <2>6. CASE ReadMissingPieces
    <3>1. /\ at = "missing" /\ at' = after_update /\ UNCHANGED <<vars, after_update>>
          /\ task' = [task EXCEPT !.missing_pieces = GetMissingPieces]
      BY <2>6 DEF ReadMissingPieces
    <3>2. CASE after_update # "status"
      BY <1>2, <2>2, <3>1, <3>2 DEF MonitorTypeOK
    <3>3. CASE after_update = "status"
      <4>1. task' = [downloaded_pieces_count |-> Cardinality(saved_pieces),
                     missing_pieces |-> GetMissingPieces]
        BY <1>2, <3>1, <3>3 DEF ShutdownInv, MonitorTypeOK
      <4> QED  BY <1>2, <3>1, <3>3, <4>1 DEF ShutdownInv, GetMissingPieces, vars, file_vars
    <3> QED  BY <3>2, <3>3
  <2>7. CASE RequeueIntervalPasses
    BY <1>2, <2>7 DEF RequeueIntervalPasses, ShutdownInv, NothingStarted,
       IsDownloadComplete, GetMissingPieces, vars, file_vars
  <2>8. CASE NoPeersFound
    BY <1>2, <2>8 DEF NoPeersFound, GiveUp, ShutdownInv, NothingStarted, file_vars
  <2>9. CASE BeginStop
    BY <1>2, <2>9 DEF BeginStop, StopSessions, ShutdownInv, NothingStarted, monitor_vars,
       file_vars
  <2>10. CASE JoinSessions \/ UpdateTaskAfterJoin
    BY <1>2, <2>10 DEF JoinSessions, UpdateTaskAfterJoin, UpdateTaskThen, ShutdownInv,
       vars, file_vars
  <2>11. CASE SetFinalStatus
    BY <1>2, <2>11 DEF SetFinalStatus, ShutdownInv, IsDownloadComplete, GetMissingPieces,
       vars, file_vars
  <2>12. CASE Finish
    BY <1>2, <2>12 DEF Finish, CloseOutputFile, ShutdownInv, IsDownloadComplete,
       GetMissingPieces
  <2>13. CASE CleanupComponents
    BY <1>2, <2>13 DEF CleanupComponents, CloseOutputFile, ShutdownInv, NothingStarted
  <2>14. ASSUME NEW s \in Sessions, StorageStep(s) PROVE ShutdownInv'
    <3>1. UNCHANGED <<monitor_vars, stopping, file_open>> /\ at \notin {"fetch", "cleanup"}
      BY <2>14 DEF StorageStep, Beside, SessionStep, StartSession, ExitSession,
         GetNextPieceToDownload, RequestBlock, ReceiveBlock, StoreBlock, PieceProcessed,
         CheckHash, SavePieceToDisk, ReturnPiece, PushReturnedPiece, Release, file_vars
    <3>2. stopping /\ pc[s] = "stopped" => FALSE
      BY <2>14 DEF StorageStep, Beside, SessionStep, StartSession, ExitSession,
         GetNextPieceToDownload, RequestBlock, ReceiveBlock, StoreBlock, PieceProcessed,
         CheckHash, SavePieceToDisk, ReturnPiece, PushReturnedPiece, Release, Holding
    <3>3. ~AfterJoin
      BY <1>2, <2>14, <3>2 DEF ShutdownInv
    <3> QED  BY <3>1, <3>3 DEF ShutdownInv, monitor_vars
  <2> QED
    BY <1>2, <2>1, <2>3, <2>4, <2>5, <2>6, <2>7, <2>8, <2>9, <2>10, <2>11, <2>12, <2>13,
       <2>14
    DEF MonitorNext, MonitorStep, MonitorMay, Finished
<1>3. TypeOK /\ HandlersConsistent /\ FileIntegrity /\ ShutdownInv => FinishedIsAsReported
  <2> SUFFICES ASSUME TypeOK, HandlersConsistent, FileIntegrity, ShutdownInv
               PROVE  FinishedIsAsReported
    OBVIOUS
  <2>1. ASSUME at \in Ended
        PROVE  /\ \A s \in Sessions : pc[s] = "stopped" /\ ~Holds(s)
               /\ ~file_open
               /\ IsDownloadComplete \/ given_up
    BY <2>1 DEF HandlersConsistent, ShutdownInv
  <2>2. stream_ok => \A i \in Index :
                      output_file[i] = IF i \in saved_pieces THEN "good" ELSE "zero"
    BY DEF FileIntegrity
  <2>3. at = "no_peers" => status = "error" /\ saved_pieces = {}
    BY DEF ShutdownInv, NothingStarted
  <2> QED  BY <2>1, <2>2, <2>3 DEF FinishedIsAsReported, ShutdownInv
<1>4. Spec => []HandlersConsistent
  <2>1. OwnershipInv => HandlersConsistent
    BY DEF OwnershipInv
  <2> QED  BY <2>1, TypeCorrect, OwnershipInitially, OwnershipStep, PTL DEF Spec
<1>5. TypeOK /\ MonitorTypeOK /\ ShutdownInv /\ [MonitorNext]_mvars => ShutdownInv'
  BY <1>2
<1> QED  BY <1>1, <1>3, <1>4, <1>5, MonitorRunsStorage, MonitorTypeCorrect,
            TypeCorrect, FileStaysIntact, PTL DEF MonitorSpec

-----------------------------------------------------------------------------
(* What a session's step does to where pieces are.  A session works on a    *)
(* piece from the moment it takes it until it is done with it.              *)
Works(s) == Holds(s) /\ pc[s] # "release"

Workers == {s \in Sessions : Works(s)}

Others(s) == \A t \in Sessions \ {s} : held'[t] = held[t] /\ pc'[t] = pc[t]

Takes(s) ==
  /\ queue # <<>> /\ queue' = Tail(queue) /\ saved_pieces' = saved_pieces
  /\ ~Works(s) /\ Works(s)' /\ held'[s] = Head(queue) /\ Others(s)

PutsBack(s) ==
  /\ queue' = Append(queue, held[s]) /\ saved_pieces' = saved_pieces
  /\ Works(s) /\ ~Works(s)' /\ Others(s)

Saves(s) ==
  /\ queue' = queue /\ saved_pieces' = saved_pieces \cup {IndexOf(held[s])}
  /\ Works(s) /\ ~Works(s)' /\ Others(s)

Keeps(s) ==
  /\ queue' = queue /\ saved_pieces' = saved_pieces
  /\ Works(s)' => Works(s) /\ held'[s] = held[s]
  /\ Others(s)

LEMMA WhatSessionsDo ==
  ASSUME TypeOK, NEW s \in Sessions, SessionStep(s)
  PROVE  Takes(s) \/ PutsBack(s) \/ Saves(s) \/ Keeps(s)
<1> USE DEF Holds, Works, Others, Holding, Goto
<1>1. CASE StartSession(s)
  BY <1>1 DEF StartSession, Keeps, TypeOK, queue_vars, file_vars
<1>2. CASE ExitSession(s) \/ Release(s)
  BY <1>2 DEF ExitSession, Release, DropPointer, Keeps, TypeOK, queue_vars, file_vars
<1>3. CASE GetNextPieceToDownload(s)
  <2>1. Head(queue) \in Object /\ Head(queue) # NoPiece
    BY <1>3, StorageAssumption DEF GetNextPieceToDownload, TypeOK
  <2> QED  BY <1>3, <2>1 DEF GetNextPieceToDownload, Takes, TypeOK, file_vars
<1>4. CASE RequestBlock(s) \/ ReceiveBlock(s)
  BY <1>4 DEF RequestBlock, ReceiveBlock, StoreBlock, Keeps, TypeOK, queue_vars, file_vars
<1>5. CASE PieceProcessed(s) \/ CheckHash(s)
  BY <1>5 DEF PieceProcessed, CheckHash, Keeps, TypeOK, queue_vars, file_vars
<1>6. CASE SavePieceToDisk(s)
  BY <1>6 DEF SavePieceToDisk, Saves, TypeOK, queue_vars, file_vars
<1>7. CASE ReturnPiece(s)
  BY <1>7 DEF ReturnPiece, Keeps, TypeOK, queue_vars, file_vars
<1>8. CASE PushReturnedPiece(s)
  BY <1>8 DEF PushReturnedPiece, PutsBack, TypeOK, file_vars
<1> QED  BY <1>1, <1>2, <1>3, <1>4, <1>5, <1>6, <1>7, <1>8 DEF SessionStep

(* The monitor's steps leave all of it alone, except the requeue, also when *)
(* that throws half way.                                                    *)
Requeues == Requeue \/ RequeueFails

LEMMA WhatTheMonitorDoes ==
  ASSUME [MonitorNext]_mvars
  PROVE  \/ \E s \in Sessions : SessionStep(s) /\ UNCHANGED monitor_vars
         \/ Requeues
         \/ UNCHANGED <<queue, saved_pieces, held, pc>>
<1>1. CASE MonitorStep
  BY <1>1 DEF Requeues, MonitorStep, CheckComplete, ReadSavedCount, ReadMissingPieces,
     EnterEndgameMode, LookAtQueue, BeginStop, StopSessions, JoinSessions,
     UpdateTaskAfterJoin, SetFinalStatus, Finish, CleanupComponents, CloseOutputFile,
     vars, queue_vars, file_vars
<1>2. CASE RequeueIntervalPasses \/ Finished \/ UNCHANGED mvars
  BY <1>2 DEF RequeueIntervalPasses, Finished, mvars, vars, queue_vars, file_vars
<1>3. ASSUME NEW s \in Sessions, StorageStep(s)
      PROVE  SessionStep(s) /\ UNCHANGED monitor_vars
  BY <1>3 DEF StorageStep, Beside
<1>4. CASE MonitorMay
  BY <1>4 DEF Requeues, MonitorMay, PeersFound, NoPeersFound, WaitForCompletionThrows,
     GiveUp, vars, queue_vars, file_vars
<1> QED  BY <1>1, <1>2, <1>3, <1>4 DEF MonitorNext

(* No step forgets that a piece is saved.                                   *)
LEMMA SavedPiecesGrow ==
  ASSUME TypeOK, [MonitorNext]_mvars
  PROVE  saved_pieces \subseteq saved_pieces'
<1>1. ASSUME NEW s \in Sessions, SessionStep(s) PROVE saved_pieces \subseteq saved_pieces'
  BY <1>1, WhatSessionsDo DEF Takes, PutsBack, Saves, Keeps
<1>2. CASE Requeues
  BY <1>2 DEF Requeues, Requeue, ForceRequeueMissingPieces, RequeueFails, RequeueThrows,
     QueueAnew, file_vars
<1> QED  BY <1>1, <1>2, WhatTheMonitorDoes

-----------------------------------------------------------------------------
(* The counts the user interface shows, read in two critical sections.      *)
LEMMA MissingCount ==
  ASSUME NEW S \in SUBSET Index
  PROVE  Cardinality(Index \ S) = PieceCount - Cardinality(S)
<1>1. IsFiniteSet(Index) /\ IsFiniteSet(S)
  <2>1. IsFiniteSet(Index)
    BY FS_Interval, StorageAssumption DEF Index
  <2> QED  BY <2>1, FS_Subset
<1>2. Cardinality(Index \ S) = Cardinality(Index) - Cardinality(Index \cap S)
  BY <1>1, FS_Difference
<1>3. Index \cap S = S
  OBVIOUS
<1> QED  BY <1>2, <1>3, PiecesCount

LEMMA MoreIsSaved ==
  ASSUME TypeOK, TypeOK', [MonitorNext]_mvars
  PROVE  Cardinality(saved_pieces) <= Cardinality(saved_pieces')
<1>1. IsFiniteSet(saved_pieces')
  <2>1. IsFiniteSet(Index)
    BY FS_Interval, StorageAssumption DEF Index
  <2> QED  BY <2>1, FS_Subset DEF TypeOK
<1> QED  BY <1>1, SavedPiecesGrow, FS_Subset

Shown == at # "missing" /\ (given_up => at \in {"status", "close", "finished"})

(* Outside of an update the task claims no piece both as saved and as       *)
(* missing, and never more than is saved, although sessions save pieces     *)
(* between the two looks at the storage.                                    *)
THEOREM TaskStaysCoherent == MonitorSpec => []TaskIsCoherent
<1>1. MonitorInit => TaskIsCoherent
  BY FS_EmptySet, StorageAssumption DEF MonitorInit, Init, TaskIsCoherent
<1>2. ASSUME TypeOK, TypeOK', MonitorTypeOK, TaskIsCoherent, [MonitorNext]_mvars
      PROVE  TaskIsCoherent'
  <2>1. /\ Cardinality(saved_pieces) <= Cardinality(saved_pieces')
        /\ Cardinality(saved_pieces) \in Nat /\ Cardinality(saved_pieces') \in Nat
    BY <1>2, MoreIsSaved, PiecesCount DEF TypeOK
  <2>2. /\ task.downloaded_pieces_count \in Nat
        /\ task'.downloaded_pieces_count \in Nat \/ ~ReadSavedCount
    BY <1>2, <2>1 DEF MonitorTypeOK, ReadSavedCount
  <2>3. CASE ReadSavedCount
    <3>1. /\ task'.downloaded_pieces_count = Cardinality(saved_pieces)
          /\ saved_pieces' = saved_pieces /\ at' = "missing"
      BY <1>2, <2>3 DEF ReadSavedCount, MonitorTypeOK, vars, file_vars
    <3> QED  BY <2>1, <3>1 DEF TaskIsCoherent
  <2>4. CASE ReadMissingPieces
    <3>1. /\ task'.downloaded_pieces_count = task.downloaded_pieces_count
          /\ task'.missing_pieces = Index \ saved_pieces
          /\ saved_pieces' = saved_pieces
      BY <1>2, <2>4 DEF ReadMissingPieces, MonitorTypeOK, GetMissingPieces, vars, file_vars
    <3>2. Cardinality(Index \ saved_pieces) = PieceCount - Cardinality(saved_pieces)
      BY <1>2, MissingCount DEF TypeOK
    <3> QED  BY <1>2, <2>1, <2>2, <3>1, <3>2, StorageAssumption DEF TaskIsCoherent
  <2>5. ASSUME UNCHANGED task, Shown' => Shown PROVE TaskIsCoherent'
    BY <1>2, <2>1, <2>2, <2>5 DEF TaskIsCoherent, Shown
  <2>6. CASE MonitorStep /\ ~ReadSavedCount /\ ~ReadMissingPieces
    BY <2>5, <2>6 DEF MonitorStep, CheckComplete, EnterEndgameMode, LookAtQueue, Requeue,
       ForceRequeueMissingPieces, BeginStop, StopSessions, JoinSessions,
       UpdateTaskAfterJoin, UpdateTaskThen, SetFinalStatus, Finish, CleanupComponents,
       CloseOutputFile, monitor_vars, vars, Shown
  <2>7. CASE MonitorMay
    BY <2>5, <2>7 DEF MonitorMay, PeersFound, NoPeersFound, WaitForCompletionThrows,
       RequeueFails, GiveUp, RequeueThrows, vars, Shown
  <2>8. CASE RequeueIntervalPasses \/ Finished \/ UNCHANGED mvars
    BY <2>5, <2>8 DEF RequeueIntervalPasses, Finished, mvars, monitor_vars, vars, Shown
  <2>9. ASSUME NEW s \in Sessions, StorageStep(s) PROVE TaskIsCoherent'
    <3>1. UNCHANGED given_up
      BY <2>9 DEF StorageStep, Beside, SessionStep, StartSession, ExitSession,
         GetNextPieceToDownload, RequestBlock, ReceiveBlock, StoreBlock, PieceProcessed,
         CheckHash, SavePieceToDisk, ReturnPiece, PushReturnedPiece, Release
    <3> QED  BY <2>5, <2>9, <3>1 DEF StorageStep, Beside, monitor_vars, Shown
  <2> QED  BY <1>2, <2>3, <2>4, <2>6, <2>7, <2>8, <2>9 DEF MonitorNext
<1>3. TypeOK /\ TypeOK' /\ MonitorTypeOK /\ TaskIsCoherent /\ [MonitorNext]_mvars
        => TaskIsCoherent'
  BY <1>2
<1> QED  BY <1>1, <1>3, MonitorRunsStorage, MonitorTypeCorrect, TypeCorrect, PTL
         DEF MonitorSpec

-----------------------------------------------------------------------------
(* How much work there is at once.                                          *)
LEMMA WorkersCount ==
  /\ IsFiniteSet(Workers) /\ Cardinality(Workers) \in Nat
  /\ Cardinality(Workers) <= Cardinality(Sessions)
<1>1. Workers \subseteq Sessions
  BY DEF Workers
<1> QED  BY <1>1, MonitorAssumption, FS_Subset, FS_CardinalityType DEF MonitorAssumption

LEMMA WorkersChange ==
  ASSUME NEW s \in Sessions, Others(s)
  PROVE  /\ Works(s) /\ ~Works(s)' => Cardinality(Workers') = Cardinality(Workers) - 1
         /\ ~Works(s) /\ Works(s)' => Cardinality(Workers') = Cardinality(Workers) + 1
         /\ (Works(s)' => Works(s)) => Cardinality(Workers') <= Cardinality(Workers)
<1>1. \A t \in Sessions \ {s} : Works(t)' <=> Works(t)
  BY DEF Others, Works, Holds
<1>2. ASSUME Works(s), ~Works(s)'
      PROVE  Cardinality(Workers') = Cardinality(Workers) - 1
  <2>1. Workers' = Workers \ {s} /\ s \in Workers
    BY <1>1, <1>2 DEF Workers
  <2> QED  BY <2>1, WorkersCount, FS_RemoveElement
<1>3. ASSUME ~Works(s), Works(s)'
      PROVE  Cardinality(Workers') = Cardinality(Workers) + 1
  <2>1. Workers' = Workers \cup {s} /\ s \notin Workers
    BY <1>1, <1>3 DEF Workers
  <2> QED  BY <2>1, WorkersCount, FS_AddElement
<1>4. ASSUME Works(s)' => Works(s)
      PROVE  Cardinality(Workers') <= Cardinality(Workers)
  <2>1. Workers' \in SUBSET Workers
    BY <1>1, <1>4 DEF Workers
  <2> QED  BY <2>1, WorkersCount, FS_Subset
<1> QED  BY <1>2, <1>3, <1>4

FewMissing == endgame_mode => Cardinality(GetMissingPieces) <= EndgameThreshold

FewObjects == Len(queue) + Cardinality(Workers) <= PieceCount + Cardinality(Sessions)

(* Endgame begins with few missing pieces, and with fewer ever after: the   *)
(* count was taken without the lock of the queue, but only falls.  A        *)
(* requeue makes new objects for pieces that are held; those in use and in  *)
(* the queue stay at most one per piece and one per session.                *)
THEOREM EndgameStaysSmall == MonitorSpec => []EndgameIsSmall
<1>1. MonitorInit => FewObjects /\ ~endgame_mode
  <2> SUFFICES ASSUME MonitorInit PROVE FewObjects /\ ~endgame_mode
    OBVIOUS
  <2>1. Len(queue) = PieceCount
    BY StorageAssumption DEF MonitorInit, Init
  <2>2. Cardinality(Sessions) \in Nat
    BY MonitorAssumption, FS_CardinalityType DEF MonitorAssumption
  <2> QED  BY <2>1, <2>2, WorkersCount, StorageAssumption DEF MonitorInit, FewObjects
<1>2. ASSUME TypeOK, TypeOK', FewObjects, [MonitorNext]_mvars
      PROVE  FewObjects'
  <2> USE DEF FewObjects
  <2>1. /\ Cardinality(Sessions) \in Nat /\ Cardinality(Workers) \in Nat
        /\ Cardinality(Workers') \in Nat /\ Cardinality(Workers') <= Cardinality(Sessions)
        /\ Len(queue) \in Nat /\ Len(queue') \in Nat /\ PieceCount \in Nat
    <3>1. Cardinality(Sessions) \in Nat
      BY MonitorAssumption, FS_CardinalityType DEF MonitorAssumption
    <3>2. /\ Cardinality(Workers') \in Nat
          /\ Cardinality(Workers') <= Cardinality(Sessions)
      <4>1. Workers' \subseteq Sessions
        BY DEF Workers
      <4> QED  BY <4>1, MonitorAssumption, FS_Subset, FS_CardinalityType
               DEF MonitorAssumption
    <3> QED  BY <1>2, <3>1, <3>2, WorkersCount, StorageAssumption DEF TypeOK
  <2>2. ASSUME NEW s \in Sessions, SessionStep(s) PROVE FewObjects'
    <3>1. CASE Takes(s)
      <4>1. Len(queue') = Len(queue) - 1
        BY <1>2, <3>1 DEF Takes, TypeOK
      <4> QED  BY <1>2, <2>1, <3>1, <4>1, WorkersChange DEF Takes
    <3>2. CASE PutsBack(s)
      <4>1. Len(queue') = Len(queue) + 1
        BY <1>2, <3>2 DEF PutsBack, TypeOK
      <4> QED  BY <1>2, <2>1, <3>2, <4>1, WorkersChange DEF PutsBack
    <3>3. CASE Saves(s)
      BY <1>2, <2>1, <3>3, WorkersChange DEF Saves
    <3>4. CASE Keeps(s)
      BY <1>2, <2>1, <3>4, WorkersChange DEF Keeps
    <3> QED  BY <1>2, <2>2, <3>1, <3>2, <3>3, <3>4, WhatSessionsDo
  <2>3. CASE Requeues
    <3>0. PICK S : QueueAnew(S)
      BY <2>3 DEF Requeues, Requeue, ForceRequeueMissingPieces, RequeueFails, RequeueThrows
    <3>1. PICK n \in 0 .. PieceCount : \E q \in [1 .. n -> {NewObject(i) : i \in S}] : queue' = q
      BY <3>0 DEF QueueAnew
    <3>2. Len(queue') = n
      <4>1. DOMAIN queue' = 1 .. n
        BY <3>1
      <4> QED  BY <1>2, <4>1, LenProperties, StorageAssumption DEF TypeOK
    <3> QED  BY <2>1, <3>2
  <2>4. CASE UNCHANGED <<queue, saved_pieces, held, pc>>
    BY <1>2, <2>4 DEF Workers, Works, Holds
  <2> QED  BY <1>2, <2>2, <2>3, <2>4, WhatTheMonitorDoes
<1>3. ASSUME TypeOK, TypeOK', FewMissing, [MonitorNext]_mvars
      PROVE  FewMissing'
  <2>1. Cardinality(GetMissingPieces') <= Cardinality(GetMissingPieces)
    <3>1. IsFiniteSet(Index)
      BY FS_Interval, StorageAssumption DEF Index
    <3>2. IsFiniteSet(GetMissingPieces)
      BY <3>1, FS_Subset DEF GetMissingPieces
    <3>3. GetMissingPieces' \in SUBSET GetMissingPieces
      BY <1>3, SavedPiecesGrow DEF GetMissingPieces
    <3> QED  BY <3>2, <3>3, FS_Subset
  <2>2. Cardinality(GetMissingPieces) \in Nat /\ Cardinality(GetMissingPieces') \in Nat
    BY <1>3, PiecesCount DEF GetMissingPieces
  <2>3. endgame_mode' =>
          endgame_mode \/ Cardinality(GetMissingPieces) <= EndgameThreshold
    BY <1>3 DEF MonitorNext, MonitorStep, MonitorMay, StorageStep, Beside, CheckComplete,
       EnterEndgameMode, LookAtQueue, Requeue, RequeueIntervalPasses, BeginStop,
       JoinSessions, ReadSavedCount, ReadMissingPieces, UpdateTaskAfterJoin,
       SetFinalStatus, Finish, CleanupComponents, PeersFound, NoPeersFound,
       WaitForCompletionThrows, RequeueFails, Finished, mvars, monitor_vars
  <2> QED  BY <1>3, <2>1, <2>2, <2>3, MonitorAssumption DEF MonitorAssumption, FewMissing
<1>4. TypeOK /\ TypeOK' /\ FewObjects /\ [MonitorNext]_mvars => FewObjects'
  BY <1>2
<1>5. TypeOK /\ TypeOK' /\ FewMissing /\ [MonitorNext]_mvars => FewMissing'
  BY <1>3
<1>6. FewObjects /\ FewMissing => EndgameIsSmall
  BY DEF FewObjects, FewMissing, EndgameIsSmall, Workers, Works
<1>7. ~endgame_mode => FewMissing
  BY DEF FewMissing
<1> QED  BY <1>1, <1>4, <1>5, <1>6, <1>7, MonitorRunsStorage, TypeCorrect, PTL DEF MonitorSpec
-----------------------------------------------------------------------------
(* Where a piece is, as long as nothing has been requeued: the places do    *)
(* not overlap.  That there is one for each piece is NoPieceLost.           *)
Apart ==
  /\ \A j, k \in DOMAIN queue : IndexOf(queue[j]) = IndexOf(queue[k]) => j = k
  /\ \A s, t \in Sessions :
       Works(s) /\ Works(t) /\ IndexOf(held[s]) = IndexOf(held[t]) => s = t
  /\ \A s \in Sessions, k \in DOMAIN queue :
       Works(s) => IndexOf(held[s]) # IndexOf(queue[k])
  /\ \A k \in DOMAIN queue : IndexOf(queue[k]) \notin saved_pieces
  /\ \A s \in Sessions : Works(s) => IndexOf(held[s]) \notin saved_pieces

ApartInv ==
  /\ at \in {"queue", "requeue"} => endgame_mode
  /\ ~endgame_mode => Apart

LEMMA SessionsStayApart ==
  ASSUME TypeOK, NEW s \in Sessions, SessionStep(s), Apart
  PROVE  Apart'
<1>1. CASE Takes(s)
  <2>1. /\ Len(queue) \in Nat \ {0} /\ DOMAIN queue = 1 .. Len(queue)
        /\ Head(queue) = queue[1] /\ 1 \in DOMAIN queue
        /\ \A k \in DOMAIN queue' :
             k \in Nat /\ k + 1 \in DOMAIN queue /\ queue'[k] = queue[k + 1]
    BY <1>1, EmptySeq, LenProperties, HeadTailProperties DEF Takes, TypeOK
  <2>2. \A k \in DOMAIN queue' : k + 1 # 1
    BY <2>1
  <2>3. \A j, k \in DOMAIN queue' : j + 1 = k + 1 => j = k
    BY <2>1
  <2>4. /\ held'[s] = queue[1] /\ saved_pieces' = saved_pieces /\ ~Works(s)
        /\ \A t \in Sessions : t # s => held'[t] = held[t] /\ (Works(t)' <=> Works(t))
    BY <1>1, <2>1 DEF Takes, Others, Works, Holds
  <2>5. \A j, k \in DOMAIN queue' : IndexOf(queue'[j]) = IndexOf(queue'[k]) => j = k
    BY <2>1, <2>3 DEF Apart
  <2>6. \A t, u \in Sessions :
          Works(t)' /\ Works(u)' /\ IndexOf(held'[t]) = IndexOf(held'[u]) => t = u
    BY <2>1, <2>4 DEF Apart
  <2>7. \A t \in Sessions, k \in DOMAIN queue' :
          Works(t)' => IndexOf(held'[t]) # IndexOf(queue'[k])
    BY <2>1, <2>2, <2>4 DEF Apart
  <2>8. /\ \A k \in DOMAIN queue' : IndexOf(queue'[k]) \notin saved_pieces'
        /\ \A t \in Sessions : Works(t)' => IndexOf(held'[t]) \notin saved_pieces'
    BY <2>1, <2>4 DEF Apart
  <2> QED  BY <2>5, <2>6, <2>7, <2>8 DEF Apart, IndexOf
<1>2. CASE PutsBack(s)
  <2>1. held[s] \in Object
    BY <1>2 DEF PutsBack, Works, Holds, TypeOK
  <2>2. /\ Len(queue) \in Nat /\ DOMAIN queue = 1 .. Len(queue)
        /\ DOMAIN queue' = 1 .. Len(queue) + 1
        /\ \A k \in DOMAIN queue : queue'[k] = queue[k]
        /\ queue'[Len(queue) + 1] = held[s]
    BY <1>2, <2>1, LenProperties, AppendProperties DEF PutsBack, TypeOK
  <2>3. \A k \in DOMAIN queue' : k \in DOMAIN queue \/ k = Len(queue) + 1
    BY <2>2
  <2>4. /\ Works(s) /\ ~Works(s)' /\ saved_pieces' = saved_pieces
        /\ \A t \in Sessions : t # s => held'[t] = held[t] /\ (Works(t)' <=> Works(t))
    BY <1>2 DEF PutsBack, Others, Works, Holds
  <2>5. \A j, k \in DOMAIN queue' : IndexOf(queue'[j]) = IndexOf(queue'[k]) => j = k
    BY <2>2, <2>3, <2>4 DEF Apart
  <2>6. \A t, u \in Sessions :
          Works(t)' /\ Works(u)' /\ IndexOf(held'[t]) = IndexOf(held'[u]) => t = u
    BY <2>4 DEF Apart
  <2>7. \A t \in Sessions, k \in DOMAIN queue' :
          Works(t)' => IndexOf(held'[t]) # IndexOf(queue'[k])
    BY <2>2, <2>3, <2>4 DEF Apart
  <2>8. /\ \A k \in DOMAIN queue' : IndexOf(queue'[k]) \notin saved_pieces'
        /\ \A t \in Sessions : Works(t)' => IndexOf(held'[t]) \notin saved_pieces'
    BY <2>2, <2>3, <2>4 DEF Apart
  <2> QED  BY <2>5, <2>6, <2>7, <2>8 DEF Apart, IndexOf
<1>3. CASE Saves(s) \/ Keeps(s)
  <2>1. /\ queue' = queue
        /\ \A t \in Sessions : Works(t)' => Works(t) /\ held'[t] = held[t]
    BY <1>3 DEF Saves, Keeps, Others, Works, Holds
  <2>2. /\ \A t, u \in Sessions :
             Works(t)' /\ Works(u)' /\ IndexOf(held'[t]) = IndexOf(held'[u]) => t = u
        /\ \A t \in Sessions, k \in DOMAIN queue' :
             Works(t)' => IndexOf(held'[t]) # IndexOf(queue'[k])
    BY <2>1 DEF Apart
  <2>3. /\ \A k \in DOMAIN queue' : IndexOf(queue'[k]) \notin saved_pieces'
        /\ \A t \in Sessions : Works(t)' => IndexOf(held'[t]) \notin saved_pieces'
    <3>1. CASE Saves(s)
      BY <2>1, <3>1 DEF Saves, Apart
    <3>2. CASE Keeps(s)
      BY <2>1, <3>2 DEF Keeps, Apart
    <3> QED  BY <1>3, <3>1, <3>2
  <2> QED  BY <2>1, <2>2, <2>3 DEF Apart, IndexOf
<1> QED  BY <1>1, <1>2, <1>3, WhatSessionsDo

LEMMA ApartInitially ==
  ASSUME MonitorInit
  PROVE  ApartInv
<1>1. \A k \in DOMAIN queue : k \in 1 .. PieceCount /\ IndexOf(queue[k]) = k - 1
  BY DEF MonitorInit, Init, IndexOf
<1>2. \A s \in Sessions : ~Works(s)
  BY DEF MonitorInit, Init, Works, Holds
<1>3. \A j, k \in DOMAIN queue : IndexOf(queue[j]) = IndexOf(queue[k]) => j = k
  BY <1>1, StorageAssumption
<1>4. saved_pieces = {} /\ at = "fetch"
  BY DEF MonitorInit, Init
<1> QED  BY <1>2, <1>3, <1>4 DEF ApartInv, Apart

LEMMA ApartStep ==
  ASSUME TypeOK, MonitorTypeOK, ApartInv, [MonitorNext]_mvars
  PROVE  ApartInv'
<1>1. /\ at' \in {"queue", "requeue"} => endgame_mode'
      /\ endgame_mode => endgame_mode'
  BY DEF ApartInv, MonitorNext, MonitorStep, MonitorMay, StorageStep, Beside,
     CheckComplete, EnterEndgameMode, LookAtQueue, Requeue, RequeueIntervalPasses,
     BeginStop, JoinSessions, ReadSavedCount, ReadMissingPieces, UpdateTaskAfterJoin,
     UpdateTaskThen, SetFinalStatus, Finish, CleanupComponents, PeersFound, NoPeersFound,
     WaitForCompletionThrows, RequeueFails, Finished, mvars, monitor_vars, MonitorTypeOK
<1>2. ASSUME ~endgame_mode'
      PROVE  Apart'
  <2>1. Apart
    BY <1>1, <1>2 DEF ApartInv
  <2>2. CASE \E s \in Sessions : SessionStep(s) /\ UNCHANGED monitor_vars
    BY <2>1, <2>2, SessionsStayApart
  <2>3. CASE Requeues
    BY <1>1, <1>2, <2>3 DEF Requeues, Requeue, RequeueFails, ApartInv
  <2>4. CASE UNCHANGED <<queue, saved_pieces, held, pc>>
    BY <2>1, <2>4 DEF Apart, Works, Holds
  <2> QED  BY <2>2, <2>3, <2>4, WhatTheMonitorDoes
<1> QED  BY <1>1, <1>2 DEF ApartInv

(* Until endgame no piece is downloaded twice: each is in one place, saved, *)
(* queued once or with one session, and in one exactly as long as RunSession*)
(* waits for it.                                                            *)
THEOREM NothingIsDownloadedTwice == MonitorSpec => []NoDuplicateWork
<1>1. ASSUME TypeOK, HandlersConsistent, NoPieceLost, ApartInv, ~endgame_mode,
             NEW i \in Index
      PROVE  Places(i) <= 1 /\ (~given_up => Places(i) = 1)
  <2> DEFINE K == {k \in DOMAIN queue : IndexOf(queue[k]) = i}
             S == {s \in Sessions : \E o \in Object : Owns(s, o) /\ IndexOf(o) = i}
  <2>1. S = {s \in Sessions : Works(s) /\ IndexOf(held[s]) = i}
    BY <1>1, StorageAssumption DEF TypeOK, Owns, Works, Holds
  <2>2. Apart
    BY <1>1 DEF ApartInv
  <2>3. \A k \in K, l \in K : k = l
    BY <2>2 DEF Apart
  <2>4. \A s \in S, t \in S : s = t
    BY <2>1, <2>2 DEF Apart
  <2>5. K = {} \/ S = {}
    BY <2>1, <2>2 DEF Apart
  <2>6. i \in saved_pieces => K = {} /\ S = {}
    BY <2>1, <2>2 DEF Apart
  <2>7. i \notin saved_pieces /\ ~given_up => K # {} \/ S # {}
    <3>1. CASE Queued(i)
      BY <3>1 DEF Queued, Queues, IndexOf
    <3>2. CASE WorkedOn(i, {"run", "processing"} \cup InProcessing)
      BY <2>1, <3>2 DEF WorkedOn, InProcessing, Works
    <3> QED  BY <1>1, <3>1, <3>2 DEF NoPieceLost, GetMissingPieces
  <2> HIDE DEF K, S
  <2>8. K = {} \/ \E k : K = {k}
    BY <2>3
  <2>9. S = {} \/ \E s : S = {s}
    BY <2>4
  <2>10. (Cardinality(K) = 0 \/ Cardinality(K) = 1) /\ (K = {} <=> Cardinality(K) = 0)
    BY <2>8, FS_EmptySet, FS_Singleton
  <2>11. (Cardinality(S) = 0 \/ Cardinality(S) = 1) /\ (S = {} <=> Cardinality(S) = 0)
    BY <2>9, FS_EmptySet, FS_Singleton
  <2> DEFINE places == Cardinality(K) + Cardinality(S) + (IF i \in saved_pieces THEN 1 ELSE 0)
  <2>12. places <= 1 /\ (~given_up => places = 1)
    BY <2>5, <2>6, <2>7, <2>10, <2>11
  <2> QED  BY <2>12 DEF K, S, Places
<1>2. TypeOK /\ HandlersConsistent /\ NoPieceLost /\ ApartInv => NoDuplicateWork
  BY <1>1 DEF NoDuplicateWork
<1>3. Spec => []HandlersConsistent
  <2>1. OwnershipInv => HandlersConsistent
    BY DEF OwnershipInv
  <2> QED  BY <2>1, TypeCorrect, OwnershipInitially, OwnershipStep, PTL DEF Spec
<1>4. MonitorInit => ApartInv
  BY ApartInitially
<1>5. TypeOK /\ MonitorTypeOK /\ ApartInv /\ [MonitorNext]_mvars => ApartInv'
  BY ApartStep
<1> QED  BY <1>2, <1>3, <1>4, <1>5, MonitorRunsStorage, MonitorTypeCorrect, TypeCorrect, NoPieceIsLost,
         PTL
         DEF MonitorSpec

-----------------------------------------------------------------------------
(* PeerSession.                                                             *)


(* What the thread of s does to the storage is a step of a session there.   *)
LEMMA ThreadRunsSession ==
  ASSUME NEW s \in Sessions, StartThread(s) \/ StopThread(s) \/ ThreadStep(s)
  PROVE  SessionStep(s) \/ UNCHANGED vars
<1>1. CASE StartThread(s) \/ EndThread(s) \/ TakePiece(s) \/ SendRequest(s) \/ LetGo(s)
  BY <1>1 DEF StartThread, EndThread, TakePiece, SendRequest, LetGo, SessionStep
<1>2. CASE InStorage(s)
  BY <1>2 DEF InStorage, SessionStep
<1>3. ASSUME NEW b \in DOMAIN heap[held[s]].blocks, NEW data \in PeerData,
             ReceivePieceBlock(s, b, data)
      PROVE  SessionStep(s)
  BY <1>3 DEF ReceivePieceBlock, ReceiveBlock, SessionStep
<1>4. CASE ReceiveFails(s) \/ ReceiveNothing(s) \/ ReceiveUnchoke(s)
             \/ ReceiveChoke(s) \/ ReceiveHave(s)
  BY <1>4 DEF ReceiveFails, ReceiveNothing, ReceiveUnchoke, ReceiveChoke, ReceiveHave
<1>5. CASE ReceiveMessage(s)
  BY <1>3, <1>4, <1>5 DEF ReceiveMessage
<1>6. CASE StopThread(s) \/ BeginAttempt(s) \/ EstablishConnection(s) \/ EstablishFails(s)
             \/ LeaveMainLoop(s) \/ Turn(s) \/ FindNoPiece(s) \/ AllRequested(s)
             \/ HandleError(s)
  BY <1>6 DEF StopThread, BeginAttempt, EstablishConnection, EstablishFails,
     LeaveMainLoop, Turn, FindNoPiece, AllRequested, HandleError
<1> QED  BY <1>1, <1>2, <1>5, <1>6 DEF ThreadStep

(* The session threads, with their reconnections, chokes and messages, run  *)
(* the storage as its specification allows: all its theorems hold here.     *)
THEOREM SessionsRunStorage == PeerSpec => Spec
<1>1. PeerInit => Init
  BY DEF PeerInit
<1>2. [PeerNext]_svars => [Next]_vars
  BY ThreadRunsSession DEF PeerNext, Next, svars
<1> QED  BY <1>1, <1>2, PTL DEF PeerSpec, Spec

(* Whatever peers send, and however connections fail, the threads lose and  *)
(* share no piece: choke, timeout and reconnection give back what they hold.*)
THEOREM SessionsLoseNoPiece == PeerSpec => [](NoPieceLost /\ ExclusiveOwnership)
BY SessionsRunStorage, NoPieceIsLost, OwnershipIsExclusive, PTL

(* And what they write is the file FileAssembly promises: each piece once   *)
(* at most, with verified bytes unless the disk fails, and nothing after    *)
(* the file is closed, be it complete or given up.                          *)
THEOREM SessionsAssembleFile == PeerSpec => ImplementsFileAssembly
BY SessionsRunStorage, ImplementsAssembly, PTL

-----------------------------------------------------------------------------
(* A session that has a connection, or tries to get one, has failures left  *)
(* to count.                                                                *)
AttemptsLeft ==
  \A s \in Sessions :
    loop[s] \in Connected \cup {"establish"} => failures_count[s] < MaxFailures

(* The blocks of a piece are numbers.                                       *)
LEMMA BlocksAreNumbers ==
  ASSUME TypeOK, NEW s \in Sessions, Holds(s)
  PROVE  /\ held[s] \in Object
         /\ DOMAIN heap[held[s]].blocks \subseteq Nat
<1>1. held[s] \in Object
  BY DEF TypeOK, Holds
<1>2. /\ heap[held[s]] \in PieceType(BlockCount[IndexOf(held[s])])
      /\ BlockCount[IndexOf(held[s])] \in Nat
  BY <1>1, IndexOfObject DEF TypeOK
<1> QED  BY <1>1, <1>2 DEF PieceType

(* The thread never counts more failures than it is allowed.                *)
THEOREM PeerTypeCorrect == PeerSpec => []PeerTypeOK
<1>1. PeerInit => PeerTypeOK /\ AttemptsLeft
  BY TypeInitially, SessionAssumption DEF PeerInit, PeerTypeOK, AttemptsLeft, Connected
<1>2. TypeOK' /\ PeerTypeOK /\ AttemptsLeft /\ [PeerNext]_svars
        => (PeerTypeOK /\ AttemptsLeft)'
  <2> SUFFICES ASSUME TypeOK', PeerTypeOK, AttemptsLeft, [PeerNext]_svars
               PROVE  (PeerTypeOK /\ AttemptsLeft)'
    OBVIOUS
  <2> DEFINE Goal == (PeerTypeOK /\ AttemptsLeft)'
  <2> USE SessionAssumption DEF PeerTypeOK, AttemptsLeft, Connected, Continue,
          ClearInflight, peer_vars
  <2>0. ASSUME NEW s \in Sessions, ReceiveBitfield(s)
        PROVE  /\ is_choked' \in [Sessions -> BOOLEAN]
               /\ has_bitfield' \in [Sessions -> BOOLEAN]
               /\ pieces_availability' \in [Sessions -> SUBSET Index]
    BY <2>0 DEF ReceiveBitfield
  <2>1. ASSUME NEW s \in Sessions, StartThread(s) PROVE Goal
    BY <2>1 DEF StartThread
  <2>2. ASSUME NEW s \in Sessions, StopThread(s) PROVE Goal
    BY <2>2 DEF StopThread
  <2>3. ASSUME NEW s \in Sessions, EndThread(s) PROVE Goal
    BY <2>3 DEF EndThread
  <2>4. ASSUME NEW s \in Sessions, BeginAttempt(s) PROVE Goal
    BY <2>4 DEF BeginAttempt, RunLoopEnds
  <2>5. ASSUME NEW s \in Sessions, EstablishConnection(s) PROVE Goal
    BY <2>0, <2>5 DEF EstablishConnection
  <2>6. ASSUME NEW s \in Sessions, EstablishFails(s) PROVE Goal
    BY <2>0, <2>6 DEF EstablishFails, Throw
  <2>7. ASSUME NEW s \in Sessions, LeaveMainLoop(s) PROVE Goal
    BY <2>7 DEF LeaveMainLoop
  <2>8. ASSUME NEW s \in Sessions, Turn(s) PROVE Goal
    BY <2>8 DEF Turn
  <2>9. ASSUME NEW s \in Sessions, TakePiece(s) PROVE Goal
    BY <2>9 DEF TakePiece, LooksAgain
  <2>10. ASSUME NEW s \in Sessions, FindNoPiece(s) PROVE Goal
    BY <2>10 DEF FindNoPiece
  <2>11. ASSUME NEW s \in Sessions, SendRequest(s) PROVE Goal
    <3>1. MissingBlocks(heap[held[s]]) \subseteq Nat
      BY <2>11, BlocksAreNumbers DEF SendRequest, MissingBlocks
    <3> QED  BY <2>11, <3>1 DEF SendRequest, Throw
  <2>12. ASSUME NEW s \in Sessions, AllRequested(s) PROVE Goal
    BY <2>12 DEF AllRequested
  <2>13. ASSUME NEW s \in Sessions, ReceiveMessage(s) PROVE Goal
    <3>1. CASE ReceiveFails(s)
      BY <3>1 DEF ReceiveFails, Throw
    <3>2. CASE ReceiveNothing(s)
      BY <3>2 DEF ReceiveNothing
    <3>3. CASE ReceiveUnchoke(s)
      BY <3>3 DEF ReceiveUnchoke
    <3>4. CASE ReceiveChoke(s)
      BY <3>4 DEF ReceiveChoke
    <3>5. CASE ReceiveHave(s)
      BY <3>5 DEF ReceiveHave
    <3>6. ASSUME NEW b \in DOMAIN heap[held[s]].blocks, NEW data \in PeerData,
                 ReceivePieceBlock(s, b, data)
          PROVE  Goal
      BY <3>6 DEF ReceivePieceBlock
    <3> QED  BY <2>13, <3>1, <3>2, <3>3, <3>4, <3>5, <3>6 DEF ReceiveMessage
  <2>14. ASSUME NEW s \in Sessions, InStorage(s) PROVE Goal
    BY <2>14 DEF InStorage, session_vars
  <2>15. ASSUME NEW s \in Sessions, LetGo(s) PROVE Goal
    <3>1. \/ loop' = [loop EXCEPT ![s] = "look"] /\ loop[s] = "unwanted"
          \/ loop' = [loop EXCEPT ![s] = "connect"]
          \/ loop' = [loop EXCEPT ![s] = "turn"] /\ loop[s] \in {"choked", "block"}
      BY <2>15 DEF LetGo, Returning
    <3> QED  BY <2>15, <3>1 DEF LetGo
  <2>16. ASSUME NEW s \in Sessions, HandleError(s) PROVE Goal
    BY <2>16 DEF HandleError
  <2>17. CASE UNCHANGED session_vars
    BY <2>17 DEF session_vars
  <2> QED
    BY <2>1, <2>2, <2>3, <2>4, <2>5, <2>6, <2>7, <2>8, <2>9, <2>10, <2>11, <2>12,
       <2>13, <2>14, <2>15, <2>16, <2>17
    DEF PeerNext, ThreadStep, svars, session_vars
<1>3. PeerSpec => []TypeOK
  BY SessionsRunStorage, TypeCorrect, PTL
<1> QED  BY <1>1, <1>2, <1>3, PTL DEF PeerSpec

-----------------------------------------------------------------------------
(* What a session does to the storage leaves another session where it is,   *)
(* and the piece that one is downloading as it is.                          *)
LEMMA OthersKeepTheirPiece ==
  ASSUME TypeOK, OwnershipInv, NEW s \in Sessions, SessionStep(s) \/ UNCHANGED vars,
         NEW t \in Sessions, t # s
  PROVE  /\ held'[t] = held[t]
         /\ pc'[t] = pc[t]
         /\ Holds(t) /\ pc[t] = "run" => heap'[held[t]] = heap[held[t]]
<1> DEFINE Same == /\ held'[t] = held[t]
                   /\ pc'[t] = pc[t]
                   /\ Holds(t) /\ pc[t] = "run" => heap'[held[t]] = heap[held[t]]
<1>1. ASSUME Holding(s, pc[s]), pc[s] # "release",
             NEW p, heap' = [heap EXCEPT ![held[s]] = p],
             NEW label, pc' = [pc EXCEPT ![s] = label], UNCHANGED held
      PROVE  Same
  <2>1. /\ held[s] \in Object /\ Owns(s, held[s])
        /\ Holds(t) => held[t] \in Object
        /\ Holds(t) /\ pc[t] = "run" => Owns(t, held[t])
    BY <1>1 DEF TypeOK, Holding, Holds, Owns
  <2>2. Holds(t) /\ pc[t] = "run" => held[t] # held[s]
    BY <2>1 DEF OwnershipInv, ExclusiveOwnership
  <2> QED  BY <1>1, <2>1, <2>2 DEF TypeOK
<1>2. ASSUME DropPointer(s), NEW label, pc' = [pc EXCEPT ![s] = label] PROVE Same
  BY <1>2 DEF DropPointer, Holds, TypeOK
<1>3. CASE StartSession(s) \/ PieceProcessed(s) \/ PushReturnedPiece(s) \/ UNCHANGED vars
  BY <1>3 DEF StartSession, PieceProcessed, PushReturnedPiece, Goto, vars, TypeOK
<1>4. CASE GetNextPieceToDownload(s)
  BY <1>4 DEF GetNextPieceToDownload, TypeOK
<1>5. CASE ExitSession(s) \/ Release(s)
  BY <1>2, <1>5 DEF ExitSession, Release, Goto
<1>6. CASE RequestBlock(s)
  <2>1. pc' = [pc EXCEPT ![s] = pc[s]]
    BY <1>6 DEF RequestBlock, TypeOK
  <2> QED  BY <1>1, <1>6, <2>1 DEF RequestBlock, Holding
<1>7. ASSUME NEW b \in DOMAIN heap[held[s]].blocks, NEW data \in PeerData,
             StoreBlock(s, b, data)
      PROVE  Same
  BY <1>1, <1>7 DEF StoreBlock, Holding, Goto
<1>8. CASE CheckHash(s)
  BY <1>1, <1>8 DEF CheckHash, Holding, Goto
<1>9. CASE SavePieceToDisk(s) \/ ReturnPiece(s)
  <2>1. UNCHANGED heap \/ \E p : heap' = [heap EXCEPT ![held[s]] = p]
    BY <1>9 DEF SavePieceToDisk, ReturnPiece
  <2>2. CASE UNCHANGED heap
    BY <1>9, <2>2 DEF SavePieceToDisk, ReturnPiece, Goto, TypeOK
  <2>3. CASE \E p : heap' = [heap EXCEPT ![held[s]] = p]
    BY <1>1, <1>9, <2>3 DEF SavePieceToDisk, ReturnPiece, Holding, Goto
  <2> QED  BY <2>1, <2>2, <2>3
<1> QED  BY <1>3, <1>4, <1>5, <1>6, <1>7, <1>8, <1>9 DEF SessionStep, ReceiveBlock

(* So do the monitor and the thread that stops the download.                *)
LEMMA SystemKeepsPieces ==
  ASSUME TypeOK, NEW t \in Sessions,
         ControlStep
  PROVE  /\ held' = held /\ pc' = pc
         /\ Holds(t) => heap'[held[t]] = heap[held[t]]
<1>1. CASE GiveUp \/ StopSessions \/ CloseOutputFile
  BY <1>1 DEF GiveUp, StopSessions, CloseOutputFile
<1>2. ASSUME NEW S \in SUBSET Index, QueueAnew(S)
      PROVE  /\ held' = held /\ pc' = pc
             /\ Holds(t) => heap'[held[t]] = heap[held[t]]
  <2>1. \A i \in S : held[t] # NewObject(i)
    BY <1>2, NewObjectIsFree DEF QueueAnew
  <2>2. Holds(t) => held[t] \in Object
    BY DEF TypeOK, Holds
  <2> QED  BY <1>2, <2>1, <2>2 DEF QueueAnew
<1>3. CASE ForceRequeueMissingPieces
  BY <1>2, <1>3 DEF ForceRequeueMissingPieces, GetMissingPieces
<1>4. CASE RequeueThrows
  <2>1. PICK n \in GetMissingPieces : QueueAnew({i \in GetMissingPieces : i < n})
    BY <1>4 DEF RequeueThrows
  <2>2. {i \in GetMissingPieces : i < n} \in SUBSET Index
    BY DEF GetMissingPieces
  <2> QED  BY <1>2, <2>1, <2>2
<1> QED  BY <1>1, <1>3, <1>4 DEF ControlStep

-----------------------------------------------------------------------------
(* A session that asks its peer for the blocks of the piece it holds.       *)
Asking == {"turn", "request", "receive"}

(* Where the thread stands agrees with where it stands in the storage.      *)
Control(s) ==
  /\ loop[s] = "off" <=> pc[s] = "stopped"
  /\ pc[s] \notin {"run", "stopped"} => loop[s] \in Returning \cup {"block"}
  /\ loop[s] \in {"off", "establish", "look"} => ~Holds(s)
  /\ loop[s] = "connect" /\ Holds(s) => is_terminated[s]
  /\ loop[s] \in {"look", "unwanted"} => inflight_offsets[s] = {}

(* What it keeps about its peer agrees with its piece.                      *)
Requests(s) ==
  Holds(s) /\ loop[s] \in Asking =>
    /\ inflight_offsets[s] = PendingBlocks(heap[held[s]])
    /\ IndexOf(held[s]) \in pieces_availability[s]
    /\ ~AllBlocksRetrieved(heap[held[s]])
    /\ loop[s] = "receive" /\ ~is_choked[s] => inflight_offsets[s] # {}

SessionInv == \A s \in Sessions : Control(s) /\ Requests(s)

(* A piece that is not complete has a block to request or to wait for.      *)
LEMMA SomeBlockIsOpen ==
  ASSUME NEW n \in Nat, NEW p \in PieceType(n), ~AllBlocksRetrieved(p),
         MissingBlocks(p) = {}
  PROVE  PendingBlocks(p) # {}
<1>1. PICK b \in DOMAIN p.blocks : p.blocks[b] \notin Retrieved
  BY DEF AllBlocksRetrieved
<1>2. p.blocks[b] \in BlockState
  BY <1>1 DEF PieceType
<1>3. b \in PendingBlocks(p)
  BY <1>1, <1>2 DEF MissingBlocks, PendingBlocks, BlockState
<1> QED  BY <1>3

(* A session that stops requesting waits for one block at least.            *)
LEMMA AllRequestedWaits ==
  ASSUME PeerTypeOK, NEW s \in Sessions, Requests(s), AllRequested(s)
  PROVE  inflight_offsets[s] # {}
<1> DEFINE p == heap[held[s]]
<1>1. /\ held[s] \in Object
      /\ inflight_offsets[s] = PendingBlocks(p) /\ ~AllBlocksRetrieved(p)
  BY BlocksAreNumbers DEF AllRequested, Requests, Asking, PeerTypeOK
<1>2. p \in PieceType(BlockCount[IndexOf(held[s])]) /\ BlockCount[IndexOf(held[s])] \in Nat
  BY <1>1, IndexOfObject DEF PeerTypeOK, TypeOK
<1>3. CASE MissingBlocks(p) = {}
  BY <1>1, <1>2, <1>3, SomeBlockIsOpen
<1>4. CASE ~(Cardinality(inflight_offsets[s]) < MaxInflightBlocks)
  BY <1>4, FS_EmptySet, SessionAssumption
<1> QED  BY <1>3, <1>4 DEF AllRequested, MayRequest

(* The moves of a thread that leave the storage alone, and the pieces its   *)
(* peer has if it holds one.                                                *)
LEMMA MovingKeepsSession ==
  ASSUME PeerTypeOK, OwnershipInv, NEW s \in Sessions, Control(s), Requests(s),
         UNCHANGED <<heap, held, pc>>,
         \/ StopThread(s) \/ BeginAttempt(s) \/ EstablishConnection(s) \/ EstablishFails(s)
         \/ LeaveMainLoop(s) \/ Turn(s) \/ FindNoPiece(s) \/ AllRequested(s)
         \/ HandleError(s) \/ ReceiveFails(s) \/ ReceiveNothing(s) \/ ReceiveUnchoke(s)
         \/ ReceiveChoke(s) \/ ReceiveHave(s)
  PROVE  Control(s)' /\ Requests(s)'
<1> USE DEF Control, Requests, PeerTypeOK, Holds, Continue, ClearInflight, peer_vars,
        Asking, Returning, Throw
<1>1. CASE StopThread(s) \/ BeginAttempt(s)
  BY <1>1 DEF StopThread, BeginAttempt, RunLoopEnds
<1>2. CASE EstablishConnection(s)
  BY <1>2 DEF EstablishConnection
<1>3. CASE EstablishFails(s)
  BY <1>3 DEF EstablishFails
<1>4. CASE LeaveMainLoop(s) \/ FindNoPiece(s)
  BY <1>4 DEF LeaveMainLoop, FindNoPiece
<1>5. CASE Turn(s)
  BY <1>5 DEF Turn
<1>6. CASE HandleError(s)
  <2>1. pc[s] \in {"run", "stopped"}
    BY <1>6 DEF HandleError, OwnershipInv, HandlersConsistent, InProcessing, PcValues, TypeOK
  <2> QED  BY <1>6, <2>1 DEF HandleError
<1>7. CASE ReceiveFails(s) \/ ReceiveNothing(s) \/ ReceiveUnchoke(s)
  BY <1>7 DEF ReceiveFails, ReceiveNothing, ReceiveUnchoke
<1>8. CASE ReceiveChoke(s)
  BY <1>8 DEF ReceiveChoke
<1>9. CASE ReceiveHave(s)
  BY <1>9 DEF ReceiveHave
<1>10. CASE AllRequested(s)
  BY <1>10, AllRequestedWaits DEF AllRequested
<1> QED  BY <1>1, <1>2, <1>3, <1>4, <1>5, <1>6, <1>7, <1>8, <1>9, <1>10

(* A block of the piece in hand becomes pending as it is remembered ...     *)
LEMMA RequestingKeepsSession ==
  ASSUME PeerTypeOK, NEW s \in Sessions, Control(s), Requests(s), SendRequest(s)
  PROVE  Control(s)' /\ Requests(s)'
<1>1. /\ held[s] \in Object /\ DOMAIN heap[held[s]].blocks \subseteq Nat
      /\ Holds(s) /\ pc[s] = "run" /\ loop[s] = "request"
      /\ UNCHANGED <<held, pc, pieces_availability, is_terminated>>
  BY BlocksAreNumbers DEF SendRequest, RequestBlock, Holding, PeerTypeOK, peer_vars
<1> DEFINE p == heap[held[s]]
<1>2. PICK b \in MissingBlocks(p) :
        /\ IsFirstMissingBlock(p, b)
        /\ heap' = [heap EXCEPT ![held[s]] = MarkPending(p, b)]
  BY DEF SendRequest, RequestBlock
<1>3. CASE Throw(s)
  BY <1>1, <1>3 DEF Throw, Continue, Control, Requests, PeerTypeOK, Holds, Asking, Returning
<1>4. CASE UNCHANGED loop
  <2>1. PICK c \in MissingBlocks(p) :
          /\ IsFirstMissingBlock(p, c)
          /\ inflight_offsets' = [inflight_offsets EXCEPT ![s] = @ \cup {c}]
    BY <1>1, <1>4 DEF SendRequest, Throw, Continue, PeerTypeOK
  <2>2. b = c
    BY <1>1, <1>2, <2>1 DEF IsFirstMissingBlock, MissingBlocks
  <2>3. heap'[held[s]] = MarkPending(p, b)
    BY <1>1, <1>2 DEF PeerTypeOK, TypeOK
  <2>4. p \in PieceType(BlockCount[IndexOf(held[s])])
    BY <1>1 DEF PeerTypeOK, TypeOK
  <2>5. PendingBlocks(MarkPending(p, b)) = PendingBlocks(p) \cup {b}
    BY <2>4 DEF PendingBlocks, MarkPending, MissingBlocks, PieceType
  <2>6. inflight_offsets'[s] = inflight_offsets[s] \cup {b}
    BY <2>1, <2>2 DEF PeerTypeOK
  <2>7. ~AllBlocksRetrieved(MarkPending(p, b))
    BY <2>4 DEF AllBlocksRetrieved, MarkPending, MissingBlocks, PieceType, Retrieved
  <2> HIDE DEF p
  <2> QED  BY <1>1, <1>4, <2>3, <2>5, <2>6, <2>7 DEF Control, Requests, Holds, Asking, p
<1> QED  BY <1>3, <1>4 DEF SendRequest

(* ... and is no longer pending when its data has come, asked for or not.   *)
LEMMA ReceivingKeepsSession ==
  ASSUME PeerTypeOK, NEW s \in Sessions, Control(s), Requests(s),
         NEW b \in DOMAIN heap[held[s]].blocks, NEW data \in PeerData,
         ReceivePieceBlock(s, b, data)
  PROVE  Control(s)' /\ Requests(s)'
<1> DEFINE p == heap[held[s]]
           label == IF AllBlocksRetrieved(SaveBlock(p, b, data)) THEN "processing" ELSE "run"
<1>1. /\ held[s] \in Object /\ loop[s] = "receive" /\ Holds(s) /\ pc[s] = "run"
      /\ UNCHANGED <<held, pieces_availability, is_terminated>>
      /\ heap' = [heap EXCEPT ![held[s]] = SaveBlock(p, b, data)]
      /\ inflight_offsets'[s] = inflight_offsets[s] \ {b}
      /\ pc'[s] = label
      /\ loop'[s] = IF label = "processing" THEN "block" ELSE "turn"
  BY DEF ReceivePieceBlock, StoreBlock, Holding, Holds, Continue, Goto, PeerTypeOK, TypeOK,
         peer_vars
<1>2. heap'[held[s]] = SaveBlock(p, b, data)
  BY <1>1 DEF PeerTypeOK, TypeOK
<1>3. p \in PieceType(BlockCount[IndexOf(held[s])]) /\ data \in Retrieved
  BY <1>1, StorageAssumption DEF PeerTypeOK, TypeOK
<1>4. PendingBlocks(SaveBlock(p, b, data)) = PendingBlocks(p) \ {b}
  BY <1>3 DEF PendingBlocks, SaveBlock, PieceType, Retrieved
<1>5. /\ label \in {"processing", "run"}
      /\ label = "run" => ~AllBlocksRetrieved(SaveBlock(p, b, data))
  OBVIOUS
<1> HIDE DEF label, p
<1> QED  BY <1>1, <1>2, <1>4, <1>5 DEF Control, Requests, Holds, Asking, Returning, p

(* A piece comes from the queue with no block pending.                      *)
LEMMA TakingKeepsSession ==
  ASSUME PeerTypeOK, OwnershipInv, NEW s \in Sessions, Control(s), TakePiece(s)
  PROVE  Control(s)' /\ Requests(s)'
<1>1. /\ Head(queue) = queue[1] /\ 1 \in DOMAIN queue
      /\ queue[1] \in Object
  BY EmptySeq, LenProperties DEF TakePiece, GetNextPieceToDownload, PeerTypeOK, TypeOK
<1>2. heap[queue[1]] = NewPiece(BlockCount[IndexOf(queue[1])])
  BY <1>1 DEF OwnershipInv, QueuedPieceIsReset, New
<1>3. PendingBlocks(heap[queue[1]]) = {} /\ ~AllBlocksRetrieved(heap[queue[1]])
  <2>1. BlockCount[IndexOf(queue[1])] \in Nat \ {0}
    BY <1>1, IndexOfObject, StorageAssumption
  <2> QED  BY <1>2, <2>1 DEF NewPiece, PendingBlocks, AllBlocksRetrieved, Retrieved
<1>4. /\ held'[s] = queue[1] /\ pc[s] = "run" /\ loop[s] = "look"
      /\ UNCHANGED <<heap, pc, pieces_availability, is_terminated, inflight_offsets>>
  BY <1>1 DEF TakePiece, GetNextPieceToDownload, PeerTypeOK, TypeOK, peer_vars
<1>5. \/ loop'[s] = "unwanted"
      \/ /\ loop'[s] \in {"request", "receive"} /\ IndexOf(queue[1]) \in pieces_availability[s]
         /\ loop'[s] = "receive" => is_choked'[s]
  BY <1>1 DEF TakePiece, Continue, PeerTypeOK, peer_vars
<1> QED  BY <1>3, <1>4, <1>5 DEF Control, Requests, Asking, Returning

(* The thread starts, ends, or is busy with a piece it is done asking for.  *)
LEMMA HandingKeepsSession ==
  ASSUME PeerTypeOK, OwnershipInv, NEW s \in Sessions, Control(s),
         StartThread(s) \/ EndThread(s) \/ InStorage(s) \/ LetGo(s)
  PROVE  Control(s)' /\ Requests(s)'
<1>1. CASE StartThread(s)
  BY <1>1 DEF StartThread, StartSession, Goto, Control, Requests, Holds, Continue,
     ClearInflight, PeerTypeOK, TypeOK, Asking, Returning
<1>2. CASE EndThread(s)
  BY <1>2 DEF EndThread, ExitSession, DropPointer, Goto, Control, Requests, Holds, Continue,
     PeerTypeOK, TypeOK, Asking, Returning
<1>3. CASE InStorage(s)
  <2>1. /\ loop[s] \in Returning \cup {"block"}
        /\ pc'[s] \in PcValues \ {"stopped"} /\ pc[s] # "stopped"
        /\ UNCHANGED <<held, loop, inflight_offsets, is_terminated>>
    BY <1>3 DEF InStorage, PieceProcessed, CheckHash, SavePieceToDisk, ReturnPiece,
       PushReturnedPiece, Holding, Goto, session_vars, Control, PcValues, PeerTypeOK, TypeOK
  <2> QED  BY <2>1 DEF Control, Requests, Holds, Asking, Returning
<1>4. CASE LetGo(s)
  <2>1. /\ held'[s] = NoPiece /\ pc'[s] = "run"
        /\ loop'[s] \in {"look", "connect", "turn"}
        /\ loop'[s] = "look" => inflight_offsets'[s] = inflight_offsets[s]
                                /\ loop[s] = "unwanted"
    BY <1>4 DEF LetGo, Release, DropPointer, Goto, Continue, Returning, PeerTypeOK, TypeOK
  <2> QED  BY <2>1 DEF Control, Requests, Holds, Asking, Returning
<1> QED  BY <1>1, <1>2, <1>3, <1>4

(* A step of one session's thread keeps its own books.                      *)
LEMMA OwnStep ==
  ASSUME PeerTypeOK, OwnershipInv, NEW s \in Sessions, Control(s), Requests(s),
         StartThread(s) \/ StopThread(s) \/ ThreadStep(s)
  PROVE  Control(s)' /\ Requests(s)'
<1>1. CASE \/ StopThread(s) \/ BeginAttempt(s) \/ EstablishConnection(s)
           \/ EstablishFails(s) \/ LeaveMainLoop(s) \/ Turn(s) \/ FindNoPiece(s)
           \/ AllRequested(s) \/ HandleError(s) \/ ReceiveFails(s) \/ ReceiveNothing(s)
           \/ ReceiveUnchoke(s) \/ ReceiveChoke(s) \/ ReceiveHave(s)
  <2>1. UNCHANGED vars
    BY <1>1 DEF StopThread, BeginAttempt, EstablishConnection, EstablishFails,
       LeaveMainLoop, Turn, FindNoPiece, AllRequested, HandleError, ReceiveFails,
       ReceiveNothing, ReceiveUnchoke, ReceiveChoke, ReceiveHave
  <2>2. UNCHANGED <<heap, held, pc>>
    BY <2>1 DEF vars
  <2> QED  BY <1>1, <2>2, MovingKeepsSession
<1>2. CASE SendRequest(s)
  BY <1>2, RequestingKeepsSession
<1>3. CASE TakePiece(s)
  BY <1>3, TakingKeepsSession
<1>4. CASE StartThread(s) \/ EndThread(s) \/ InStorage(s) \/ LetGo(s)
  BY <1>4, HandingKeepsSession
<1>5. CASE ReceiveMessage(s)
  BY <1>1, <1>5, ReceivingKeepsSession DEF ReceiveMessage
<1> QED  BY <1>1, <1>2, <1>3, <1>4, <1>5 DEF ThreadStep

(* A step of one thread, or of the monitor, keeps the books of the others.  *)
LEMMA SessionInvStep ==
  PeerTypeOK /\ OwnershipInv /\ SessionInv /\ [PeerNext]_svars => SessionInv'
<1> SUFFICES ASSUME PeerTypeOK, OwnershipInv, SessionInv, [PeerNext]_svars,
                    NEW t \in Sessions
             PROVE  Control(t)' /\ Requests(t)'
  BY DEF SessionInv
<1>1. Control(t) /\ Requests(t)
  BY DEF SessionInv
<1>2. ASSUME held'[t] = held[t], pc'[t] = pc[t],
             Holds(t) /\ pc[t] = "run" => heap'[held[t]] = heap[held[t]],
             loop'[t] = loop[t], is_terminated'[t] = is_terminated[t],
             inflight_offsets'[t] = inflight_offsets[t],
             pieces_availability'[t] = pieces_availability[t],
             is_choked'[t] = is_choked[t]
      PROVE  Control(t)' /\ Requests(t)'
  <2>1. Holds(t) /\ loop[t] \in Asking => pc[t] = "run"
    BY <1>1 DEF Control, Asking, Returning
  <2> QED  BY <1>1, <1>2, <2>1 DEF Control, Requests, Holds
<1>3. ASSUME NEW s \in Sessions, s # t, StartThread(s) \/ StopThread(s) \/ ThreadStep(s)
      PROVE  Control(t)' /\ Requests(t)'
  <2>1. /\ held'[t] = held[t] /\ pc'[t] = pc[t]
        /\ Holds(t) /\ pc[t] = "run" => heap'[held[t]] = heap[held[t]]
    BY <1>3, ThreadRunsSession, OthersKeepTheirPiece DEF PeerTypeOK
  <2>2. /\ loop'[t] = loop[t] /\ is_terminated'[t] = is_terminated[t]
        /\ inflight_offsets'[t] = inflight_offsets[t]
        /\ pieces_availability'[t] = pieces_availability[t]
        /\ is_choked'[t] = is_choked[t]
    <3> USE DEF PeerTypeOK, Continue, ClearInflight, Throw, peer_vars, session_vars
    <3>1. CASE StartThread(s) \/ StopThread(s)
      BY <1>3, <3>1 DEF StartThread, StopThread
    <3>2. CASE EndThread(s) \/ BeginAttempt(s) \/ LeaveMainLoop(s) \/ Turn(s)
      BY <1>3, <3>2 DEF EndThread, BeginAttempt, LeaveMainLoop, Turn
    <3>3. CASE EstablishConnection(s) \/ EstablishFails(s)
      <4>1. pieces_availability'[t] = pieces_availability[t] /\ is_choked'[t] = is_choked[t]
        BY <1>3, <3>3 DEF EstablishConnection, EstablishFails, ReceiveBitfield
      <4> QED  BY <1>3, <3>3, <4>1 DEF EstablishConnection, EstablishFails
    <3>4. CASE TakePiece(s) \/ FindNoPiece(s) \/ SendRequest(s) \/ AllRequested(s)
      BY <1>3, <3>4 DEF TakePiece, FindNoPiece, SendRequest, AllRequested
    <3>5. CASE InStorage(s) \/ LetGo(s) \/ HandleError(s)
      BY <1>3, <3>5 DEF InStorage, LetGo, HandleError
    <3>6. CASE ReceiveMessage(s)
      BY <1>3, <3>6 DEF ReceiveMessage, ReceiveFails, ReceiveNothing, ReceiveUnchoke,
         ReceiveChoke, ReceiveHave, ReceivePieceBlock
    <3> QED  BY <1>3, <3>1, <3>2, <3>3, <3>4, <3>5, <3>6 DEF ThreadStep
  <2> QED  BY <1>2, <2>1, <2>2
<1>4. ASSUME StartThread(t) \/ StopThread(t) \/ ThreadStep(t)
      PROVE  Control(t)' /\ Requests(t)'
  BY <1>1, <1>4, OwnStep
<1>5. CASE ControlStep /\ UNCHANGED session_vars
  BY <1>2, <1>5, SystemKeepsPieces DEF session_vars, peer_vars, PeerTypeOK
<1>6. CASE UNCHANGED svars
  BY <1>2, <1>6 DEF svars, vars, session_vars, peer_vars
<1> QED  BY <1>3, <1>4, <1>5, <1>6 DEF PeerNext

LEMMA SessionInvariant == PeerSpec => [](PeerTypeOK /\ OwnershipInv /\ SessionInv)
<1>1. PeerInit => SessionInv
  BY DEF PeerInit, Init, SessionInv, Control, Requests, Holds, Asking, Returning
<1>2. Spec => []OwnershipInv
  BY TypeCorrect, OwnershipInitially, OwnershipStep, PTL DEF Spec
<1> QED  BY <1>1, <1>2, SessionsRunStorage, PeerTypeCorrect, SessionInvStep, PTL DEF PeerSpec

(* Whatever peers send, unasked, twice or late, whatever other sessions do  *)
(* and whenever everything is requeued: the requests a session counts as    *)
(* inflight are the pending blocks of its piece.                            *)
THEOREM InflightAgrees == PeerSpec => []InflightIsPending
<1>1. SessionInv => InflightIsPending
  BY DEF SessionInv, Requests, InflightIsPending, Asking
<1> QED  BY <1>1, SessionInvariant, PTL

(* A session asks only for pieces its peer has announced on this connection *)
(* or an earlier one.                                                       *)
THEOREM HeldIsAvailable == PeerSpec => []HeldPieceIsAvailable
<1>1. SessionInv => HeldPieceIsAvailable
  BY DEF SessionInv, Requests, HeldPieceIsAvailable, Asking
<1> QED  BY <1>1, SessionInvariant, PTL

(* And it never waits for an unchoked peer of which it wants nothing.       *)
THEOREM NeverWaitsForNothing == PeerSpec => []WaitsForABlock
<1>1. SessionInv => WaitsForABlock
  BY DEF SessionInv, Requests, WaitsForABlock, Asking
<1> QED  BY <1>1, SessionInvariant, PTL

(* No piece waits with a session that has lost its connection.              *)
THEOREM DisconnectedReturnsPiece == PeerSpec => []DisconnectedHoldsNothing
<1>1. SessionInv => DisconnectedHoldsNothing
  BY DEF SessionInv, Control, DisconnectedHoldsNothing
<1> QED  BY <1>1, SessionInvariant, PTL
=============================================================================
