---------------------------- MODULE PieceStorage ----------------------------
(***************************************************************************)
(* PieceStorage (storage/PieceStorage.cpp) and the part of every           *)
(* PeerSession thread (peer/PeerSession.cpp) that handles pieces.          *)
(*                                                                         *)
(* Each session thread takes a piece from the shared queue, fills it with  *)
(* the blocks its peer sends, and either has it hashed and written to the  *)
(* output file or returns it.  The download monitor may at any moment      *)
(* replace the queue by new objects for all the pieces not saved yet.      *)
(*                                                                         *)
(* Atomicity.  PieceStorage has two mutexes, queue_mutex and file_mutex,   *)
(* and no method of it holds one across the whole of its work: a step here *)
(* is one critical section, or one unlocked stretch that reads or writes   *)
(* only the piece its thread holds.  Where a thread stands between two     *)
(* steps is its pc:                                                        *)
(*    stopped    no thread                                                 *)
(*    run        in RunLoop, with or without a piece_in_progress           *)
(*    processing all blocks retrieved, PieceProcessed not entered yet      *)
(*    hashing    PieceProcessed has erased the index from active_pieces    *)
(*    verified   HashMatches returned true, SavePieceToDisk comes next     *)
(*    mismatch   HashMatches returned false, ReturnPiece comes next        *)
(*    returning  ReturnPiece found the piece unsaved and has reset it      *)
(*    release    about to drop its pointer (piece_in_progress.reset())     *)
(*                                                                         *)
(* Which message or error makes a session save a block or return its piece *)
(* is not decided here: in "run" it may do either.                         *)
(***************************************************************************)
EXTENDS Naturals, Sequences, FiniteSets, Piece

CONSTANTS
  PieceCount,   \* total_piece_count
  BlockCount,   \* BlockCount[i]: how many blocks piece i has
  Sessions,     \* the session threads that may be alive at the same time
  Copies,       \* tells apart the Piece objects of one index alive together
  NoPiece,      \* the null PiecePtr
  PeerData,     \* what the blocks that peers send may be: good, bad
  DiskMayFail   \* whether a write to the output file may fail

Index == 0 .. PieceCount - 1

(* A heap object is named by its index and a copy number.  The name of an   *)
(* object nobody points to may be given to a new object.                    *)
Object == Index \X Copies

ASSUME StorageAssumption ==
  /\ PieceCount \in Nat
  /\ BlockCount \in [Index -> Nat \ {0}]
  /\ 0 \in Copies
  /\ NoPiece \notin Object
  /\ PeerData \subseteq Retrieved
  /\ DiskMayFail \in BOOLEAN

VARIABLES
  heap,           \* the Piece objects
  queue,          \* remaining_pieces_queue                   (queue_mutex)
  active_pieces,  \* indices taken and not given back         (queue_mutex)
  saved_pieces,   \* indices written to the output file       (file_mutex)
  output_file,    \* what the file holds where each piece belongs
  stream_ok,      \* FALSE once the ofstream has its failbit or badbit set
  file_open,      \* output_file.is_open()
  stopping,       \* PeerConnector::Stop has begun to stop the sessions
  given_up,       \* RunSession no longer waits for the missing pieces
  pc,             \* where each session thread stands
  held            \* each session's piece_in_progress

queue_vars == <<queue, active_pieces>>
file_vars  == <<saved_pieces, output_file, stream_ok, file_open>>
vars == <<heap, queue_vars, file_vars, stopping, given_up, pc, held>>

PcValues == {"stopped", "run", "processing", "hashing", "verified",
             "mismatch", "returning", "release"}

IndexOf(o) == o[1]

New(i) == NewPiece(BlockCount[i])

TypeOK ==
  /\ heap = [o \in Object |-> heap[o]]
  /\ \A o \in Object : heap[o] \in PieceType(BlockCount[IndexOf(o)])
  /\ queue \in Seq(Object)
  /\ active_pieces \subseteq Index
  /\ saved_pieces \subseteq Index
  /\ output_file \in [Index -> {"zero", "good", "bad", "torn"}]
  /\ stream_ok \in BOOLEAN
  /\ file_open \in BOOLEAN
  /\ stopping \in BOOLEAN
  /\ given_up \in BOOLEAN
  /\ pc \in [Sessions -> PcValues]
  /\ held \in [Sessions -> Object \cup {NoPiece}]

Init ==
  /\ heap = [o \in Object |-> New(IndexOf(o))]
  /\ queue = [k \in 1 .. PieceCount |-> <<k - 1, 0>>]
  /\ active_pieces = {}
  /\ saved_pieces = {}
  /\ output_file = [i \in Index |-> "zero"]
  /\ stream_ok = TRUE
  /\ file_open = TRUE
  /\ stopping = FALSE
  /\ given_up = FALSE
  /\ pc = [s \in Sessions |-> "stopped"]
  /\ held = [s \in Sessions |-> NoPiece]

Goto(s, label) == pc' = [pc EXCEPT ![s] = label]

Holds(s) == held[s] # NoPiece

Holding(s, label) == pc[s] = label /\ Holds(s)

IsPieceAlreadySaved(i) == i \in saved_pieces

IsDownloadComplete == saved_pieces = Index

GetMissingPieces == Index \ saved_pieces

QueueIsEmpty == queue = << >>

Queues(o) == \E k \in DOMAIN queue : queue[k] = o

(* The session's shared pointer goes.  With its last reference an object is *)
(* destroyed, and its name is free for a new one.                           *)
DropPointer(s) ==
  /\ held' = [held EXCEPT ![s] = NoPiece]
  /\ heap' = [o \in Object |->
                IF /\ held[s] = o
                   /\ ~Queues(o)
                   /\ \A t \in Sessions \ {s} : held[t] # o
                THEN New(IndexOf(o))
                ELSE heap[o]]

-----------------------------------------------------------------------------
(* A session's thread starts.  None is started once PeerConnector::Stop has *)
(* joined the discovery thread.                                             *)
StartSession(s) ==
  /\ pc[s] = "stopped"
  /\ ~stopping
  /\ Goto(s, "run")
  /\ UNCHANGED <<heap, queue_vars, file_vars, stopping, given_up, held>>

(* A mutant: only a session without a piece ends, also when it is stopped.  *)
ExitWithoutPiece(s) ==
  /\ pc[s] = "run" /\ ~Holds(s)
  /\ Goto(s, "stopped")
  /\ UNCHANGED <<heap, queue_vars, file_vars, stopping, given_up, held>>

(* The session's thread ends: after too many failures, when HandleError has *)
(* returned its piece, or because it is stopped, with or without a piece.   *)
ExitSession(s) ==
  /\ pc[s] = "run"
  /\ Holds(s) => stopping
  /\ DropPointer(s)
  /\ Goto(s, "stopped")
  /\ UNCHANGED <<queue_vars, file_vars, stopping, given_up>>

(* A mutant: the piece is read from the front but not popped.               *)
TakeWithoutPop(s) ==
  /\ pc[s] = "run" /\ ~Holds(s)
  /\ queue # << >>
  /\ held' = [held EXCEPT ![s] = Head(queue)]
  /\ active_pieces' = active_pieces \cup {IndexOf(Head(queue))}
  /\ UNCHANGED <<heap, queue, file_vars, stopping, given_up, pc>>

GetNextPieceToDownload(s) ==
  /\ pc[s] = "run" /\ ~Holds(s)
  /\ queue # << >>
  /\ held' = [held EXCEPT ![s] = Head(queue)]
  /\ queue' = Tail(queue)
  /\ active_pieces' = active_pieces \cup {IndexOf(Head(queue))}
  /\ UNCHANGED <<heap, file_vars, stopping, given_up, pc>>

(* GetFirstMissingBlock and the request for the block it found.             *)
RequestBlock(s) ==
  /\ Holding(s, "run")
  /\ \E b \in MissingBlocks(heap[held[s]]) :
       /\ IsFirstMissingBlock(heap[held[s]], b)
       /\ heap' = [heap EXCEPT ![held[s]] = MarkPending(@, b)]
  /\ UNCHANGED <<queue_vars, file_vars, stopping, given_up, pc, held>>

(* ProcessMessage on a kPiece message for block b of the piece in progress. *)
StoreBlock(s, b, data) ==
  /\ Holding(s, "run")
  /\ LET piece == SaveBlock(heap[held[s]], b, data) IN
       /\ heap' = [heap EXCEPT ![held[s]] = piece]
       /\ Goto(s, IF AllBlocksRetrieved(piece) THEN "processing" ELSE "run")
  /\ UNCHANGED <<queue_vars, file_vars, stopping, given_up, held>>

ReceiveBlock(s) ==
  Holds(s) /\ \E b \in DOMAIN heap[held[s]].blocks, data \in PeerData : StoreBlock(s, b, data)

PieceProcessed(s) ==
  /\ Holding(s, "processing")
  /\ active_pieces' = active_pieces \ {IndexOf(held[s])}
  /\ Goto(s, "hashing")
  /\ UNCHANGED <<heap, queue, file_vars, stopping, given_up, held>>

(* A mutant: the result of HashMatches is not looked at.                    *)
SkipHash(s) ==
  /\ Holding(s, "hashing")
  /\ Goto(s, "verified")
  /\ UNCHANGED <<heap, queue_vars, file_vars, stopping, given_up, held>>

(* Unlocked: HashMatches reads every block and leaves the bytes in          *)
(* cached_data.                                                             *)
CheckHash(s) ==
  /\ Holding(s, "hashing")
  /\ heap' = [heap EXCEPT ![held[s]] = CacheData(@)]
  /\ Goto(s, IF HashMatches(heap[held[s]]) THEN "verified" ELSE "mismatch")
  /\ UNCHANGED <<queue_vars, file_vars, stopping, given_up, held>>

(* The bytes of piece i go to their place in the file.  ofstream reports no *)
(* error here and the code asks for none: a write may fail part way, and    *)
(* once the stream has failed a seekp or a write does nothing.              *)
WriteData(i, data) ==
  IF stream_ok /\ file_open
  THEN \/ /\ output_file' = [output_file EXCEPT
                               ![i] = IF AllGood(data) THEN "good" ELSE "bad"]
          /\ UNCHANGED stream_ok
       \/ /\ DiskMayFail
          /\ output_file' = [output_file EXCEPT ![i] = "torn"]
          /\ stream_ok' = FALSE
  ELSE /\ stream_ok' = FALSE
       /\ UNCHANGED output_file

(* A mutant: SavePieceToDisk does not ask whether the piece is saved.       *)
SaveAgain(s) ==
  /\ Holding(s, "verified")
  /\ WriteData(IndexOf(held[s]), GetData(heap[held[s]]))
  /\ saved_pieces' = saved_pieces \cup {IndexOf(held[s])}
  /\ Goto(s, "release")
  /\ UNCHANGED <<heap, queue_vars, file_open, stopping, given_up, held>>

SavePieceToDisk(s) ==
  /\ Holding(s, "verified")
  /\ LET i == IndexOf(held[s]) IN
       IF i \in saved_pieces
       THEN UNCHANGED <<heap, file_vars>>
       ELSE /\ WriteData(i, GetData(heap[held[s]]))
            /\ heap' = [heap EXCEPT ![held[s]] = CacheData(@)]
            /\ saved_pieces' = saved_pieces \cup {i}
            /\ UNCHANGED file_open
  /\ Goto(s, "release")
  /\ UNCHANGED <<queue_vars, stopping, given_up, held>>

(* Mutants: a piece goes back without a reset; or only if its index is      *)
(* still in active_pieces.                                                  *)
ReturnWithoutReset(s) ==
  /\ Holding(s, "run") \/ Holding(s, "mismatch")
  /\ Goto(s, IF IsPieceAlreadySaved(IndexOf(held[s])) THEN "release" ELSE "returning")
  /\ UNCHANGED <<heap, queue_vars, file_vars, stopping, given_up, held>>

ReturnOnlyActive(s) ==
  /\ Holding(s, "run") \/ Holding(s, "mismatch")
  /\ IF IndexOf(held[s]) \notin active_pieces
     THEN Goto(s, "release") /\ UNCHANGED heap
     ELSE /\ heap' = [heap EXCEPT ![held[s]] = Reset(@)]
          /\ Goto(s, "returning")
  /\ UNCHANGED <<queue_vars, file_vars, stopping, given_up, held>>

(* ReturnPiece, first half: a piece saved meanwhile is not put back (and    *)
(* stays in active_pieces); any other is reset.                             *)
ReturnPiece(s) ==
  /\ Holding(s, "run") \/ Holding(s, "mismatch")
  /\ IF IsPieceAlreadySaved(IndexOf(held[s]))
     THEN Goto(s, "release") /\ UNCHANGED heap
     ELSE /\ heap' = [heap EXCEPT ![held[s]] = Reset(@)]
          /\ Goto(s, "returning")
  /\ UNCHANGED <<queue_vars, file_vars, stopping, given_up, held>>

(* ReturnPiece, second half, under queue_mutex.                             *)
PushReturnedPiece(s) ==
  /\ Holding(s, "returning")
  /\ active_pieces' = active_pieces \ {IndexOf(held[s])}
  /\ queue' = Append(queue, held[s])
  /\ Goto(s, "release")
  /\ UNCHANGED <<heap, file_vars, stopping, given_up, held>>

(* piece_in_progress.reset(), after any outcome.                            *)
Release(s) ==
  /\ pc[s] = "release"
  /\ DropPointer(s)
  /\ Goto(s, "run")
  /\ UNCHANGED <<queue_vars, file_vars, stopping, given_up>>

(* A name for a new object of index i: one that no session points to (the   *)
(* queue's old objects are dropped by the step that asks).                  *)
FreeCopies(i) == {n \in Copies : \A s \in Sessions : held[s] # <<i, n>>}

NewObject(i) == <<i, CHOOSE n \in FreeCopies(i) : TRUE>>

(* New pieces for these indices, in index order, take the place of the      *)
(* whole queue, and who is active is forgotten.                             *)
QueueAnew(indices) ==
  /\ \A i \in indices : FreeCopies(i) # {}
  /\ LET fresh == {NewObject(i) : i \in indices} IN
       /\ heap' = [o \in Object |->
                     IF o \in fresh THEN New(IndexOf(o)) ELSE heap[o]]
       /\ \E n \in 0 .. PieceCount : \E q \in [1 .. n -> fresh] :
            /\ fresh \subseteq {q[k] : k \in 1 .. n}
            /\ \A j, k \in 1 .. n : j < k => IndexOf(q[j]) < IndexOf(q[k])
            /\ queue' = q
  /\ active_pieces' = {}
  /\ UNCHANGED <<file_vars, stopping, pc, held>>

(* Under both mutexes, by WaitForCompletion alone.                          *)
ForceRequeueMissingPieces ==
  /\ ~stopping /\ ~given_up
  /\ QueueAnew(GetMissingPieces)
  /\ UNCHANGED given_up

(* Memory runs out at the new piece for index n: the pieces before it are   *)
(* queued, the old queue is gone, and the exception ends WaitForCompletion. *)
RequeueThrows ==
  /\ ~stopping /\ ~given_up
  /\ \E n \in GetMissingPieces : QueueAnew({i \in GetMissingPieces : i < n})
  /\ given_up' = TRUE

(* RunSession goes on to its shutdown with pieces missing: it has found no  *)
(* peer, or has caught an exception that WaitForCompletion threw elsewhere. *)
GiveUp ==
  /\ ~stopping /\ ~given_up
  /\ given_up' = TRUE
  /\ UNCHANGED <<heap, queue_vars, file_vars, stopping, pc, held>>

(* PeerConnector::Stop begins: WaitForCompletion has returned, which it     *)
(* does when the download is complete, or RunSession has given up.          *)
StopSessions ==
  /\ ~stopping
  /\ IsDownloadComplete \/ given_up
  /\ stopping' = TRUE
  /\ UNCHANGED <<heap, queue_vars, file_vars, given_up, pc, held>>

(* CloseOutputFile itself asks for nothing; RunSession calls it when every  *)
(* session thread has been joined, whatever is saved.  A second call finds  *)
(* the file closed and does nothing.                                        *)
CloseOutputFile ==
  /\ stopping
  /\ \A s \in Sessions : pc[s] = "stopped"
  /\ file_open' = FALSE
  /\ UNCHANGED <<heap, queue_vars, saved_pieces, output_file, stream_ok,
                 stopping, given_up, pc, held>>

SessionStep(s) ==
  \/ StartSession(s)
  \/ ExitSession(s)
  \/ GetNextPieceToDownload(s)
  \/ RequestBlock(s)
  \/ ReceiveBlock(s)
  \/ PieceProcessed(s)
  \/ CheckHash(s)
  \/ SavePieceToDisk(s)
  \/ ReturnPiece(s)
  \/ PushReturnedPiece(s)
  \/ Release(s)

(* What the thread of RunSession does to the storage.                       *)
ControlStep ==
  \/ ForceRequeueMissingPieces
  \/ RequeueThrows
  \/ GiveUp
  \/ StopSessions
  \/ CloseOutputFile

Next ==
  \/ \E s \in Sessions : SessionStep(s)
  \/ ControlStep

Spec == Init /\ [][Next]_vars
-----------------------------------------------------------------------------
(* A session that is done with its object only has its pointer to drop.     *)
Owns(s, o) == held[s] = o /\ pc[s] # "release"

Queued(i) == \E n \in Copies : Queues(<<i, n>>)

(* i is in the hands of session s, at one of these points of its handlers.  *)
WorkedOn(i, labels) ==
  \E s \in Sessions : Holds(s) /\ IndexOf(held[s]) = i /\ pc[s] \in labels

InProcessing == {"hashing", "verified", "mismatch", "returning"}

(* Piece has no lock: its blocks and its cache are safe only while one      *)
(* thread at a time touches an object.  No object is owned by two sessions, *)
(* none is owned while it is in the queue, none is queued twice.            *)
ExclusiveOwnership ==
  /\ \A s, t \in Sessions, o \in Object : Owns(s, o) /\ Owns(t, o) => s = t
  /\ \A s \in Sessions, k \in DOMAIN queue : ~Owns(s, queue[k])
  /\ \A j, k \in DOMAIN queue : queue[j] = queue[k] => j = k

(* Who takes a piece starts from nothing: no block left pending by a        *)
(* session that gave up, which nobody would ever request again, and no      *)
(* block or cached bytes of an attempt that failed its hash.                *)
QueuedPieceIsReset ==
  \A k \in DOMAIN queue : heap[queue[k]] = New(IndexOf(queue[k]))

(* The hash is checked without a lock and the bytes are written later under *)
(* file_mutex: they are still the bytes that were checked.                  *)
VerifiedBytesAreWritten ==
  \A s \in Sessions : Holding(s, "verified") => HashMatches(heap[held[s]])

(* As long as the stream has not failed, the file holds the verified bytes  *)
(* of exactly the pieces that count as saved; when it has, at most one      *)
(* piece was cut short, and every other one is whole or not written at all. *)
FileIntegrity ==
  /\ \A i \in Index : output_file[i] # "zero" => i \in saved_pieces
  /\ \A i \in Index : output_file[i] # "bad"
  /\ stream_ok => \A i \in saved_pieces : output_file[i] = "good"
  /\ \A i, j \in Index : output_file[i] = "torn" /\ output_file[j] = "torn" => i = j

(* Whatever sessions fail, return, mismatch or race with a requeue: as long *)
(* as RunSession waits for it, a piece that is not saved is in the queue or *)
(* in the hands of a session that will save it or put it back.  (Whether    *)
(* its index is in active_pieces is not said here.)                         *)
NoPieceLost ==
  ~given_up =>
    \A i \in GetMissingPieces :
      Queued(i) \/ WorkedOn(i, {"run", "processing"} \cup InProcessing)

(* HasActiveWork, which paces the monitor, misses an unsaved piece only     *)
(* while a session is between the two critical sections of processing or    *)
(* returning it ...                                                         *)
WorkIsVisible ==
  ~given_up =>
    \A i \in GetMissingPieces :
      Queued(i) \/ i \in active_pieces \/ WorkedOn(i, InProcessing)

(* ... and an unsaved index it reports as active is really worked on, also  *)
(* when a requeue has emptied active_pieces under its holders.              *)
ActiveIsWorkedOn ==
  ~given_up =>
    \A i \in active_pieces \cap GetMissingPieces :
      WorkedOn(i, {"run", "processing", "returning"})

(* What the properties above rest on: a thread inside a handler has its     *)
(* piece, one about to put its piece back has reset it, and the file is     *)
(* closed when no thread is left.  The sessions are stopped only when all   *)
(* is saved or the rest is given up.                                        *)
HandlersConsistent ==
  /\ \A s \in Sessions :
       /\ pc[s] = "stopped" => ~Holds(s)
       /\ pc[s] \in {"processing", "release"} \cup InProcessing => Holds(s)
       /\ pc[s] = "returning" => heap[held[s]] = New(IndexOf(held[s]))
  /\ stopping => IsDownloadComplete \/ given_up
  /\ ~file_open => stopping /\ \A s \in Sessions : pc[s] = "stopped"

(* The sessions, the queue and the two mutexes together implement the file  *)
(* that is assembled piece by piece, each piece once.                       *)
Assembly == INSTANCE FileAssembly WITH
  committed <- saved_pieces,
  file      <- output_file,
  disk_ok   <- stream_ok,
  open      <- file_open

ImplementsFileAssembly == Assembly!Spec
=============================================================================
