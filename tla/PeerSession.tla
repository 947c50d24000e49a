---------------------------- MODULE PeerSession ----------------------------
(***************************************************************************)
(* The thread of a PeerSession (peer/PeerSession.cpp), on top of the       *)
(* storage: RunLoop with its reconnections, MainLoop with its requests,    *)
(* and the messages a peer may send, in any order.                         *)
(*                                                                         *)
(* PieceStorage leaves open when a session returns its piece or stores a   *)
(* block; here that is decided.  `loop' is where the thread stands:        *)
(*    off        no thread                                                 *)
(*    connect    at the condition of RunLoop                               *)
(*    establish  in EstablishConnection                                    *)
(*    turn       at the condition of MainLoop                              *)
(*    look       in GetNextAvailablePiece                                  *)
(*    unwanted   returning a piece the peer does not have                  *)
(*    request    sending requests                                          *)
(*    receive    in ReceiveData                                            *)
(*    choked     kChoke received, returning the piece                      *)
(*    block      kPiece received, in PieceProcessed                        *)
(*    failed     an exception was caught, in HandleError                   *)
(*                                                                         *)
(* Stop sets is_terminated from another thread; the thread sees it where   *)
(* the code tests it.  Of the connection only this is modelled: every call *)
(* returns or throws.  A bitfield is the set of its pieces; bitfields of a *)
(* wrong length, or messages cut short, are not modelled.                  *)
(***************************************************************************)
EXTENDS PieceStorage

CONSTANTS
  MaxFailures,        \* kMaxFailures
  MaxTakes,           \* how many pieces GetNextAvailablePiece looks at
  MaxInflightBlocks   \* kMaxInflightBlocks

ASSUME SessionAssumption ==
  {MaxFailures, MaxTakes, MaxInflightBlocks} \subseteq Nat \ {0}

VARIABLES
  loop,                 \* where each session's thread stands
  failures_count,       \* failures since the last connection
  takes,                \* pieces looked at in this turn
  is_terminated,        \* Stop was called, or the thread has ended
  is_choked,            \* what the peer said last
  has_bitfield,         \* pieces_availability has a size
  pieces_availability,  \* the pieces the peer is believed to have
  inflight_offsets      \* the blocks requested and not received

peer_vars == <<is_choked, has_bitfield, pieces_availability>>
session_vars == <<loop, failures_count, takes, is_terminated, peer_vars, inflight_offsets>>
svars == <<vars, session_vars>>

Connected == {"turn", "look", "unwanted", "request", "receive", "choked", "block"}

PeerTypeOK ==
  /\ TypeOK
  /\ loop \in [Sessions -> Connected \cup {"off", "connect", "establish", "failed"}]
  /\ failures_count \in [Sessions -> 0 .. MaxFailures]
  /\ takes \in [Sessions -> 0 .. MaxTakes]
  /\ is_terminated \in [Sessions -> BOOLEAN]
  /\ is_choked \in [Sessions -> BOOLEAN]
  /\ has_bitfield \in [Sessions -> BOOLEAN]
  /\ pieces_availability \in [Sessions -> SUBSET Index]
  /\ inflight_offsets \in [Sessions -> SUBSET Nat]

PeerInit ==
  /\ Init
  /\ loop = [s \in Sessions |-> "off"]
  /\ failures_count = [s \in Sessions |-> 0]
  /\ takes = [s \in Sessions |-> 0]
  /\ is_terminated = [s \in Sessions |-> FALSE]
  /\ is_choked = [s \in Sessions |-> TRUE]
  /\ has_bitfield = [s \in Sessions |-> FALSE]
  /\ pieces_availability = [s \in Sessions |-> {}]
  /\ inflight_offsets = [s \in Sessions |-> {}]

Continue(s, label) == loop' = [loop EXCEPT ![s] = label]

ClearInflight(s) == inflight_offsets' = [inflight_offsets EXCEPT ![s] = {}]

(* A mutant: the exception is counted, HandleError is not called.           *)
ThrowOnly(s) ==
  /\ failures_count' = [failures_count EXCEPT ![s] = @ + 1]
  /\ Continue(s, "connect")

(* An exception: RunLoop counts it and calls HandleError.                   *)
Throw(s) ==
  /\ failures_count' = [failures_count EXCEPT ![s] = @ + 1]
  /\ Continue(s, "failed")

-----------------------------------------------------------------------------
(* A new session object and its thread.                                     *)
StartThread(s) ==
  /\ loop[s] = "off"
  /\ StartSession(s)
  /\ Continue(s, "connect")
  /\ failures_count' = [failures_count EXCEPT ![s] = 0]
  /\ is_terminated' = [is_terminated EXCEPT ![s] = FALSE]
  /\ is_choked' = [is_choked EXCEPT ![s] = TRUE]
  /\ has_bitfield' = [has_bitfield EXCEPT ![s] = FALSE]
  /\ pieces_availability' = [pieces_availability EXCEPT ![s] = {}]
  /\ ClearInflight(s)
  /\ UNCHANGED takes

(* PeerSession::Stop, by the thread that stops all the sessions.            *)
StopThread(s) ==
  /\ stopping
  /\ loop[s] # "off" /\ ~is_terminated[s]
  /\ is_terminated' = [is_terminated EXCEPT ![s] = TRUE]
  /\ UNCHANGED <<vars, loop, failures_count, takes, peer_vars, inflight_offsets>>

(* A mutant: one attempt too many.                                          *)
RunLoopEndsLate(s) == is_terminated[s] \/ failures_count[s] > MaxFailures

RunLoopEnds(s) == is_terminated[s] \/ failures_count[s] >= MaxFailures

EndThread(s) ==
  /\ loop[s] = "connect" /\ RunLoopEnds(s)
  /\ ExitSession(s)
  /\ Continue(s, "off")
  /\ is_terminated' = [is_terminated EXCEPT ![s] = TRUE]
  /\ UNCHANGED <<failures_count, takes, peer_vars, inflight_offsets>>

BeginAttempt(s) ==
  /\ loop[s] = "connect" /\ ~RunLoopEnds(s)
  /\ Continue(s, "establish")
  /\ UNCHANGED <<vars, failures_count, takes, is_terminated, peer_vars, inflight_offsets>>

(* ReceiveBitfield takes the first message, if one comes in time: a         *)
(* bitfield, an unchoke, or another one that is dropped.                    *)
ReceiveBitfield(s) ==
  \/ /\ \E pieces \in SUBSET Index :
          pieces_availability' = [pieces_availability EXCEPT ![s] = pieces]
     /\ has_bitfield' = [has_bitfield EXCEPT ![s] = TRUE]
     /\ UNCHANGED is_choked
  \/ /\ is_choked' = [is_choked EXCEPT ![s] = FALSE]
     /\ UNCHANGED <<has_bitfield, pieces_availability>>
  \/ UNCHANGED peer_vars

EstablishConnection(s) ==
  /\ loop[s] = "establish"
  /\ ReceiveBitfield(s)
  /\ failures_count' = [failures_count EXCEPT ![s] = 0]
  /\ Continue(s, "turn")
  /\ UNCHANGED <<vars, takes, is_terminated, inflight_offsets>>

(* It throws anywhere on the way, maybe after the first message.            *)
EstablishFails(s) ==
  /\ loop[s] = "establish"
  /\ ReceiveBitfield(s)
  /\ Throw(s)
  /\ UNCHANGED <<vars, takes, is_terminated, inflight_offsets>>

-----------------------------------------------------------------------------
(* MainLoop.                                                                *)
LeaveMainLoop(s) ==
  /\ loop[s] = "turn" /\ is_terminated[s]
  /\ Continue(s, "connect")
  /\ UNCHANGED <<vars, failures_count, takes, is_terminated, peer_vars, inflight_offsets>>

(* A mutant: the condition of MainLoop is not tested.                       *)
TurnAlways(s) ==
  /\ loop[s] = "turn"
  /\ Continue(s, IF ~Holds(s) THEN "look" ELSE IF is_choked[s] THEN "receive" ELSE "request")
  /\ takes' = [takes EXCEPT ![s] = 0]
  /\ inflight_offsets' = [inflight_offsets EXCEPT ![s] = IF Holds(s) THEN @ ELSE {}]
  /\ UNCHANGED <<vars, failures_count, is_terminated, peer_vars>>

Turn(s) ==
  /\ loop[s] = "turn" /\ ~is_terminated[s]
  /\ IF Holds(s)
     THEN /\ Continue(s, IF is_choked[s] THEN "receive" ELSE "request")
          /\ UNCHANGED <<takes, inflight_offsets>>
     ELSE /\ Continue(s, "look")
          /\ takes' = [takes EXCEPT ![s] = 0]
          /\ ClearInflight(s)
  /\ UNCHANGED <<vars, failures_count, is_terminated, peer_vars>>

LooksAgain(s) == ~is_terminated[s] /\ takes[s] < MaxTakes

TakePiece(s) ==
  /\ loop[s] = "look" /\ LooksAgain(s)
  /\ GetNextPieceToDownload(s)
  /\ takes' = [takes EXCEPT ![s] = @ + 1]
  /\ Continue(s, IF IndexOf(Head(queue)) \notin pieces_availability[s] THEN "unwanted"
                 ELSE IF is_choked[s] THEN "receive" ELSE "request")
  /\ UNCHANGED <<failures_count, is_terminated, peer_vars, inflight_offsets>>

FindNoPiece(s) ==
  /\ loop[s] = "look"
  /\ ~LooksAgain(s) \/ QueueIsEmpty
  /\ Continue(s, "receive")
  /\ UNCHANGED <<vars, failures_count, takes, is_terminated, peer_vars, inflight_offsets>>

(* A mutant: off by one.                                                    *)
MayRequestOneLess(s) ==
  /\ Cardinality(inflight_offsets[s]) + 1 < MaxInflightBlocks
  /\ MissingBlocks(heap[held[s]]) # {}

MayRequest(s) ==
  Cardinality(inflight_offsets[s]) < MaxInflightBlocks /\ MissingBlocks(heap[held[s]]) # {}

(* The block is marked pending, then the request is sent, then remembered.  *)
SendRequest(s) ==
  /\ loop[s] = "request" /\ Holds(s) /\ MayRequest(s)
  /\ RequestBlock(s)
  /\ \/ /\ \E b \in MissingBlocks(heap[held[s]]) :
             /\ IsFirstMissingBlock(heap[held[s]], b)
             /\ inflight_offsets' = [inflight_offsets EXCEPT ![s] = @ \cup {b}]
        /\ UNCHANGED <<loop, failures_count>>
     \/ Throw(s) /\ UNCHANGED inflight_offsets
  /\ UNCHANGED <<takes, is_terminated, peer_vars>>

AllRequested(s) ==
  /\ loop[s] = "request" /\ Holds(s) /\ ~MayRequest(s)
  /\ Continue(s, "receive")
  /\ UNCHANGED <<vars, failures_count, takes, is_terminated, peer_vars, inflight_offsets>>

(* ReceiveData throws, or ProcessMessage does.                              *)
ReceiveFails(s) ==
  /\ loop[s] = "receive"
  /\ Throw(s)
  /\ UNCHANGED <<vars, takes, is_terminated, peer_vars, inflight_offsets>>

(* Nothing within kReadTimeout, a keep-alive, a message that is ignored: a  *)
(* bitfield that comes late, a block of another piece ...                   *)
ReceiveNothing(s) ==
  /\ loop[s] = "receive"
  /\ Continue(s, "turn")
  /\ UNCHANGED <<vars, failures_count, takes, is_terminated, peer_vars, inflight_offsets>>

ReceiveUnchoke(s) ==
  /\ loop[s] = "receive"
  /\ is_choked' = [is_choked EXCEPT ![s] = FALSE]
  /\ Continue(s, "turn")
  /\ UNCHANGED <<vars, failures_count, takes, is_terminated, has_bitfield,
                 pieces_availability, inflight_offsets>>

ReceiveChoke(s) ==
  /\ loop[s] = "receive"
  /\ is_choked' = [is_choked EXCEPT ![s] = TRUE]
  /\ IF Holds(s)
     THEN Continue(s, "choked") /\ UNCHANGED inflight_offsets
     ELSE Continue(s, "turn") /\ ClearInflight(s)
  /\ UNCHANGED <<vars, failures_count, takes, is_terminated, has_bitfield,
                 pieces_availability>>

(* Without a bitfield there is no room for the piece.                       *)
ReceiveHave(s) ==
  /\ loop[s] = "receive"
  /\ \E i \in Index :
       pieces_availability' = IF has_bitfield[s]
                              THEN [pieces_availability EXCEPT ![s] = @ \cup {i}]
                              ELSE pieces_availability
  /\ Continue(s, "turn")
  /\ UNCHANGED <<vars, failures_count, takes, is_terminated, is_choked, has_bitfield,
                 inflight_offsets>>

(* A mutant: a block that has come counts as inflight for ever.             *)
ReceiveWithoutErase(s, b, data) ==
  /\ loop[s] = "receive" /\ Holds(s)
  /\ b \in DOMAIN heap[held[s]].blocks
  /\ StoreBlock(s, b, data)
  /\ Continue(s, IF pc'[s] = "processing" THEN "block" ELSE "turn")
  /\ UNCHANGED <<failures_count, takes, is_terminated, peer_vars, inflight_offsets>>

ReceivePieceBlock(s, b, data) ==
  /\ loop[s] = "receive" /\ Holds(s)
  /\ b \in DOMAIN heap[held[s]].blocks
  /\ StoreBlock(s, b, data)
  /\ inflight_offsets' = [inflight_offsets EXCEPT ![s] = @ \ {b}]
  /\ Continue(s, IF pc'[s] = "processing" THEN "block" ELSE "turn")
  /\ UNCHANGED <<failures_count, takes, is_terminated, peer_vars>>

(* Where the thread calls ReturnPiece itself.                               *)
Returning == {"unwanted", "choked", "failed"}

(* The storage's part of PieceProcessed and of ReturnPiece.                 *)
InStorage(s) ==
  /\ \/ PieceProcessed(s)
     \/ CheckHash(s)
     \/ SavePieceToDisk(s)
     \/ (loop[s] \in Returning \/ pc[s] = "mismatch") /\ ReturnPiece(s)
     \/ PushReturnedPiece(s)
  /\ UNCHANGED session_vars

(* The piece has been returned or processed.                                *)
LetGo(s) ==
  /\ loop[s] \in Returning \cup {"block"}
  /\ Release(s)
  /\ Continue(s, CASE loop[s] = "unwanted" -> "look"
                   [] loop[s] = "failed"   -> "connect"
                   [] OTHER                -> "turn")
  /\ IF loop[s] = "unwanted" THEN UNCHANGED inflight_offsets ELSE ClearInflight(s)
  /\ UNCHANGED <<failures_count, takes, is_terminated, peer_vars>>

(* A mutant: the piece is kept for the next connection.                     *)
HandleErrorKeeps(s) ==
  /\ loop[s] = "failed" /\ pc[s] = "run"
  /\ Continue(s, "connect")
  /\ UNCHANGED <<vars, failures_count, takes, is_terminated, peer_vars, inflight_offsets>>

HandleError(s) ==
  /\ loop[s] = "failed" /\ ~Holds(s)
  /\ Continue(s, "connect")
  /\ ClearInflight(s)
  /\ UNCHANGED <<vars, failures_count, takes, is_terminated, peer_vars>>

ReceiveMessage(s) ==
  \/ ReceiveFails(s)
  \/ ReceiveNothing(s)
  \/ ReceiveUnchoke(s)
  \/ ReceiveChoke(s)
  \/ ReceiveHave(s)
  \/ Holds(s) /\ \E b \in DOMAIN heap[held[s]].blocks, data \in PeerData :
                    ReceivePieceBlock(s, b, data)

(* What the session's thread does, once it has been started.                *)
ThreadStep(s) ==
  \/ EndThread(s)
  \/ BeginAttempt(s)
  \/ EstablishConnection(s)
  \/ EstablishFails(s)
  \/ LeaveMainLoop(s)
  \/ Turn(s)
  \/ TakePiece(s)
  \/ FindNoPiece(s)
  \/ SendRequest(s)
  \/ AllRequested(s)
  \/ ReceiveMessage(s)
  \/ InStorage(s)
  \/ LetGo(s)
  \/ HandleError(s)

PeerNext ==
  \/ \E s \in Sessions : StartThread(s) \/ StopThread(s) \/ ThreadStep(s)
  \/ ControlStep /\ UNCHANGED session_vars

PeerSpec == PeerInit /\ [][PeerNext]_svars
-----------------------------------------------------------------------------
(* Whatever a peer sends, unasked, twice or late: a session's own list of   *)
(* requests agrees with the state of the blocks of its piece.               *)
InflightIsPending ==
  \A s \in Sessions :
    Holds(s) /\ loop[s] \in {"turn", "request", "receive"} =>
      inflight_offsets[s] = PendingBlocks(heap[held[s]])

(* An unchoked session that waits for its peer with a piece in hand has     *)
(* asked for something: else it would hold the piece for nothing.           *)
WaitsForABlock ==
  \A s \in Sessions :
    loop[s] = "receive" /\ Holds(s) /\ ~is_choked[s] => inflight_offsets[s] # {}

(* Only pieces the peer has announced are asked of it, also after it has    *)
(* been reconnected and has announced others.                               *)
HeldPieceIsAvailable ==
  \A s \in Sessions :
    Holds(s) /\ loop[s] \in {"turn", "request", "receive"} =>
      IndexOf(held[s]) \in pieces_availability[s]

(* A session without a connection keeps no piece from the others, unless it *)
(* is being stopped.                                                        *)
DisconnectedHoldsNothing ==
  \A s \in Sessions :
    Holds(s) /\ loop[s] \in {"off", "connect", "establish"} => is_terminated[s]
-----------------------------------------------------------------------------
(* Every call a session's thread makes returns or throws in the end.        *)
FairPeerSpec ==
  PeerSpec /\ \A s \in Sessions : WF_svars(ThreadStep(s)) /\ WF_svars(StopThread(s))

(* A session that is stopped ends, wherever its thread stands.  This is     *)
(* what DownloadMonitor assumes of ExitSession.                             *)
StoppedThreadEnds == \A s \in Sessions : (stopping /\ loop[s] # "off") ~> (loop[s] = "off")

(* From some time on the peer of s stays connected, has piece i, does not   *)
(* choke, and answers what is asked; endgame does not reset the queue, and  *)
(* RunSession does not give the missing pieces up.                          *)
ServesPiece(s, i) ==
  /\ []~given_up
  /\ <>[](loop[s] \in Connected /\ i \in pieces_availability[s])
  /\ <>[][~ReceiveChoke(s) /\ ~ForceRequeueMissingPieces]_svars
  /\ SF_svars(ReceiveUnchoke(s))
  /\ SF_svars(Holds(s) /\ \E b \in inflight_offsets[s] : ReceivePieceBlock(s, b, "good"))

(* Then piece i is downloaded, also when it has to be looked for behind     *)
(* pieces the peer does not have, and when blocks come that were not asked  *)
(* for.                                                                     *)
ServedPieceIsSaved ==
  \A s \in Sessions, i \in Index : ServesPiece(s, i) => <>(i \in saved_pieces)
=============================================================================
