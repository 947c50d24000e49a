# tclient: a verification project

TLA+ models of the BitTorrent client in `src/`, the TLC configurations that check
them on small instances, and proofs, checked by TLAPS, that hold for every instance.

1. [The system](#1-the-system) - components, state, interactions, what is hard
2. [Modules](#2-modules) - which module models what, and how it corresponds to the code
3. [Runs](#3-runs) - what each one checks, its bounds, and why they are enough
4. [Fairness](#4-fairness)
5. [Proofs](#5-proofs) - what is proved, from which assumptions, along which argument
6. [What the code does that one may not expect](#6-what-the-code-does-that-one-may-not-expect)
7. [What is not modelled](#7-what-is-not-modelled)
8. [Plan](#8-plan)

To parse, check and prove:

    tlasany PieceStorage.tla
    tlc -workers 2 -config PieceStorage.cfg MCPieceStorage.tla
    tlapm PieceStorageProofs.tla

## 1. The system

The program downloads one single-file torrent. Its threads are: the main thread (user
interface), the session's thread (`TorrentSession::RunSession`, with the download monitor
inside), the discovery thread of `PeerConnector`, the trackers' thread of
`TrackerManager`, and one thread per connected peer (`PeerSession`).

| Component (`src/src/...`) | State | Operations | Right when |
|---|---|---|---|
| `Piece` | blocks with status and bytes, cached bytes | next missing block, save a block, hash, reset | a piece that is taken has no block of an earlier attempt |
| `PieceStorage` | queue of missing pieces and active indices (`queue_mutex`); saved indices and output file (`file_mutex`) | take, return, process, requeue all, close | no piece is lost, shared, or written twice; only verified bytes are written |
| `PeerSession` | connection, choke, availability, piece in progress, inflight offsets, failures | connect, retry, messages, requests, stop | it requests what its peer has, waits only for what it asked, and keeps no piece it cannot fill |
| `PeerManager` | the state of every known peer | add, take, mark, list the waiting | a peer is offered only while nobody serves it |
| `PeerConnector` | list of sessions, discovery thread | connect, clean up, discover, stop | one session per peer; after `Stop` no thread is left |
| `DownloadMonitor`, `TorrentTask` | endgame flag, requeue clock; counts shown on screen | wait for completion, endgame, update the task | when it returns all is saved, otherwise it throws; what it shows is coherent |
| `TorrentSession` | status, timer, components, `is_finished` | run, stop, copy of the task | final status, counts and clock are set before `is_finished`, and true of what was saved, also after an error; objects outlive the threads that use them |
| `TrackerManager` | list of trackers, update thread | first fetch, background rounds, stop | known peers stay bounded; its thread is joined |
| `UdpTracker`, `UdpConnection` | transaction id, connection id, server address | connect, announce | an answer belongs to the request it is taken for |
| `TorrentClient`, `TorrentUi` | session; snapshot on the screen | download, snapshot, run, destroy | the last snapshot is the final one; the program ends |
| `TcpConnection`, `Message` | socket descriptor, force-closed flag; bytes between two calls | connect, send, receive, close, from two threads | messages arrive whole and in order; it uses no descriptor but its own; closing ends every wait |
| `TorrentFile`, `BencodeParser`, `Sha1`, `byte_tools` | the position in the text, one flat dictionary, the info hash | load, parse, hash | a torrent is what its file says, and its info hash that of the section in the file |
| `HttpTracker`, `HttpConnection`, `TrackerFactory` | one blocking request | announce, get, parse | it asks the tracker the file names, about its torrent; peers come from whole answers only |
| `Timer`, `Logger`, the drawing, `PiecePicker` | | | see section 7 |

**Interactions.** Sessions and monitor meet in the storage only, through shared pointers to
pieces and two mutexes that no method holds across all of its work. The connector, the
session threads and the trackers' thread meet in `PeerManager`, under its one mutex, and in
the two atomic flags of a session. The user interface copies the session's task under
`task_mutex`, which the monitor's own updates do not take. At its end the session's thread
stops, in this order, the timer, the connector with all the sessions, the trackers; updates the
task; sets the status; closes the file; sets `is_finished`. It gets there from a complete download or
from an exception of the monitor that it has caught, with pieces missing; and when no peers are found it
stops everything and closes the file at once. The destructors run in the main thread.

**What is hard.**
Stale reads: `ReturnPiece` tests and pushes under different locks, the monitor decides on a
count, an emptiness and a requeue each taken at another time, cleanup asks `IsTerminated` twice.
Requeues make new objects for pieces that are still being filled. Peers send anything at any
time. Every call on the network may fail between two steps that belong together, and an exception of the monitor
starts the shutdown while sessions are at work. Write errors
are not looked at. Threads are stopped and joined while they start others, and a socket is
closed by one thread while another opens it. Streams arrive in pieces and break off anywhere. Every
hazard found is in `PROJECT.json` with its line and the properties that watch it.

## 2. Modules

| Module | Models | Extends |
|---|---|---|
| `Piece` | `Piece.cpp`, `Block.hpp`: operators over a record | |
| `FileAssembly` | abstract: what the storage promises about the output file | |
| `PieceStorage` | `PieceStorage.cpp`, and what a session does with pieces | `Piece` |
| `DownloadMonitor` | `DownloadMonitor.cpp`, the counts of `TorrentTask.cpp`, the end of `RunSession` | `PieceStorage` |
| `PeerSession` | `PeerSession.cpp`, complete | `PieceStorage` |
| `PeerConnector` | `PeerConnector.cpp`, `PeerManager.cpp` | |
| `TrackerManager` | `TrackerManager.cpp` | |
| `TorrentSession` | `TorrentSession.cpp`, `TorrentClient.cpp`, `TorrentUi::Run`, `main.cpp` | `TrackerManager` |
| `UdpTracker` | `UdpTracker.cpp`, `UdpConnection.cpp` | |
| `ByteTools`, `Message` | `byte_tools.cpp`, `Message.cpp`: operators over bytes | |
| `MessageChannel` | abstract: messages arrive whole, in order, once | |
| `TcpConnection` | `TcpConnection.cpp`, and how a session and `Stop` use it | `Message` |
| `Sha1` | `Sha1.cpp` but for the compression function | `ByteTools` |
| `Bencode` | `BencodeParser.cpp` | `Sha1` |
| `Documents` | reference: documents, their encoding, SHA-1's padding as the standard has it | `Bencode` |
| `HttpConnection` | `HttpConnection.cpp`, `TrackerFactory.cpp`: operators over text | `Documents` |
| `HttpTracker` | `TorrentFile.cpp`, `HttpTracker.cpp`, `HttpConnection::Get` | `HttpConnection` |
| `MC...` | constants and symmetry for TLC | the module named |
| `PieceStorageProofs` | what is proved of the storage, of `DownloadMonitor` and of `PeerSession` | both, `TLAPS` |
| `DocumentsProofs` | what is proved of the hash, the parser and documents | `Documents`, `Induction` |
| `HttpTrackerProofs` | what is proved of torrents, requests and answers | `HttpTracker`, `DocumentsProofs` |
| other `...Proofs` | invariants, lemmas and theorems | the module named, `TLAPS` |
| `Induction` | induction and recursion over numbers and sequences, for the proofs | `TLAPS` |

**Steps.** A step is one critical section, or a stretch that touches only what its thread
owns. Where a method releases a lock and takes another, or calls out, the step ends and a
label says where the thread stands; the head of each module lists the labels.

**`Piece`, `PieceStorage`.** A piece object is a pair of its index and a copy number, so that
the objects a requeue makes next to the old ones are told apart; `heap` maps names to
their blocks and cache, and a name nobody points to may be used again. Bytes are
`good` or `bad`: what the hash was computed from, or not. The output file has a cell for each
piece: `zero`, `good`, `bad`, or `torn` after a write that failed part way; afterwards
the stream stays failed and writes do nothing (`stream_ok`), as `ofstream` does. `PieceProcessed`
is four steps (erase the index, hash, save, let go), `ReturnPiece` three.
In this module a session in `run` may do anything a session does with a piece, and the thread of `RunSession`
may give up at any time (`given_up`): it has found no peers, or the monitor has thrown, perhaps half way through a
requeue (`RequeueThrows`). The sessions are then stopped and the file is closed with pieces missing, as after a
complete download (`TorrentSession.cpp:105-131`, `167-178`).

**`DownloadMonitor`** adds the thread of `RunSession` from its search for peers on: the monitor, one step per
call on the storage, each of which may throw, then the shutdown with its last update, the status and the closing,
or, without peers, `CleanupComponents`. **`PeerSession`** adds instead, for each session, the loops, the messages and the
failures that decide when those steps are taken. Each of the two extends `PieceStorage` and
conjoins its actions, so a step is a step of the storage with more known of its
circumstances; that this is so is proved (`MonitorRunsStorage`, `SessionsRunStorage`).
Everything known of `PieceStorage` holds in both.

**`PeerConnector`.** RunSession's thread connects the initial peers, then the discovery thread
goes on; only one of the two connects at a time, so they share `at`. Each peer has a state of
`PeerManager`; `session` is the heap of `PeerSession` objects with the two flags others can see.

**`TrackerManager`, `TorrentSession`.** The first counts peers and
runs its loop; the second composes it with the session's thread and the main thread. The
download itself is a flag that becomes true. A copy of the task made during an unlocked update
is undefined behaviour: the copy is any task at all, or the program crashes.

**`UdpTracker`.** `requests` holds all that was ever sent; what arrives is an
answer to any of them, any number of times, or nothing. Answers come from any address of the
tracker, and `recvfrom` makes that address the next destination.

**`TcpConnection`.** `socket_fd` is a plain int of two threads, so each access that a system call
separates from the others is a step: closing and forgetting a number are two, and the rest of the
program may be given that number in between (`fds` says whose each number is). The two streams are
sequences of bytes. What a call may do is decided by whose the number is at that moment: on
somebody else's, it reads or writes foreign bytes. `misused` notes that, and `caught` that `Stop`
met the session inside `EstablishConnection`. `FromPeer` and `ToPeer` refine **`MessageChannel`**:
`up` is "between two successful calls or inside one", `sent` and `delivered` are the messages given to
one side and taken whole at the other.

**`Bencode`, `Documents`.** The parser is written as the code is, with its one dictionary for all levels
and its two positions per level. The code's three functions call each other through their object; here
`Parser` is one recursive function from a call (which function, text, state, locals) to the state after it,
and an exception is a state that is not `ok`. The dictionary is the sequence of the assignments to it,
of which the last one to a name counts. What the parser should do is in `Documents`: a tree of depth
`MaxDepth` at most, its encoding (`Encode`), and what is written for a name anywhere in it (`Written`).
A name of a dictionary is one number (256 and above) instead of its letters, and counts as one byte. `Sha1` splits its input into blocks as the code does; `DigestOf`,
of the sequence of blocks, is a parameter, and TLC is given one that depends on every byte.

**`HttpTracker`.** From the bytes of a torrent file, whole or cut short, to `outcome`. The tracker reads
its request as trackers do (percent-decoding, fields by name), knows the torrent if the hash is
right, answers, and closes at any byte or never. Behind its answer it may send on, without an end and without
the pause that the timeout of a `recv` needs (`sends_on`); what of that is kept is bounded by `MaxSurplus`. What a field of a torrent must be is stated where one
thing, or nothing, is written for its name in all dictionaries together (`FieldIs`): the one dictionary
of the parser takes the last, from whatever level.

**`FileAssembly`** knows neither queue nor sessions: a piece is committed once, with good bytes, or is
cut short by a disk error, after which nothing is written; and a file is closed when
complete or, with what it holds, after the rest was given up. `PieceStorage` implements it with `committed <- saved_pieces`, `file <- output_file`,
`disk_ok <- stream_ok`, `open <- file_open` (and `given_up`).

Operators described as mutants in comments are not part of any specification. Each is a
plausible mistake in the definition after it, and the property paired with it in
`PROJECT.json` fails when it takes that definition's place.

## 3. Runs

| Run | Module, configuration | Properties |
|---|---|---|
| `storage` | `MCPieceStorage`, `PieceStorage.cfg` | `ImplementsFileAssembly`, `ExclusiveOwnership`, `QueuedPieceIsReset`, `FileIntegrity`, `NoPieceLost` |
| `monitor` | `MCDownloadMonitor`, `DownloadMonitor.cfg` | `MonitorTypeOK`, `NoDuplicateWork`, `EndgameIsSmall`, `TaskIsCoherent`, `FinishedIsAsReported` |
| `monitor_live` | `MCDownloadMonitor`, `DownloadMonitorLive.cfg` | `OneServingPeerSuffices`, `ShutdownEnds` |
| `session` | `MCPeerSession`, `PeerSession.cfg` | `PeerTypeOK`, `InflightIsPending`, `WaitsForABlock`, `HeldPieceIsAvailable`, `DisconnectedHoldsNothing` |
| `session_live` | `MCPeerSession`, `PeerSessionLive.cfg` | `StoppedThreadEnds`, `ServedPieceIsSaved` |
| `connector` | `MCPeerConnector`, `PeerConnector.cfg` | `TypeOK`, `OneSessionPerPeer`, `WaitingPeerIsIdle`, `StopLeavesNoSession`, `WaitingPeerIsTried`, `StopReturnsEventually` |
| `connector_cap` | `MCPeerConnector`, `PeerConnectorCap.cfg` | `AtMostMaxConnections`, which the code violates |
| `torrent` | `MCTorrentSession`, `TorrentSession.cfg` | `KnownPeersBounded`, `FinalSnapshotIsFinal`, `NoDanglingConnector`, `ProgramEnds` |
| `udp` | `MCUdpTracker`, `UdpTracker.cfg` | `AnswerIsForThisAnnounce`, `AskedTrackerOnly`, `AnnounceReturns` |
| `udp_port` | `MCUdpTracker`, `UdpTrackerPort.cfg` | `TrackersSeeThePort`, which the code violates |
| `tcp` | `MCTcpConnection`, `TcpConnection.cfg` | `TypeOK`, `DescriptorIsOurs`, `ImplementsMessageChannel`, `StopEnds` |
| `http` | `MCHttpTracker`, `HttpTracker.cfg` | `LoadedAsWritten`, `TrackerIsAskedAsWritten`, `PeersAreTheAnswers`, `GetReturns` |

What they show, and their bounds:

- **`storage`** (two sessions, a piece of two blocks and a shorter last one, blocks good or bad,
  disk errors). Requeues, whole or cut off by an exception, returns, mismatches, completions and the giving up in
  any order. `NoPieceLost` is claimed until the download is given up; everything else also during the shutdown. With two pieces a
  return and a requeue can concern different pieces; with two blocks a piece can be given up half
  full. `Copies` has one more member than there are sessions: each session may hold an object
  of an index while a new one is queued, so a requeue never lacks a name (its guard never
  blocks). Sessions are interchangeable; the properties do not name them, so symmetry is sound.
- **`monitor`** (one block per piece, `EndgameThreshold` 1 of two pieces). The threshold is
  below the number of pieces, so the download passes from before endgame into it. One block is
  enough since what happens inside a piece is in `storage`. The monitor throws at any of its calls, before and in
  endgame, so that the shutdown begins with sessions anywhere in their handlers: some of them still save pieces, and
  a download that failed may turn out complete when the last one is joined. `FinishedIsAsReported` says what holds at
  every end: threads gone, file closed, in it the pieces counted as saved, and status and counts say so.
- **`monitor_live`** (no symmetry, good blocks, two copies of an index). One session serves, the
  other may sit on its piece for ever: the download ends all the same if the monitor does not throw; and the
  shutdown ends after a complete download, an exception, or no peers.
  With two copies a requeue waits only while each session holds an object of its own of the last
  missing piece; the one that serves then saves it, and a third object would change nothing. The
  same steps with the third copy are in `monitor`.
- **`session`** (one piece of two blocks, one request at a time, one look at the queue per
  turn, two failures). `MaxInflightBlocks` 1 of two blocks makes the session come back for
  the second; 2 failures are one retry and the end; a peer has the piece or not. With one piece,
  `MaxTakes` 1 already exhausts the queue; more takes are in `session_live`, which has two pieces
  and one session that may see the wrong one first, turn after turn.
- **`connector`** (three peers, two slots, four session objects, no symmetry, for there is
  liveness in it). More peers than slots, so that some are left out, some fail and come back; one
  id more than peers, because a session is erased after its peer may be taken again.
  `WaitingPeerIsTried` is claimed of the behaviours in which no more peers become known than there
  are slots, and the run has those as well.
- **`torrent`** (three trackers, a list with a duplicate of the announce URL, one of its
  own, and a line that is no URL; `MaxKnownPeers` 3, `MaxAnnounced` 2). A round that begins
  just below the limit adds up to two peers for each of three trackers, the worst case of
  `KnownPeersBounded`. `known_peers` is bounded by that property itself.
- **`udp`** (two trackers, one of them with two addresses; `MaxAnnounces` 3). Late answers to a
  first and a second announce may come during the third, from the same tracker, its other
  address, or the other tracker. `ListenPort` is the program's 77777. Deadlock is not
  checked here: after the last announce the client stops.

- **`tcp`** (two descriptor numbers, two attempts, two messages on a connection, a handshake of one
  byte). Two numbers are enough for one of ours and one of somebody else's, each of which may
  become the other; the second attempt meets what the first left, and `Stop`. A stream moves all at
  once or in pieces of 3, which cuts a header of 4 and the messages of 5 bytes in every phase of
  the loops. The peer's messages are a keep-alive, one of five bytes, and a length no message may
  have.
- **`http`** (39 torrent files and all their prefixes, 7 forms of URL, 11 answers, two announces; blocks
  of 12 bytes with 8 for the length). The info sections are of every length modulo a block, so that the
  padding takes one block and two; there are nested dictionaries with the names `info` and `length`, lists
  before and after, hashes cut short, numbers that are none. One URL has a query of the tracker's own, of two
  fields, behind which the code puts a second `?` and its parameters. An answer arrives all at once, or 14 bytes first,
  which ends inside the length of its first string. Three answers are chunked; the length of one begins with `d1`,
  and it is understood by coincidence. Behind an answer come up to two bytes (`MaxSurplus`) of a `d` and a colon
  (`Surplus`), which a parser that read on would not leave alone. `GetReturns` has two premises: the timeout was set,
  and a tracker that sends on stops some time; nothing in `Get` ends it otherwise (section 6). `MaxDepth` 4 is the deepest of the documents; the
  proofs have any depth. Deadlock is not checked: after the last
  announce, or without a torrent, nothing more happens.

Deadlock is checked in all other runs; where a program has ended a stuttering step says so
(`Finished`, `Ended`), and the connector's peers may always be named again.

Bounds by name: `PieceCount`, `BlockCount`, `Sessions`, `Copies`, `EndgameThreshold` (20 in
the code), `MaxFailures` (`kMaxFailures`), `MaxTakes` (100 in the code), `MaxInflightBlocks`,
`Peers`, `SessionIds`, `MaxConnections` (50), `MaxKnownPeers` (500), `HandshakeSize` (68),
`MaxMessageSize` (100000), `BlockSize` (64), `BytesInHashContextBlock` (56), `HashSize` (20), and
`MaxAnnounced`, `MaxAnnounces`, `MaxAttempts`, `MaxMessages`, `MaxDepth`, `MaxSurplus`, `Fds`, `Chunks`, `ForeignBytes`. These
last nine, `Copies` and `SessionIds` are the model's; the others are the program's own
constants and inputs, made small. `MaxAttempts` stands for the failures a session is allowed.

**Divergences found.**

- `connector_cap`: `README.md:31` promises up to 50 concurrent connections. `ConnectToPeer`
  compares the limit with the sessions that have finished their handshake; the initial peers are
  all started in one go, and more than the limit end up connected.
- `udp_port`: `README.md:32` promises UDP trackers. The announce request ends with the
  port in four bytes where the protocol has two, and trackers read zero;
  `assets/tclient.log:16` has one of them say so.

## 4. Fairness

- Every thread that can take a step takes one in the end (`WF`): the monitor, its clock, the
  discovery thread, the thread that calls `Stop`, the trackers' thread, the main thread.
- A call on the network returns or throws: `TcpConnection::ReceiveData` polls for 5
  seconds, connecting waits with a timeout, UDP receives have `SO_RCVTIMEO`. Two calls have no such
  limit. `send` to a peer that reads nothing waits until `Stop` shuts the connection down: `StopEnds`
  shows that it does, from `WF` of the session's thread and of the one that stops it. An HTTP receive
  has a timeout only if the uninitialised `tv_usec` is below a million, and `Get` repeats it for as long as the
  tracker sends (`GetReturns`, from `WF(Get)`). That calls of trackers return is therefore an assumption of
  `TorrentSession`, which the code does not guarantee. So `WF` of a session's whole thread (`FairPeerSpec`) and of the UDP client
  (`Client`). `AnnounceReturns` shows for UDP what `TorrentSession` assumes of a tracker.
- `DownloadMonitor` has strong fairness on `stopping /\ ExitSession(s)`: a thread comes
  back to its loop's condition again and again. `StoppedThreadEnds` shows it of the
  complete session, from weak fairness alone.
- `TorrentSession` has strong fairness on the session's thread, because `task_mutex` may be
  taken each time it is wanted; the user interface holds it for one copy and then sleeps 250 ms,
  so the mutex is free almost always.
- Nothing is assumed of peers and trackers, except as the premise of a property:
  `Serves` and `Settled` in `OneServingPeerSuffices`, `ServesPiece` in `ServedPieceIsSaved`, a tracker that stops
  sending in `GetReturns`. That peers are found and that the monitor throws are never made to happen (`MonitorMay`
  has no fairness).

## 5. Proofs

A theorem is `Spec => []P` for an invariant `P`, a refinement (`Spec => ` the abstract
specification), or a fact about data; each for any values of the constants that meet the module's
assumption (`StorageAssumption`, `MonitorAssumption`, `SessionAssumption`, `ConnectorAssumption`,
`TrackerAssumption`, `UdpAssumption`, `TcpAssumption`, `FramingAssumption`, `Sha1Assumption`,
`BencodeAssumption`, `DocumentsAssumption`, `HttpAssumption`, `TorrentsAssumption`, `AnswersAssumption`,
`UrlsAssumption`, `AnnounceAssumption`). Those say that sets are
finite where sets are counted (of pieces, copies, monitored sessions), that null values are no proper
values, that limits are numbers, that messages are made of bytes. Six say more. `Sha1Assumption`: a block
has eight bytes, for the length, behind its first `BytesInHashContextBlock`.
`TorrentsAssumption`: what a torrent file was written as is a document, of any depth and size, that is a
dictionary with one `info` of its own. `AnswersAssumption`: what a tracker answers has a status, and is a document,
of any depth and size and under any names, with the digits of a chunk's length before it or without.
`FramingAssumption`: every message of a peer is a keep-alive, or its length field is that of what follows, or
is one that `ReceiveData` refuses; and a request of ours has the right length. The first of these two is no
restriction on peers: any stream of bytes is cut by its own length fields into such messages and a rest that never
becomes one. The second is what `Message::Init` computes (`InitMessage`).
`UrlsAssumption`: an HTTP announce URL is the scheme, a host in which there is no colon and no slash, perhaps a port in
decimal digits, and perhaps a path that begins with a slash; what it means is that host and that port, or port
80; and when its path has a query, no field of it has the name of one of our parameters. `AnnounceAssumption`:
a torrent file that names an HTTP tracker names one of these URLs, and SHA-1 gives bytes. Nothing is assumed of
paths and queries otherwise, nor of a file with any other kind of `announce`.

- **`PieceStorageProofs`**, of the storage itself: `TypeCorrect`, `OwnershipIsExclusive`, `FileStaysIntact`,
  `QueuedPiecesAreNew`, `ImplementsAssembly`, `NoPieceIsLost`. It begins with what the operators of
  `Piece` preserve and return.
  `ExclusiveOwnership` alone is not inductive: that two threads do not share an object now says
  nothing about the next take. `OwnershipInv` adds that an object is queued at most once and not while
  held, that a queued or returned piece is reset (`QueuedPieceIsReset`), that bytes
  between hash and write are still those hashed (`VerifiedBytesAreWritten`), and that handlers
  have their piece (`HandlersConsistent`). `NoPieceLost` rests on its two halves, `WorkInv`: an unsaved
  index is visible (queued, active, or between two critical sections), and an active
  one is worked on; both until the download is given up, for a requeue that throws leaves pieces out.
- **`PieceStorageProofs`**, of `DownloadMonitor`: `MonitorRunsStorage` (a step of the composition is one of
  the storage or none), with which the storage's theorems carry over (`MonitorLosesNoPiece`,
  `MonitorAssemblesFile`), `MonitorTypeCorrect`, `FinishedMeansAsReported`, `TaskStaysCoherent`,
  `EndgameStaysSmall`, `NothingIsDownloadedTwice`.
  - `FinishedMeansAsReported` needs `ShutdownInv`: without peers nothing was started; from the
    join on no thread runs, so that what the last update has read, and the status set after it, is still so, however
    the wait ended and whatever sessions saved meanwhile.
  - What a step of a session means to the rest is said once (`Takes`, `PutsBack`, `Saves`, `Keeps`), and
    the counting properties follow each kind. `TaskStaysCoherent`: saved pieces only grow, so what was counted
    under one lock bounds what is read under the other. `EndgameStaysSmall`: what was missing when endgame began
    bounds what is missing ever after (`FewMissing`); a session moves an object between queue and hands, and a
    requeue makes at most one per piece (`FewObjects`).
  - `NothingIsDownloadedTwice` is about sums of cardinalities. `Apart` says the same without counting: two
    objects in use or queued are of different pieces, none of a saved one. That every unsaved piece has one is
    `NoPieceLost` of the storage, and the look at the queue keeps both because before endgame there is no
    requeue.
- **`PieceStorageProofs`**, of `PeerSession`: `SessionsRunStorage` and with it `SessionsLoseNoPiece` and
  `SessionsAssembleFile`; `PeerTypeCorrect`, `InflightAgrees`, `HeldIsAvailable`,
  `NeverWaitsForNothing`, `DisconnectedReturnsPiece`. The invariant,
  `SessionInv`, says for each place in the loops what the storage's `pc` and the session's
  piece may be (`Control`), and what its requests are (`Requests`); that other sessions leave this alone
  follows from `OwnershipInv`.
- **`PeerConnectorProofs`**: `TypeCorrect`, `NoDoubleSession`, `WaitingMeansIdle`,
  `StopIsFinal`. `ConnectorInv` ties a peer's state to its session: a session belongs to a peer that is
  taken, a waiting peer has at most a terminated session that cleanup is about
  to erase, and the session not listed yet is the one at `list`.
- **`TorrentSessionProofs`**: `LastSnapshotIsFinal`, `ConnectorOutlivesTrackers`,
  `KnownPeersStayBounded`. The invariant `IInv` says what exists and what the task shows by where the session's
  thread stands, and that the last turn of the user interface comes after all of it. The bound on peers
  is `TrackersInv`: before the first fetch nobody is known; in a round, the peers known are the limit less one and
  an answer for each tracker already asked; and the list asked has no tracker twice, which is what
  the fold over the configuration's lines keeps (`FoldKeeps`).
- **`UdpTrackerProofs`**: `TypeCorrect`, `LateAnswersAreRefused`, `ExchangeStaysHome`. The
  invariant: ids belong to one request each; the awaited request is there, with the current id, for the current
  announce, to the tracker asked; the server address is an address of that tracker
  for as long as the exchange lasts.
- **`TcpConnectionProofs`**: `UsesItsOwnDescriptor`, `TypeCorrect`, `LengthIsReadBack`,
  `MessageIsReadBack`, `MessagesArriveWhole`.
  - The descriptor: `DescriptorInv` says that a Stop which was not inside `EstablishConnection` keeps the
    thread out of it (`StopKeepsOut`), and that `socket_fd` is no number or ours except in the gaps between a
    close and the assignment after it (`InBetween`), where nothing is ours (`NumberIsOurs`).
  - The buffers: `Locals` says that between calls nothing is left in them, that a message is received as four
    bytes and a rest, and that `recv` is called only while bytes are missing.
  - `MessagesArriveWhole` is `Spec => ImplementsMessageChannel`, in both directions. `StreamOf` is what a
    sequence of messages looks like on the wire. While the connection is used and `Stop` has not touched it
    (`Up`), `LinkInv` says: where the calls of a phase are (`PhaseInv`); that what is in the buffers, still to
    be read and still to be sent is the stream of the messages not yet delivered (`FromInv`); that what
    the peer has been sent, with what `SendData` still holds, is the stream of what was handed over (`ToInv`). The
    messages that can be read out of a stream so far are then the first ones of those sent
    (`MessagesIn` of a part of `StreamOf`). Each action is shown to be a step of the channel (`FromStep`,
    `ToStep`) or none.
- **`DocumentsProofs`**: `PaddingIsTheStandards`, `DocumentIsReadBack`, `CutDocumentIsNotRead`.
  - Padding: `Update` has processed the full blocks of the text and keeps the rest (`AllAreProcessed`), and
    `ApplyPadding` makes one block or two of it, by whether the mark and the length fit
    (`PaddingInTheBlock`, `PaddingInTwoBlocks`); that these are the last blocks of the standard is shown
    byte by byte (`Agree`). The standard's length is in digits of its own, by repeated division (`EightDigits`),
    and the shifts of `uint64_to_bytes` are shown to give the same eight (`DigitsAreBytes`).
  - The parser is defined by recursion over calls, and it is proved first that there is such a function: each
    call it makes has a smaller measure (`SizeOf`), of the bytes left and of which function is called. Every call
    then meets its equation (`ParserIsBody`). The same is done for the functions of `Documents`, over the
    depth of a document (`DocumentRecursion`).
  - `DocumentIsReadBack`: a document is read wherever it stands (`Readable`). The statement has what is before
    and behind the document, and what had been assigned before, for otherwise it is not one that passes from the
    parts of a list to the list. It is proved by induction over documents (`DocumentInduction`), and inside
    over the entries; the loop of `ProcessDict` takes a turn for a name (`KeyTurn`) and one for a value
    (`ValueTurn`), and its two positions enclose the `info` at its own level (`OneInfo`).
  - `CutDocumentIsNotRead`: a text cut inside an entry fails in it, and one cut between two entries lacks the
    end mark; so a whole document is not the beginning of another one, either.
- **`HttpTrackerProofs`**: `TorrentsAreLoadedAsWritten`, `EncodedIsDecoded`, `TrackersAreAskedAsWritten`,
  `PeersAreThoseOfTheAnswer`.
  - `TorrentsAreLoadedAsWritten`: `LoadedInv` says that the file is a beginning of the document's text, and that
    a loaded torrent is good. What is looked up is what was assigned last; that the assignments are all
    the entries of the document (`LogHoldsEntries`) gives the fields. The attempt
    showed that it must not name the dictionary a field is in: with a `length` in some other dictionary only,
    `TorrentFile::Load` takes that one (hence `Written`).
  - `EncodedIsDecoded`: of every byte `UrlEncode` writes itself or three characters, of which the first is the
    percent sign and the other two give the byte back (`ByteIsDecoded`, by cases over the hexadecimal digits); none of them is
    an ampersand.
  - `TrackersAreAskedAsWritten`: `AskedInv` is `LoadedInv` with what it lacks for the request: the announce and
    the length of a loaded torrent, even where they come from another dictionary than the outer one, are values the file
    has, and the request is the one built from them (`RequestFor`). The URL is taken apart at its first slash and its first
    colon (`UrlIsParsed`). The path that is asked for is that of the URL, a `?` and our parameters; the tracker splits
    what is behind the *first* `?` at the ampersands, and may find an own field glued to our first parameter, but
    never to the info hash or the length (`FieldsJoin`, `ParametersAreRead`). So `compact=1`, the first in the order of the
    `std::map`, is the one a tracker with its own query does not get.
  - `PeersAreThoseOfTheAnswer`: `AnswerInv` says that what `Get` has of an answer and what is on the wire are,
    joined, a beginning of its bytes, or all of them and more (`Arriving`), that nothing has arrived before the request is sent, and that
    nothing is returned while an announce is under way. `ParseIsRight` has the rest: the headers have arrived when
    the blank line has, and the body is then whole, perhaps with more behind it, which the parser does not reach, or cut, and a cut
    document is not read (`PlainAnswer`). Where
    several things are written for `peers`, in dictionaries of any level, one of them is returned
    (`FieldIsWritten`). A first attempt at this theorem claimed that no answer in chunks is understood. It is false:
    the parser throws at the hexadecimal digits of a length or reads them as the length of a string, but a `d` begins
    a dictionary (`ChunkedAnswer`). The property, and the run, now say so.
- **`Induction`** has what the others need of induction. The library's theorems have operators as
  parameters, which no prover here can instantiate; here a property is the set of the numbers, or sequences, that
  have it, and the body of a recursion a function: `InductionOnNat`, `SequenceInduction`, `Recursion`
  (a recursive function meets its equation), `FoldKeeps` (what each step of a fold keeps, the fold keeps), by
  well-founded sets of the library. Sequences are treated by
  the names `Cat`, `Take`, `Drop`, `One`, whose laws are proved once.

**Model-checked only.** All liveness (TLAPS does not do fairness): the ten properties of the runs that say
something happens in the end, from `OneServingPeerSuffices` to `GetReturns`. Every invariant and every refinement that a
passing run checks is a theorem.

## 6. What the code does that one may not expect

None of this contradicts a promise, and no property claims otherwise; the models have it.

- No request times out. A peer that is silent but connected keeps its piece until endgame, and more
  silent sessions than `kEndgameThreshold` before endgame stall the download.
- Write errors are not looked at. After one, pieces still count as saved and the session
  reports completion (`FileIntegrity` says what the file then holds).
- Of the peers taken in one turn of discovery only as many as there are slots are connected;
  the others stay `kConnecting` and are never tried again.
- A session that ends between the two passes of cleanup is erased unmarked; its peer stays
  `kConnected`, unused.
- `ReturnPiece` leaves the index of a piece saved meanwhile in `active_pieces`. Only
  `HasActiveWork` reads them, to pace the monitor.
- A bitfield that is not the first message is ignored, and with it every later `have`.
- Snapshots during the download may be torn (an unlocked vector assignment next to a copy).
- `TorrentSession::Stop` sets a flag `RunSession` never reads, so destroying the client
  waits for the whole download.
- When the output file cannot be opened the exception leaves the thread and ends the program.
- `SendData` waits for room without a timeout: the socket is blocking again after the connection is
  made, so its `EAGAIN` branch with the 5 seconds is never reached. The rate of a session is that of
  its peer, and only `Stop` ends the wait.
- A `Stop` that meets `EstablishConnection` may set the flag before it is cleared, close a number the
  session has just closed (by then perhaps another thread's), or forget a socket the session has
  just opened, which then stays open. It ends all the same: `is_terminated` is looked at later.
- `HttpConnection::Get` receives until the connection ends or one `recv` times out; it limits neither the time nor
  the length of an answer. A tracker that sends a byte every few seconds, or does not stop, keeps the thread that
  asked, and the growing answer, for ever; `Stop` would join it in vain.
- An exception out of `WaitForCompletion` is caught; the session ends with the pieces it has, in a file of the full
  length, and says "incomplete" only if some are still missing when its threads have been joined.
- `HttpConnection::Get` leaves `tv_usec` and most of `hints` uninitialised, and sends without
  `MSG_NOSIGNAL`: to a tracker that has reset the connection it may end the program by `SIGPIPE`.
- An HTTP answer with chunked transfer encoding, which a request for HTTP/1.1 allows, is not
  understood, unless by coincidence: when the chunk's length begins with a `d` in hexadecimal, as 209 does, that
  `d` is read as the beginning of a dictionary. An announce URL with a `?` gets a second one.
- Names in a nested dictionary of a torrent file override those outside it; the info hash is right
  all the same.
- A repeated UDP CONNECT answer is read as the answer to the ANNOUNCE, and fails it.

## 7. What is not modelled

- In `PeerSession` messages arrive parsed, as `TcpConnection` delivers them; those cut short inside (a
  `have` without its index) and bitfields of a wrong length are left out.
- `Sha1`'s compression function: arithmetic on 512-bit blocks. In `PieceStorage` the hash is an ideal
  one: it tells good bytes from bad.
- `Timer`: `TorrentSession` has what the program uses of it, that it is new, runs, or has stopped;
  nobody pauses it. `Logger`: a list of texts under a lock, of which the last are shown.
- `UiRenderer`, `UiFormatter`, `TorrentSnapshot`: formatting and drawing.
- Numbers near 2^64: the sum `position + amount` in `ReadFixedAmount`, which wraps around there, lengths at which
  `std::stoull` throws, ports beyond an int. Before digits `std::stoull` also takes blanks and a sign: a
  torrent whose `length` is written so is loaded by the code, and not by the model; no property is about one.
- Exceptions for want of memory where `RunSession` has no handler: in `ConnectToPeer` and `StartDiscovery` before
  `WaitForCompletion`, in `UpdateTask` after the join. They end the program by `std::terminate`, as an output file
  that cannot be opened does, which is modelled.
- The parameters `port`, `uploaded`, `downloaded` and `event` of an HTTP announce, which do not depend on the torrent.
- `PiecePicker`: compiled, used by nothing.
- Times are not counted: an interval has passed or not, a timeout comes or not.
- Abstractions inside the modules: the order in which peers are listed (any order); the
  failures of a session in `PeerConnector` (any number; they are counted in `PeerSession`);
  percentages, byte counts and texts of `TorrentTask`; random transaction ids are distinct.

## 8. Plan

Done: the storage and its abstract specification, the monitor, the sessions, the connector, the
program's life with the trackers, the UDP exchange, the connection with its channel, and the way from a
torrent file over HTTP to peers; theorems for every invariant and refinement. Next: a composition of
`PeerConnector` with the life of `PeerSession`, so that the count of failures and the cleanup are seen together.
