---------------------------- MODULE HttpTracker ----------------------------
(***************************************************************************)
(* From a torrent file to the peers of an HTTP tracker: TorrentFile::Load  *)
(* (core/TorrentFile.cpp), then announces (tracker/HttpTracker.cpp), each  *)
(* with a tracker object of TrackerFactory's and one request of            *)
(* HttpConnection::Get.  The file may be cut short.  The tracker may be    *)
(* away, close the connection at any byte, say nothing more, or never stop *)
(* sending: Get sets no limit to what it receives, nor to how long.        *)
(*                                                                         *)
(* `at':                                                                   *)
(*    load       before TorrentFile::Load                                  *)
(*    no_torrent it has thrown, and the program ends                       *)
(*    idle       no announce under way                                     *)
(*    resolve -> socket -> connect -> send -> recv -> parse      an announce *)
(*    udp        CreateTracker has made a UdpTracker, see that module      *)
(*    killed     by SIGPIPE, which nothing in the program handles and this *)
(*               send, without MSG_NOSIGNAL, may raise                     *)
(***************************************************************************)
EXTENDS HttpConnection

CONSTANTS
  Torrents,      \* documents in torrent files
  Urls,          \* announce URLs, and what they mean: text, host, port
  Answers,       \* what a tracker may answer: status, chunk, document
  PeerId,        \* the program's own peer id
  Chunks,        \* in how many bytes an answer may arrive, unless all at once
  Surplus,       \* the bytes that a tracker may send behind its answer
  MaxSurplus,    \* a bound: how many of them are kept; nothing reads them
  MaxAnnounces   \* a bound: announces made

ASSUME HttpAssumption ==
  /\ {MaxSurplus, MaxAnnounces} \cup Surplus \subseteq Nat
  /\ Chunks \subseteq Nat \ {0} /\ PeerId \in Text

(* A torrent file is a dictionary, and there is one `info' in it, not       *)
(* counting those in other dictionaries.                                    *)
ASSUME TorrentsAssumption ==
  \A d \in Torrents :
    /\ d \in AllDocuments /\ Kind(d) = "dictionary"
    /\ \E k \in DOMAIN Names(d) : \A j \in DOMAIN Names(d) : Names(d)[j] = InfoKey <=> j = k

(* With chunked transfer, which HTTP/1.1 allows, the document is a chunk of  *)
(* the answer, and the digits of its length come first; without, there are  *)
(* none.                                                                    *)
HexDigits == (48 .. 57) \cup (65 .. 70) \cup (97 .. 102)

ASSUME AnswersAssumption ==
  \A a \in Answers :
    /\ a.status \in {StatusOk, StatusOther} /\ a.chunk \in Seq(HexDigits)
    /\ a.body \in AllDocuments

VARIABLES
  document,     \* what the writer of the torrent file meant
  file,         \* the bytes on disk
  torrent,      \* the TorrentFile, or NoTorrent
  at,
  announces,
  has_timeout,  \* setsockopt has set SO_RCVTIMEO
  request,      \* what the tracker is asked, or NoRequest
  answer,       \* what the tracker answers, or NoAnswer
  wire,         \* what is left of it
  server_open,  \* the tracker's end of the connection
  sends_on,     \* the tracker sends on, never pausing for kTimeout
  response,     \* what Get has of it
  outcome       \* what the last announce returned

vars == <<document, file, torrent, at, announces, has_timeout, request, answer, wire,
          server_open, sends_on, response, outcome>>

InGet == {"resolve", "socket", "connect", "send", "recv"}

NoTorrent == [loaded |-> FALSE]
NoRequest == [kind |-> "none"]
NoAnswer == [status |-> "none"]
Failed == [kind |-> "error", peers |-> <<>>]

Init ==
  /\ document \in Torrents
  /\ file \in Prefixes(Encode[document])
  /\ torrent = NoTorrent
  /\ at = "load"
  /\ announces = 0
  /\ has_timeout = TRUE
  /\ request = NoRequest
  /\ answer = NoAnswer /\ wire = <<>> /\ server_open = FALSE /\ sends_on = FALSE
  /\ response = <<>>
  /\ outcome = Failed

-----------------------------------------------------------------------------
(* TorrentFile::Load.                                                       *)
Zero == <<48>>

(* stoull throws when there is no number.                                   *)
CanLoad(state) ==
  /\ state.ok
  /\ \A key \in {PieceLengthKey, LengthKey} : StartsWithDigit(Lookup(state.info_dict, key, Zero))

(* Without `info' there is no hash.                                         *)
HashOf(section) == IF section = <<>> THEN <<>> ELSE Compute(section)

TorrentOf(text, state) ==
  [loaded       |-> TRUE,
   announce     |-> Lookup(state.info_dict, AnnounceKey, <<>>),
   comment      |-> Lookup(state.info_dict, CommentKey, <<>>),
   piece_length |-> stoull(Lookup(state.info_dict, PieceLengthKey, Zero)),
   length       |-> stoull(Lookup(state.info_dict, LengthKey, Zero)),
   name         |-> Lookup(state.info_dict, NameKey, <<>>),
   info_hash    |-> HashOf(Section(text, state)),
   piece_hashes |-> ExtractPieceHashes(state.info_dict)]

Load ==
  /\ at = "load"
  /\ LET state == ParseString(file)
     IN IF CanLoad(state)
        THEN at' = "idle" /\ torrent' = TorrentOf(file, state)
        ELSE at' = "no_torrent" /\ UNCHANGED torrent
  /\ UNCHANGED <<document, file, announces, has_timeout, request, answer, wire, server_open,
                 sends_on, response, outcome>>

-----------------------------------------------------------------------------
(* CreateTracker and the beginning of Announce and Get.  tv_usec is not     *)
(* initialised: with too large a value setsockopt sets no timeout.  Of the  *)
(* parameters port, uploaded, downloaded and event are left out: numbers    *)
(* and a word that do not depend on the file.                               *)
Params ==
  <<<<1, <<49>>>>, <<2, torrent.info_hash>>, <<3, Decimal[torrent.length]>>, <<4, PeerId>>>>

HttpRequest ==
  LET url == ParseUrl(torrent.announce)
  IN [kind |-> "http", host |-> url.host, port |-> url.port,
      path |-> url.path \o <<Question>> \o BuildQuery(Params)]

UdpRequest ==
  LET url == ParseUdpUrl(torrent.announce)
  IN [kind |-> "udp", host |-> url.host, port |-> url.port]

CanAsk ==
  IF IsUdpTracker(torrent.announce)
  THEN ParseUdpUrl(torrent.announce).ok
  ELSE ParseUrl(torrent.announce).ok

Announce ==
  /\ at = "idle" /\ torrent.announce # <<>>
  /\ announces < MaxAnnounces
  /\ announces' = announces + 1
  /\ has_timeout' \in BOOLEAN
  /\ outcome' = Failed
  /\ response' = <<>>
  /\ answer' = NoAnswer /\ wire' = <<>>
  /\ IF ~CanAsk
     THEN at' = "idle" /\ request' = NoRequest
     ELSE IF IsUdpTracker(torrent.announce)
     THEN at' = "udp" /\ request' = UdpRequest
     ELSE at' = "resolve" /\ request' = HttpRequest
  /\ UNCHANGED <<document, file, torrent, server_open, sends_on>>

Proceed(from, to) ==
  /\ at = from /\ at' = to
  /\ UNCHANGED <<document, file, torrent, announces, has_timeout, request, answer, wire,
                 sends_on, response, outcome>>

Resolve == Proceed("resolve", "socket") /\ UNCHANGED server_open

OpenSocket == Proceed("socket", "connect") /\ UNCHANGED server_open

Connect == Proceed("connect", "send") /\ server_open' = TRUE

(* getaddrinfo, socket or connect fails, and Get throws.                    *)
CallFails ==
  /\ at \in {"resolve", "socket", "connect"}
  /\ Proceed(at, "idle") /\ UNCHANGED server_open

Moved(size) == {size} \cup {n \in Chunks : n < size}

(* Whether it has sent the whole request, or a part, is not looked at.      *)
SendIsLost ==
  /\ Proceed("send", "recv") /\ UNCHANGED server_open

SendToClosed ==
  /\ ~server_open
  /\ Proceed("send", "killed") /\ UNCHANGED server_open

-----------------------------------------------------------------------------
(* The tracker: what it reads in a request for a path, and its answer.      *)
PercentDecode[text \in Text] ==
  LET HexValue(digit) == IF digit < 58 THEN digit - 48 ELSE digit - 55
  IN IF text = <<>> THEN <<>>
     ELSE IF text[1] # Percent \/ Len(text) < 3
     THEN <<text[1]>> \o PercentDecode[Tail(text)]
     ELSE <<16 * HexValue(text[2]) + HexValue(text[3])>> \o PercentDecode[From(text, 4)]

(* The fields between ampersands; of them the one that begins with a name.  *)
Fields[text \in Text] ==
  IF ~Contains(text, Ampersand) THEN {text}
  ELSE {UpTo(text, Ampersand)} \cup Fields[From(text, Find(text, Ampersand) + 1)]

(* An announce URL of HTTP, as trackers give it out: a host, perhaps a port, *)
(* and a path, perhaps with a query of the tracker's own, in which nothing  *)
(* has the name of a parameter.                                             *)
OwnQuery(rest) ==
  IF Contains(rest, Question) THEN From(rest, Find(rest, Question) + 1) ELSE <<>>

ASSUME UrlsAssumption ==
  \A url \in Urls :
    /\ url \in [text : Text \ {<<>>}, host : Seq(Nat \ {Colon, Slash}), port : Nat]
    /\ url.text[1] = HttpScheme =>
         \E port \in {<<>>, <<Colon>>, <<Colon>> \o Decimal[url.port]}, n \in 1 .. Len(url.text) :
           LET rest == From(url.text, n + 1)
           IN /\ url.text = <<HttpScheme>> \o url.host \o port \o rest
              /\ port = <<>> => url.port = 80
              /\ rest # <<>> => rest[1] = Slash
              /\ \A field \in Fields[OwnQuery(rest)], name \in 1 .. 4 :
                   ~IsPrefix(<<name, Equals>>, field)

(* A torrent file that names an HTTP tracker names one of these; and SHA-1  *)
(* gives bytes.                                                             *)
ASSUME AnnounceAssumption ==
  \A d \in Torrents :
    /\ \A a \in Written(d, AnnounceKey) :
         Kind(a) = "string" /\ Content(a) # <<>> /\ Content(a)[1] = HttpScheme =>
           \E url \in Urls : Content(a) = url.text
    /\ StandardHash(Encode[Entry(d, InfoKey)]) \in Seq(Byte)

ReadParam(path, name) ==
  LET fields == {field \in Fields[From(path, Find(path, Question) + 1)] :
                   IsPrefix(<<name, Equals>>, field)}
  IN IF fields = {} THEN <<>>
     ELSE PercentDecode[From(CHOOSE field \in fields : TRUE, 3)]

InfoSection == Encode[Entry(document, InfoKey)]

KnowsTorrent == ReadParam(request.path, 2) = StandardHash(InfoSection)

Refusal == [status |-> StatusOk, chunk |-> <<>>,
            body |-> Dictionary(<<<<FailureReasonKey, String(<<1>>)>>>>)]

(* The chunk, and the empty one that is the last.                           *)
ChunkOf(digits, text) ==
  digits \o <<LineEnd>> \o text \o <<LineEnd, 48, LineEnd, LineEnd>>

BytesOf(a) ==
  <<a.status, Header, BlankLine>>
    \o IF a.chunk = <<>> THEN Encode[a.body] ELSE ChunkOf(a.chunk, Encode[a.body])

TrackerAnswers(a) ==
  /\ at = "send" /\ server_open
  /\ a \in (IF KnowsTorrent THEN Answers ELSE {Refusal})
  /\ at' = "recv"
  /\ answer' = a /\ wire' = BytesOf(a)
  /\ sends_on' \in BOOLEAN
  /\ UNCHANGED <<document, file, torrent, announces, has_timeout, request, server_open,
                 response, outcome>>

TrackerPauses ==
  /\ sends_on /\ sends_on' = FALSE
  /\ UNCHANGED <<document, file, torrent, at, announces, has_timeout, request, answer, wire,
                 server_open, response, outcome>>

(* It closes the connection when it likes; some bytes still arrive.         *)
ServerCloses ==
  /\ server_open /\ server_open' = FALSE
  /\ sends_on' = FALSE
  /\ \E n \in {0} \cup Moved(Len(wire)) : wire' = SubSeq(wire, 1, n)
  /\ UNCHANGED <<document, file, torrent, at, announces, has_timeout, request, answer,
                 response, outcome>>

-----------------------------------------------------------------------------
(* Get's loop, which ends at the end of the connection or at any error.     *)
RecvSome ==
  /\ at = "recv" /\ wire # <<>>
  /\ \E n \in Moved(Len(wire)) :
       response' = response \o SubSeq(wire, 1, n) /\ wire' = From(wire, n + 1)
  /\ UNCHANGED <<document, file, torrent, at, announces, has_timeout, request, answer,
                 server_open, sends_on, outcome>>

(* What the tracker sends behind its answer is received like it.            *)
RecvSurplus ==
  /\ at = "recv" /\ wire = <<>> /\ sends_on
  /\ Len(response) < Len(BytesOf(answer)) + MaxSurplus
  /\ \E byte \in Surplus : response' = Append(response, byte)
  /\ UNCHANGED <<document, file, torrent, at, announces, has_timeout, request, answer, wire,
                 server_open, sends_on, outcome>>

RecvEnds ==
  /\ wire = <<>> /\ ~server_open
  /\ Proceed("recv", "parse") /\ UNCHANGED server_open

(* A mutant: a timeout is no reason to leave the loop.                      *)
RecvAgain ==
  /\ has_timeout /\ ~sends_on
  /\ Proceed("recv", "recv") /\ UNCHANGED server_open

(* The timeout is one of each recv, not of the whole.                       *)
RecvTimesOut ==
  /\ has_timeout /\ ~sends_on
  /\ Proceed("recv", "parse") /\ server_open' = FALSE

(* ParseTrackerResponse.                                                    *)
PeerAt(data, k) ==
  [ip   |-> SubSeq(data, 6 * k - 5, 6 * k - 2),
   port |-> data[6 * k - 1] * 256 + data[6 * k]]

ParseCompactPeers(data) ==
  IF Len(data) % 6 # 0 THEN Failed
  ELSE [kind |-> "peers", peers |-> [k \in 1 .. Len(data) \div 6 |-> PeerAt(data, k)]]

PeersData(state) == Lookup(state.info_dict, PeersKey, <<>>)

(* A mutant: what was parsed before an exception counts.                    *)
NamesPeersInPart(state) ==
  /\ Lookup(state.info_dict, FailureReasonKey, <<>>) = <<>>
  /\ PeersData(state) # <<>>

NamesPeers(state) ==
  /\ state.ok
  /\ Lookup(state.info_dict, FailureReasonKey, <<>>) = <<>>
  /\ PeersData(state) # <<>>

ParseTrackerResponse(text) ==
  LET state == ParseString(text)
  IN IF NamesPeers(state) THEN ParseCompactPeers(PeersData(state)) ELSE Failed

Parse ==
  /\ at = "parse" /\ at' = "idle"
  /\ outcome' = IF ParseResponse(response).ok
                THEN ParseTrackerResponse(ParseResponse(response).body)
                ELSE Failed
  /\ UNCHANGED <<document, file, torrent, announces, has_timeout, request, answer, wire,
                 server_open, sends_on, response>>

-----------------------------------------------------------------------------
Get ==
  \/ Resolve
  \/ OpenSocket
  \/ Connect
  \/ CallFails
  \/ SendIsLost
  \/ SendToClosed
  \/ RecvSome
  \/ RecvSurplus
  \/ RecvEnds
  \/ RecvTimesOut

Next ==
  \/ Load
  \/ Announce
  \/ Get
  \/ Parse
  \/ \E a \in Answers \cup {Refusal} : TrackerAnswers(a)
  \/ TrackerPauses
  \/ ServerCloses

Spec == Init /\ [][Next]_vars

-----------------------------------------------------------------------------
(* What is written for a name, when it is only one thing and of one kind.   *)
OnlyOne(name, kind) ==
  {d \in Written(document, name) : Written(document, name) = {d} /\ Kind(d) = kind}

FieldIs(field, name, kind, default) ==
  /\ Written(document, name) = {} => field = default
  /\ \A d \in OnlyOne(name, kind) : field = Content(d)

PiecesAre(hashes) ==
  /\ Written(document, PiecesKey) = {} => hashes = <<>>
  /\ \A d \in OnlyOne(PiecesKey, "string") :
       /\ IsPrefix(FlattenSeq(hashes), Content(d))
       /\ Len(hashes) = Len(Content(d)) \div HashSize
       /\ \A k \in DOMAIN hashes : Len(hashes[k]) = HashSize

FieldsAreAsWritten ==
  /\ FieldIs(torrent.announce, AnnounceKey, "string", <<>>)
  /\ FieldIs(torrent.comment, CommentKey, "string", <<>>)
  /\ FieldIs(torrent.name, NameKey, "string", <<>>)
  /\ FieldIs(torrent.length, LengthKey, "number", 0)
  /\ FieldIs(torrent.piece_length, PieceLengthKey, "number", 0)
  /\ PiecesAre(torrent.piece_hashes)

(* A torrent is loaded from a whole file only.  Its info hash is the SHA-1  *)
(* of the `info' of the outermost dictionary, padded as the standard says,  *)
(* whatever other dictionaries are in the file.  Its fields are as written  *)
(* where nothing else is written for their names: the parser keeps one      *)
(* dictionary for all levels.  (Nothing changes a torrent after it is       *)
(* loaded.)                                                                 *)
LoadedAsWritten ==
  torrent.loaded /\ announces = 0 =>
    /\ file = Encode[document]
    /\ torrent.info_hash = StandardHash(InfoSection)
    /\ FieldsAreAsWritten

(* The tracker named in the file is asked, at the port the URL says, for    *)
(* the info hash and the length of the file: through the parser, SHA-1, the *)
(* encoding of the query and back.                                          *)
TrackerIsAskedAsWritten ==
  at = "send" =>
    /\ \A announce \in OnlyOne(AnnounceKey, "string") :
         [text |-> Content(announce), host |-> request.host, port |-> request.port] \in Urls
    /\ ReadParam(request.path, 2) = StandardHash(InfoSection)
    /\ \A length \in OnlyOne(LengthKey, "number") :
         ReadParam(request.path, 3) = Decimal[Content(length)]

CompactPeers(data) ==
  [k \in 1 .. Len(data) \div 6 |->
     LET peer == SubSeq(data, 6 * (k - 1) + 1, 6 * k)
     IN [ip   |-> SubSeq(peer, 1, 4),
         port |-> bytes_to_int32(<<0, 0>> \o SubSeq(peer, 5, 6))]]

(* The documents in an answer that are meant to be the peers, as strings.   *)
StringOf(d) == IF Kind(d) = "number" THEN Decimal[Content(d)] ELSE Content(d)

Says(d) == Kind(d) = "number" \/ (Kind(d) = "string" /\ Content(d) # <<>>)

Fails(body) ==
  /\ Written(body, FailureReasonKey) # {}
  /\ \A reason \in Written(body, FailureReasonKey) : Says(reason)

(* Peers come from an answer to this announce with the right status.  It    *)
(* has arrived whole and says no failure, and they are the peers written in *)
(* it: however the bytes arrive, whatever comes behind them, and although   *)
(* neither lengths nor the end of the connection are looked at.  Only in    *)
(* chunks an answer may be taken for another document: when its length      *)
(* begins with a d.                                                         *)
PeersAreTheAnswers ==
  outcome.kind = "peers" =>
    /\ answer.status = StatusOk
    /\ \/ answer.chunk # <<>> /\ answer.chunk[1] = Dict
       \/ /\ answer.chunk = <<>> /\ IsPrefix(BytesOf(answer), response)
          /\ ~Fails(answer.body)
          /\ \E d \in Written(answer.body, PeersKey) :
               Says(d) /\ outcome.peers = CompactPeers(StringOf(d))

(* No call inside Get waits for ever: connecting and sending end in the     *)
(* kernel, and a recv ends when something comes, or after its timeout.      *)
FairSpec == Spec /\ WF_vars(Get)

(* With a timeout set, and a tracker that does not send for ever, Get ends, *)
(* wherever the tracker stops and whether or not it closes the connection.  *)
(* Nothing in Get ends it while the tracker sends on.                       *)
GetReturns ==
  (sends_on ~> ~sends_on) =>
    ((at \in InGet /\ has_timeout) ~> (at \in {"parse", "idle", "killed"}))
=============================================================================
