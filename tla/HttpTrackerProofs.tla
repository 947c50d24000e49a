------------------------- MODULE HttpTrackerProofs -------------------------
(***************************************************************************)
(* Theorems about HttpTracker: a torrent is loaded as it is written, its   *)
(* tracker is asked for what it holds, and the peers that an announce      *)
(* returns are those of an answer that has arrived whole.                  *)
(***************************************************************************)
EXTENDS HttpTracker, DocumentsProofs

-----------------------------------------------------------------------------
(* What is read of a field, when there is one thing or nothing written.     *)
FieldGood(field, d, name, kind, default) ==
  /\ Written(d, name) = {} => field = default
  /\ \A e : Written(d, name) = {e} /\ Kind(e) = kind => field = Content(e)

PiecesGood(hashes, d) ==
  /\ Written(d, PiecesKey) = {} => hashes = <<>>
  /\ \A e : Written(d, PiecesKey) = {e} /\ Kind(e) = "string" =>
       /\ IsPrefix(FlattenSeq(hashes), Content(e))
       /\ Len(hashes) = Len(Content(e)) \div HashSize
       /\ \A k \in DOMAIN hashes : Len(hashes[k]) = HashSize

LEMMA ContentsAre ==
  ASSUME NEW e \in AllDocuments
  PROVE  /\ Kind(e) = "string" => Content(e) \in Text /\ ValueOf(e) = Content(e)
         /\ Kind(e) = "number" => Content(e) \in Nat /\ ValueOf(e) = Decimal[Content(e)]
<1>1. ASSUME NEW n \in Nat, e = Number(n)
      PROVE  Kind(e) = "number" /\ Content(e) = n /\ ValueOf(e) = Decimal[n]
  BY <1>1, KindsAre, ValuesAre
<1>2. ASSUME NEW b \in Text, e = String(b)
      PROVE  Kind(e) = "string" /\ Content(e) = b /\ ValueOf(e) = b
  BY <1>2, KindsAre, ValuesAre
<1>3. ASSUME NEW s, e = ListOf(s) PROVE Kind(e) = "list"
  BY <1>3, KindsAre
<1>4. ASSUME NEW s, e = Dictionary(s) PROVE Kind(e) = "dictionary"
  BY <1>4, KindsAre
<1> QED  BY <1>1, <1>2, <1>3, <1>4, DocumentIs

LEMMA StringField ==
  ASSUME NEW d \in AllDocuments, NEW name \in Nat, NEW default
  PROVE  FieldGood(Lookup(LogOf(d), name, default), d, name, "string", default)
<1>1. ASSUME NEW e, Written(d, name) = {e}, Kind(e) = "string"
      PROVE  Lookup(LogOf(d), name, default) = Content(e)
  <2>1. e \in AllDocuments /\ Lookup(LogOf(d), name, default) = ValueOf(e)
    BY <1>1, FieldIsRead
  <2> QED  BY <1>1, <2>1, ContentsAre
<1>2. Written(d, name) = {} => Lookup(LogOf(d), name, default) = default
  BY FieldIsRead
<1> QED  BY <1>1, <1>2 DEF FieldGood

LEMMA NumberField ==
  ASSUME NEW d \in AllDocuments, NEW name \in Nat
  PROVE  FieldGood(stoull(Lookup(LogOf(d), name, Zero)), d, name, "number", 0)
<1>1. ASSUME NEW e, Written(d, name) = {e}, Kind(e) = "number"
      PROVE  stoull(Lookup(LogOf(d), name, Zero)) = Content(e)
  <2>1. e \in AllDocuments /\ Lookup(LogOf(d), name, Zero) = ValueOf(e)
    BY <1>1, FieldIsRead
  <2>2. Content(e) \in Nat /\ ValueOf(e) = Decimal[Content(e)]
    BY <1>1, <2>1, ContentsAre
  <2>3. stoull(Decimal[Content(e)]) = Content(e)
    BY <2>2, NumberIsReadBack
  <2> QED  BY <2>1, <2>2, <2>3
<1>2. Zero = Decimal[0]
  <2>1. Decimal[0] = One(48 + 0)
    BY DecimalIs
  <2> QED  BY <2>1 DEF Zero, One
<1>3. stoull(Zero) = 0
  BY <1>2, NumberIsReadBack
<1>4. Written(d, name) = {} => stoull(Lookup(LogOf(d), name, Zero)) = 0
  BY <1>3, FieldIsRead
<1> QED  BY <1>1, <1>4 DEF FieldGood

LEMMA PiecesField ==
  ASSUME NEW d \in AllDocuments
  PROVE  PiecesGood(ExtractPieceHashes(LogOf(d)), d)
<1> DEFINE data == Lookup(LogOf(d), PiecesKey, <<>>)
           hashes == ExtractPieceHashes(LogOf(d))
<1>1. hashes = HashesIn(data)
  BY Zenon DEF ExtractPieceHashes, HashesIn
<1>2. FieldGood(data, d, PiecesKey, "string", <<>>)
  BY StringField DEF PiecesKey
<1>3. ASSUME NEW e, Written(d, PiecesKey) = {e}, Kind(e) = "string"
      PROVE  data = Content(e) /\ Content(e) \in Text
  <2>1. e \in AllDocuments
    BY <1>3, FieldIsRead DEF PiecesKey
  <2> QED  BY <1>2, <1>3, <2>1, ContentsAre DEF FieldGood
<1>4. Written(d, PiecesKey) = {} => data = <<>>
  BY <1>2 DEF FieldGood
<1> HIDE DEF data, hashes
<1>5. ASSUME data = <<>> PROVE hashes = <<>>
  <2>1. Len(data) \div HashSize = 0
    BY <1>5, BencodeAssumption
  <2>2. HashesIn(data) = [k \in 1 .. 0 |-> SubSeq(data, (k - 1) * HashSize + 1, k * HashSize)]
    BY <2>1 DEF HashesIn
  <2>3. HashesIn(data) = <<>>
    BY <2>2
  <2> QED  BY <1>1, <2>3
<1>6. ASSUME NEW e, Written(d, PiecesKey) = {e}, Kind(e) = "string"
      PROVE  /\ IsPrefix(FlattenSeq(hashes), Content(e))
             /\ Len(hashes) = Len(Content(e)) \div HashSize
             /\ \A k \in DOMAIN hashes : Len(hashes[k]) = HashSize
  <2>1. data = Content(e) /\ data \in Text
    BY <1>3, <1>6
  <2> QED  BY <1>1, <2>1, HashesAre
<1>7. Written(d, PiecesKey) = {} => hashes = <<>>
  BY <1>4, <1>5
<1> QED  BY <1>6, <1>7 DEF PiecesGood, hashes

(* What TorrentFile::Load makes of a whole file.                            *)
TorrentGood(t, d) ==
  /\ t.info_hash = StandardHash(Encode[Entry(d, InfoKey)])
  /\ FieldGood(t.announce, d, AnnounceKey, "string", <<>>)
  /\ FieldGood(t.comment, d, CommentKey, "string", <<>>)
  /\ FieldGood(t.name, d, NameKey, "string", <<>>)
  /\ FieldGood(t.length, d, LengthKey, "number", 0)
  /\ FieldGood(t.piece_length, d, PieceLengthKey, "number", 0)
  /\ PiecesGood(t.piece_hashes, d)

LEMMA TorrentIs ==
  ASSUME NEW d \in Torrents
  PROVE  \E s : \E k : d = Dictionary(s) /\ OneInfo(s, k) /\ s \in Strings(Nat \X AllDocuments)
                       /\ d \in AllDocuments
<1>1. d \in AllDocuments /\ Kind(d) = "dictionary"
  BY TorrentsAssumption
<1>2. PICK k \in DOMAIN Names(d) : \A j \in DOMAIN Names(d) : Names(d)[j] = InfoKey <=> j = k
  BY TorrentsAssumption
<1>3. PICK s \in Strings(Nat \X AllDocuments) : d = Dictionary(s)
  <2>1. ASSUME NEW c PROVE /\ Kind(Number(c)) # "dictionary" /\ Kind(String(c)) # "dictionary"
                           /\ Kind(ListOf(c)) # "dictionary"
    BY KindsAre
  <2> QED  BY <1>1, <2>1, DocumentIs
<1>4. DOMAIN s = 1 .. Size(s)
  BY DEF Strings, Size
<1>5. Names(d) = [j \in 1 .. Size(s) |-> s[j][1]]
  BY <1>3, <1>4, KindsAre DEF Names
<1>6. OneInfo(s, k)
  BY <1>2, <1>5 DEF OneInfo
<1> QED  BY <1>1, <1>3, <1>6

LEMMA WholeIsLoaded ==
  ASSUME NEW d \in Torrents
  PROVE  TorrentGood(TorrentOf(Encode[d], ParseString(Encode[d])), d)
<1>1. PICK s, k : d = Dictionary(s) /\ OneInfo(s, k) /\ s \in Strings(Nat \X AllDocuments)
                  /\ d \in AllDocuments
  BY TorrentIs
<1> DEFINE b == Encode[d]
           state == ParseString(b)
           log == LogOf(d)
           t == TorrentOf(b, state)
<1>2. state.info_dict = log /\ Section(b, state) = Encode[s[k][2]]
  BY <1>1, WholeIsRead
<1>3. Entry(d, InfoKey) = s[k][2]
  <2>1. DOMAIN s = 1 .. Size(s) /\ Size(s) \in Nat
    BY <1>1 DEF Strings, Size
  <2> QED  BY <1>1, <2>1, InfoIsFound
<1>4. s[k][2] \in AllDocuments
  <2>1. s[k] \in Nat \X AllDocuments
    BY <1>1 DEF OneInfo, Strings, Size
  <2> QED  BY <2>1
<1>5. HashOf(Section(b, state)) = StandardHash(Encode[Entry(d, InfoKey)])
  <2> DEFINE info == Encode[s[k][2]]
  <2>1. info \in Text /\ info # <<>>
    <3>1. Begins(info) /\ Size(None) = 0
      BY <1>4, DocumentIsReadBack, NoneType DEF Readable, ReadsAs
    <3> QED  BY <3>1 DEF Begins, None
  <2>2. Section(b, state) = info /\ Encode[Entry(d, InfoKey)] = info
    BY <1>2, <1>3
  <2> HIDE DEF info, state, b
  <2> QED  BY <2>1, <2>2, PaddingIsTheStandards DEF HashOf
<1> HIDE DEF b, state, log
<1>6. /\ t.announce = Lookup(log, AnnounceKey, <<>>)
      /\ t.comment = Lookup(log, CommentKey, <<>>)
      /\ t.name = Lookup(log, NameKey, <<>>)
      /\ t.piece_length = stoull(Lookup(log, PieceLengthKey, Zero))
      /\ t.length = stoull(Lookup(log, LengthKey, Zero))
      /\ t.piece_hashes = ExtractPieceHashes(log)
      /\ t.info_hash = HashOf(Section(b, state))
  BY <1>2 DEF TorrentOf
<1> HIDE DEF t
<1>7. /\ AnnounceKey \in Nat /\ CommentKey \in Nat /\ NameKey \in Nat /\ PieceLengthKey \in Nat
      /\ LengthKey \in Nat
  BY DEF AnnounceKey, CommentKey, NameKey, PieceLengthKey, LengthKey
<1>8. FieldGood(t.announce, d, AnnounceKey, "string", <<>>)
  BY <1>1, <1>6, <1>7, StringField DEF log
<1>9. FieldGood(t.comment, d, CommentKey, "string", <<>>)
  BY <1>1, <1>6, <1>7, StringField DEF log
<1>10. FieldGood(t.name, d, NameKey, "string", <<>>)
  BY <1>1, <1>6, <1>7, StringField DEF log
<1>11. FieldGood(t.length, d, LengthKey, "number", 0)
  BY <1>1, <1>6, <1>7, NumberField DEF log
<1>12. FieldGood(t.piece_length, d, PieceLengthKey, "number", 0)
  BY <1>1, <1>6, <1>7, NumberField DEF log
<1>13. PiecesGood(t.piece_hashes, d)
  BY <1>1, <1>6, PiecesField DEF log
<1>14. TorrentGood(t, d)
  BY <1>5, <1>6, <1>8, <1>9, <1>10, <1>11, <1>12, <1>13 DEF TorrentGood
<1> QED  BY <1>14 DEF t, state, b

LEMMA PartIsNotLoaded ==
  ASSUME NEW d \in AllDocuments, NEW text \in Prefixes(Encode[d]), text # Encode[d]
  PROVE  ~ParseString(text).ok
<1> DEFINE b == Encode[d]
<1>1. b \in Text /\ b \in Strings(Nat)
  BY EncodeType, TextIs
<1> HIDE DEF b
<1>2. PICK n \in 0 .. Len(b) : text = SubSeq(b, 1, n)
  BY DEF Prefixes, b
<1>3. Len(b) \in Nat /\ Size(b) = Len(b) /\ text = Take(b, n)
  BY <1>1, <1>2 DEF Text, Size, Take
<1>4. n < Len(b)
  <2>1. SubSeq(b, 1, Len(b)) = b
    BY <1>1 DEF Text
  <2> QED  BY <1>2, <1>3, <2>1 DEF b
<1>5. b = Cat(text, Drop(b, n)) /\ text \in Strings(Nat) /\ Drop(b, n) \in Strings(Nat)
      /\ Size(Drop(b, n)) = Len(b) - n
  BY <1>1, <1>3, <1>4, TakeAndDrop, TakeType, DropType
<1>6. Size(Drop(b, n)) >= 1
  BY <1>3, <1>4, <1>5
<1>7. text \in Text /\ Cut(text, b)
  BY <1>5, <1>6, TextIs DEF Cut
<1> QED  BY <1>7, CutDocumentIsNotRead DEF b

-----------------------------------------------------------------------------
(* The torrent that is loaded is the one that was written.                  *)
LoadedInv ==
  /\ document \in Torrents
  /\ file \in Prefixes(Encode[document])
  /\ torrent.loaded => file = Encode[document] /\ TorrentGood(torrent, document)

LEMMA LoadIsRight ==
  ASSUME NEW d \in Torrents, NEW text \in Prefixes(Encode[d]), CanLoad(ParseString(text))
  PROVE  text = Encode[d] /\ TorrentGood(TorrentOf(text, ParseString(text)), d)
<1>1. d \in AllDocuments
  BY TorrentsAssumption
<1>2. ParseString(text).ok
  BY DEF CanLoad
<1>3. text = Encode[d]
  BY <1>1, <1>2, PartIsNotLoaded
<1> QED  BY <1>3, WholeIsLoaded

LEMMA LoadedInit == Init => LoadedInv
<1> SUFFICES ASSUME Init PROVE LoadedInv
  OBVIOUS
<1>1. torrent.loaded = FALSE
  BY DEF Init, NoTorrent
<1> QED  BY <1>1 DEF Init, LoadedInv

LEMMA LoadedStep == LoadedInv /\ [Next]_vars => LoadedInv'
<1> SUFFICES ASSUME LoadedInv, [Next]_vars PROVE LoadedInv'
  OBVIOUS
<1>1. CASE Load
  <2>1. document' = document /\ file' = file
    BY <1>1 DEF Load
  <2>2. CASE CanLoad(ParseString(file))
    <3> DEFINE t == TorrentOf(file, ParseString(file))
    <3>1. file = Encode[document] /\ TorrentGood(t, document)
      BY <2>2, LoadIsRight DEF LoadedInv
    <3>2. torrent' = t
      BY <1>1, <2>2, Zenon DEF Load
    <3> HIDE DEF t
    <3> QED  BY <2>1, <3>1, <3>2 DEF LoadedInv
  <2>3. CASE ~CanLoad(ParseString(file))
    <3>1. torrent' = torrent
      BY <1>1, <2>3, Zenon DEF Load
    <3> QED  BY <2>1, <3>1 DEF LoadedInv
  <2> QED  BY <2>2, <2>3
<1>2. ASSUME UNCHANGED <<document, file, torrent>> PROVE LoadedInv'
  BY <1>2 DEF LoadedInv
<1>3. CASE Announce
  BY <1>2, <1>3 DEF Announce
<1>4. ASSUME Get PROVE UNCHANGED <<document, file, torrent>>
  BY <1>4 DEF Get, Resolve, OpenSocket, Connect, CallFails, SendIsLost, SendToClosed, RecvSome,
             RecvSurplus, RecvEnds, RecvTimesOut, Proceed
<1>5. CASE Parse
  BY <1>2, <1>5 DEF Parse
<1>6. CASE \E a \in Answers \cup {Refusal} : TrackerAnswers(a)
  BY <1>2, <1>6 DEF TrackerAnswers
<1>7. CASE TrackerPauses \/ ServerCloses
  BY <1>2, <1>7 DEF TrackerPauses, ServerCloses
<1>8. CASE UNCHANGED vars
  BY <1>2, <1>8 DEF vars
<1> QED  BY <1>1, <1>2, <1>3, <1>4, <1>5, <1>6, <1>7, <1>8 DEF Next

LEMMA GoodIsAsWritten == LoadedInv => LoadedAsWritten
<1> SUFFICES ASSUME LoadedInv, torrent.loaded
             PROVE  /\ file = Encode[document]
                    /\ torrent.info_hash = StandardHash(InfoSection)
                    /\ FieldsAreAsWritten
  BY DEF LoadedAsWritten
<1>1. file = Encode[document] /\ TorrentGood(torrent, document)
  BY DEF LoadedInv
<1>2. ASSUME NEW field, NEW name, NEW kind, NEW default,
             FieldGood(field, document, name, kind, default)
      PROVE  FieldIs(field, name, kind, default)
  BY <1>2 DEF FieldGood, FieldIs, OnlyOne
<1>3. PiecesAre(torrent.piece_hashes)
  <2> DEFINE hashes == torrent.piece_hashes
  <2>1. PiecesGood(hashes, document)
    BY <1>1 DEF TorrentGood
  <2> HIDE DEF hashes
  <2>2. PiecesAre(hashes)
    BY <2>1 DEF PiecesGood, PiecesAre, OnlyOne
  <2> QED  BY <2>2 DEF hashes
<1>4. FieldsAreAsWritten
  BY <1>1, <1>2, <1>3 DEF TorrentGood, FieldsAreAsWritten
<1> QED  BY <1>1, <1>4 DEF TorrentGood, InfoSection

(* Whatever dictionary a torrent file holds, of any size and depth, and     *)
(* wherever it is cut short: it is loaded only when it is whole, with the   *)
(* hash of its `info', and every field as written for which one thing is    *)
(* (TorrentFile::Load).                                                     *)
THEOREM TorrentsAreLoadedAsWritten == Spec => []LoadedAsWritten
<1>1. Init => LoadedInv
  BY LoadedInit
<1>2. LoadedInv /\ [Next]_vars => LoadedInv'
  BY LoadedStep
<1>3. LoadedInv => LoadedAsWritten
  BY GoodIsAsWritten
<1> QED  BY <1>1, <1>2, <1>3, PTL DEF Spec

-----------------------------------------------------------------------------
(* The answers of a tracker.  A name is looked up to something written for  *)
(* it, although perhaps not to the only thing.                              *)
LEMMA AssignedSome ==
  ASSUME NEW log \in Logs, NEW key, NEW default, NEW x \in Elements(log), x[1] = <<key>>
  PROVE  \E y \in Elements(log) : y[1] = <<key>> /\ Lookup(log, key, default) = y[2]
<1> DEFINE places == Assigned(log, key)
<1>1. DOMAIN log = 1 .. Size(log) /\ Size(log) \in Nat
  BY DEF Logs, Size
<1>2. places # {} /\ places \in SUBSET (1 .. Size(log))
  BY <1>1 DEF Elements, Assigned
<1>3. \A k \in places : log[k] \in Elements(log) /\ log[k][1] = <<key>>
  BY <1>1 DEF Elements, Assigned
<1>4. Lookup(log, key, default) = log[Max(places)][2]
  BY <1>2 DEF Lookup
<1> HIDE DEF places
<1>5. Max(places) \in places
  BY <1>1, <1>2, MaxOfNumbers
<1> QED  BY <1>3, <1>4, <1>5

LEMMA FieldIsWritten ==
  ASSUME NEW d \in AllDocuments, NEW name \in Nat, NEW default, Written(d, name) # {}
  PROVE  \E e \in Written(d, name) :
           e \in AllDocuments /\ Lookup(LogOf(d), name, default) = ValueOf(e)
<1> DEFINE log == LogOf(d)
           E == AllEntries[d]
<1>1. log \in Logs
  BY DocumentIsReadBack, ReadableIs
<1>2. Elements(log) = {Assignment(e) : e \in E}
  BY LogHoldsEntries DEF Assignments
<1>3. E \in SUBSET (Nat \X AllDocuments)
  BY EntriesType DEF Entries
<1>4. Written(d, name) = {e[2] : e \in {x \in E : x[1] = name}}
  BY Zenon DEF Written
<1> HIDE DEF log, E
<1>5. \A e \in E : /\ Assignment(e)[1] = <<name>> <=> e[1] = name
                   /\ Assignment(e)[2] = ValueOf(e[2])
  BY DEF Assignment, One
<1>6. PICK x \in Elements(log) : x[1] = <<name>>
  BY <1>2, <1>4, <1>5
<1>7. PICK y \in Elements(log) : y[1] = <<name>> /\ Lookup(log, name, default) = y[2]
  BY <1>1, <1>6, AssignedSome
<1>8. PICK e \in E : y = Assignment(e)
  BY <1>2, <1>7
<1>9. e[1] = name /\ y[2] = ValueOf(e[2])
  BY <1>5, <1>7, <1>8
<1>10. e[2] \in Written(d, name) /\ e[2] \in AllDocuments
  BY <1>3, <1>4, <1>9
<1> QED  BY <1>7, <1>9, <1>10 DEF log

LEMMA SaysSomething ==
  ASSUME NEW e \in AllDocuments
  PROVE  Says(e) <=> ValueOf(e) # <<>> /\ (Says(e) => StringOf(e) = ValueOf(e))
<1>1. ASSUME NEW n \in Nat, e = Number(n)
      PROVE  Says(e) /\ ValueOf(e) # <<>> /\ StringOf(e) = ValueOf(e)
  <2>1. Kind(e) = "number" /\ Content(e) = n /\ ValueOf(e) = Decimal[n]
    BY <1>1, KindsAre, ValuesAre
  <2>2. Decimal[n] # <<>>
    <3>1. Size(Decimal[n]) >= 1 /\ Size(None) = 0
      BY DecimalType, NoneType
    <3> QED  BY <3>1 DEF None
  <2> QED  BY <2>1, <2>2 DEF Says, StringOf
<1>2. ASSUME NEW b \in Text, e = String(b)
      PROVE  (Says(e) <=> ValueOf(e) # <<>>) /\ StringOf(e) = ValueOf(e)
  <2>1. Kind(e) = "string" /\ Content(e) = b /\ ValueOf(e) = b
    BY <1>2, KindsAre, ValuesAre
  <2> QED  BY <2>1 DEF Says, StringOf
<1>3. ASSUME NEW s, e = ListOf(s) \/ e = Dictionary(s) PROVE ~Says(e) /\ ValueOf(e) = <<>>
  <2>1. Kind(e) \in {"list", "dictionary"} /\ ValueOf(e) = None
    BY <1>3, KindsAre, ValuesAre
  <2> QED  BY <2>1 DEF Says, None
<1> QED  BY <1>1, <1>2, <1>3, DocumentIs

(* What a whole document tells ParseTrackerResponse.                        *)
LEMMA AnyIsRead ==
  ASSUME NEW d \in AllDocuments, NEW post \in Text
  PROVE  ParseString(Cat(Encode[d], post)).info_dict = LogOf(d)
<1> DEFINE b == Encode[d]
           log == LogOf(d)
           end == EndsAt(None, b)
<1>1. ReadsAs(b, log, ValueOf(d))
  BY DocumentIsReadBack DEF Readable
<1>2. b \in Text /\ log \in Logs /\ ValueOf(d) \in Text
  BY DocumentIsReadBack, ReadableIs
<1> HIDE DEF b, log
<1>3. Cat(b, post) \in Text
  BY <1>2, CatType, TextIs
<1>4. /\ ParseString(Cat(b, post)) = Outcome(None, Cat(b, post), None, None, NoSection, None)
      /\ None \in Text /\ None \in Logs /\ NoSection \in Sections
  BY <1>3, ParseStringIs
<1>5. ParseString(Cat(b, post)) = Outcome(None, b, post, None, NoSection, None)
  <2>1. Cat(Cat(b, post), None) = Cat(b, post)
    BY <1>3, CatNone, TextIs
  <2> QED  BY <1>4, <2>1, Zenon DEF Outcome
<1>6. Cat(None, log) = log
  BY <1>2, LogsJoin
<1>7. PICK s2 \in Sections :
        Outcome(None, b, post, None, NoSection, None) = StateAt(end, Cat(None, log), s2, ValueOf(d))
  BY <1>1, <1>4 DEF ReadsAs
<1> HIDE DEF end
<1>8. ParseString(Cat(b, post)) = StateAt(end, log, s2, ValueOf(d))
  BY <1>5, <1>6, <1>7
<1>9. StateAt(end, log, s2, ValueOf(d)).info_dict = log
  BY DEF StateAt
<1> QED  BY <1>8, <1>9 DEF b, log

LEMMA PeersAreWritten ==
  ASSUME NEW d \in AllDocuments, NEW post \in Text,
         NamesPeers(ParseString(Cat(Encode[d], post)))
  PROVE  /\ ~Fails(d)
         /\ \E e \in Written(d, PeersKey) :
              /\ Says(e) /\ StringOf(e) \in Text
              /\ PeersData(ParseString(Cat(Encode[d], post))) = StringOf(e)
<1> DEFINE state == ParseString(Cat(Encode[d], post))
           log == LogOf(d)
<1>1. state.info_dict = log
  BY AnyIsRead
<1>2. FailureReasonKey \in Nat /\ PeersKey \in Nat
  BY DEF FailureReasonKey, PeersKey
<1>3. Lookup(log, FailureReasonKey, <<>>) = <<>> /\ Lookup(log, PeersKey, <<>>) # <<>>
  BY <1>1 DEF NamesPeers, PeersData
<1>4. ASSUME Written(d, FailureReasonKey) # {}
      PROVE  \E e \in Written(d, FailureReasonKey) : ~Says(e)
  <2>1. PICK e \in Written(d, FailureReasonKey) :
          e \in AllDocuments /\ Lookup(log, FailureReasonKey, <<>>) = ValueOf(e)
    BY <1>2, <1>4, FieldIsWritten
  <2> QED  BY <1>3, <2>1, SaysSomething
<1>5. Written(d, PeersKey) # {}
  BY <1>2, <1>3, FieldIsRead
<1>6. PICK e \in Written(d, PeersKey) :
        e \in AllDocuments /\ Lookup(log, PeersKey, <<>>) = ValueOf(e)
  BY <1>2, <1>5, FieldIsWritten
<1>7. Says(e) /\ StringOf(e) = ValueOf(e)
  BY <1>3, <1>6, SaysSomething
<1>8. ValueOf(e) \in Text
  BY <1>6, DocumentIsReadBack, ReadableIs
<1> QED  BY <1>1, <1>4, <1>6, <1>7, <1>8 DEF Fails, PeersData

LEMMA TakenFromSix ==
  ASSUME NEW s \in Text, NEW t \in Text, Len(s) = 6, NEW first \in 1 .. 6, NEW last \in 1 .. 6,
         Len(t) = last + 1 - first, \A j \in 1 .. Len(t) : s[first - 1 + j] = t[j]
  PROVE  SubSeq(s, first, last) = t
<1> DEFINE u == SubSeq(s, first, last)
<1>1. s \in Seq(Nat) /\ t \in Seq(Nat) /\ Len(t) \in Nat
  BY DEF Text
<1>2. u \in Seq(Nat) /\ Len(u) = Len(t)
  <2>1. u \in Seq(Nat)
    <3>1. first \in Int /\ last \in Int /\ 1 <= first /\ last <= Len(s)
      OBVIOUS
    <3>2. u \in Text
      BY <3>1, SubTextType
    <3> QED  BY <3>2 DEF Text
  <2>2. first <= last + 1 /\ last <= Len(s)
    BY <1>1
  <2>3. Len(u) = last + 1 - first
    BY <1>1, <2>2
  <2> QED  BY <2>1, <2>3
<1>3. ASSUME NEW j \in 1 .. Len(u) PROVE u[j] = t[j]
  <2>1. u[j] = s[first - 1 + j]
    BY <1>1, <1>2
  <2> QED  BY <1>2, <2>1
<1> HIDE DEF u
<1>4. u = t
  BY <1>1, <1>2, <1>3, SameElements
<1> QED  BY <1>4 DEF u

LEMMA TwoParts ==
  ASSUME NEW s \in Text, Len(s) = 6, NEW t \in Text, Len(t) = 4, NEW u \in Text, Len(u) = 2,
         \A i \in 1 .. 4 : t[i] = s[i], \A i \in 1 .. 2 : u[i] = s[4 + i]
  PROVE  SubSeq(s, 1, 4) = t /\ SubSeq(s, 5, 6) = u
<1>1. \A i \in 1 .. Len(t) : s[1 - 1 + i] = t[i]
  OBVIOUS
<1>2. \A i \in 1 .. Len(u) : s[5 - 1 + i] = u[i]
  OBVIOUS
<1>3. Len(t) = 4 + 1 - 1 /\ Len(u) = 6 + 1 - 5 /\ 1 \in 1 .. 6 /\ 4 \in 1 .. 6 /\ 5 \in 1 .. 6 /\ 6 \in 1 .. 6
  OBVIOUS
<1>4. SubSeq(s, 1, 4) = t
  BY <1>1, <1>3, TakenFromSix
<1>5. SubSeq(s, 5, 6) = u
  BY <1>2, <1>3, TakenFromSix
<1> QED  BY <1>4, <1>5

LEMMA SixBytes ==
  ASSUME NEW data \in Text, NEW j \in Nat, j + 6 <= Len(data),
         NEW peer, peer = SubSeq(data, j + 1, j + 6)
  PROVE  /\ SubSeq(peer, 1, 4) = SubSeq(data, j + 1, j + 4)
         /\ SubSeq(peer, 5, 6) = <<data[j + 5], data[j + 6]>>
         /\ data[j + 5] \in Nat /\ data[j + 6] \in Nat
<1> DEFINE address == SubSeq(data, j + 1, j + 4)
           end == <<data[j + 5], data[j + 6]>>
<1>1. /\ data \in Seq(Nat) /\ Len(data) \in Nat
      /\ data[j + 5] \in Nat /\ data[j + 6] \in Nat
  BY DEF Text
<1>2. /\ peer \in Text /\ Len(peer) = 6 /\ \A i \in 1 .. 6 : peer[i] = data[j + i]
  BY <1>1 DEF Text
<1>3. /\ address \in Text /\ Len(address) = 4 /\ \A i \in 1 .. 4 : address[i] = data[j + i]
  BY <1>1 DEF Text
<1>4. /\ end \in Text /\ Len(end) = 2 /\ end[1] = data[j + 5] /\ end[2] = data[j + 6]
  BY <1>1 DEF Text
<1> HIDE DEF address, end
<1>5. (\A i \in 1 .. 4 : address[i] = peer[i]) /\ (\A i \in 1 .. 2 : end[i] = peer[4 + i])
  BY <1>2, <1>3, <1>4
<1>6. SubSeq(peer, 1, 4) = address /\ SubSeq(peer, 5, 6) = end
  BY <1>2, <1>3, <1>4, <1>5, TwoParts
<1> QED  BY <1>1, <1>6 DEF address, end

LEMMA LastTwoBytes ==
  ASSUME NEW high \in Nat, NEW low \in Nat
  PROVE  bytes_to_int32(<<0, 0>> \o <<high, low>>) = high * 256 + low
<1> DEFINE front == <<0, 0>>
           end == <<high, low>>
           bytes == front \o end
<1>1. /\ front \in Seq(Nat) /\ Len(front) = 2 /\ front[1] = 0 /\ front[2] = 0
      /\ end \in Seq(Nat) /\ Len(end) = 2 /\ end[1] = high /\ end[2] = low
  OBVIOUS
<1> HIDE DEF front, end
<1>2. /\ \A i \in 1 .. Len(front) : bytes[i] = front[i]
      /\ \A i \in 1 .. Len(end) : bytes[Len(front) + i] = end[i]
  BY <1>1, Joined
<1> HIDE DEF bytes
<1>3. bytes[1] = 0 /\ bytes[2] = 0 /\ bytes[3] = high /\ bytes[4] = low
  <2>1. 1 \in 1 .. 2 /\ 2 \in 1 .. 2 /\ 2 + 1 = 3 /\ 2 + 2 = 4
    OBVIOUS
  <2> QED  BY <1>1, <1>2, <2>1
<1>4. bytes_to_int32(bytes) = high * 256 + low
  BY <1>3 DEF bytes_to_int32
<1> QED  BY <1>4 DEF bytes, front, end

LEMMA PeersAreCompact ==
  ASSUME NEW data \in Text, ParseCompactPeers(data).kind = "peers"
  PROVE  ParseCompactPeers(data).peers = CompactPeers(data)
<1> DEFINE n == Len(data) \div 6
           PeerOf(k) == LET peer == SubSeq(data, 6 * (k - 1) + 1, 6 * k)
                        IN [ip   |-> SubSeq(peer, 1, 4),
                            port |-> bytes_to_int32(<<0, 0>> \o SubSeq(peer, 5, 6))]
<1>1. Len(data) \in Nat /\ n \in Nat /\ 6 * n <= Len(data)
  BY DEF Text
<1>2. ParseCompactPeers(data).peers = [k \in 1 .. n |-> PeerAt(data, k)]
  BY DEF ParseCompactPeers, Failed
<1> HIDE DEF n
<1>3. ASSUME NEW k \in 1 .. n PROVE PeerAt(data, k) = PeerOf(k)
  <2> DEFINE j == 6 * (k - 1)
             peer == SubSeq(data, j + 1, j + 6)
             high == data[j + 5]
             low == data[j + 6]
  <2>1. /\ j \in Nat /\ j + 6 <= Len(data) /\ 6 * k = j + 6 /\ 6 * k - 5 = j + 1
        /\ 6 * k - 2 = j + 4 /\ 6 * k - 1 = j + 5
    BY <1>1
  <2> HIDE DEF j
  <2>2. /\ SubSeq(peer, 1, 4) = SubSeq(data, j + 1, j + 4)
        /\ SubSeq(peer, 5, 6) = <<high, low>> /\ high \in Nat /\ low \in Nat
    BY <2>1, SixBytes
  <2>3. PeerAt(data, k) = [ip |-> SubSeq(data, j + 1, j + 4), port |-> high * 256 + low]
    BY <2>1 DEF PeerAt
  <2>4. PeerOf(k) = [ip   |-> SubSeq(peer, 1, 4),
                     port |-> bytes_to_int32(<<0, 0>> \o SubSeq(peer, 5, 6))]
    BY <2>1 DEF j
  <2> HIDE DEF peer, high, low
  <2>5. bytes_to_int32(<<0, 0>> \o SubSeq(peer, 5, 6)) = high * 256 + low
    <3>1. SubSeq(peer, 5, 6) = <<high, low>> /\ high \in Nat /\ low \in Nat
      BY <2>2
    <3>2. bytes_to_int32(<<0, 0>> \o <<high, low>>) = high * 256 + low
      BY <3>1, LastTwoBytes
    <3> QED  BY <3>1, <3>2, Zenon
  <2> HIDE DEF PeerOf
  <2> QED  BY <2>2, <2>3, <2>4, <2>5, Zenon
<1>4. CompactPeers(data) = [k \in 1 .. n |-> PeerOf(k)]
  BY Zenon DEF CompactPeers, n
<1> HIDE DEF PeerOf
<1> QED  BY <1>2, <1>3, <1>4

(* What a tracker sends, in two parts.                                      *)
AnyAnswer == Answers \cup {Refusal}

Lead(status) == <<status, Header, BlankLine>>

BodyOf(a) == IF a.chunk = <<>> THEN Encode[a.body] ELSE ChunkOf(a.chunk, Encode[a.body])

LEMMA RefusalIs == Refusal.body \in AllDocuments
<1> DEFINE reason == String(<<1>>)
           s == One(<<FailureReasonKey, reason>>)
           S == DocumentsOf[MaxDepth - 1]
<1>1. reason \in S
  <2>1. reason \in LeafDocuments
    <3>1. <<1>> \in Text
      BY DEF Text
    <3> QED  BY <3>1 DEF LeafDocuments
  <2>2. MaxDepth - 1 \in Nat /\ 0 + (MaxDepth - 1) = MaxDepth - 1
    BY DocumentsAssumption
  <2>3. DocumentsOf[0] \subseteq DocumentsOf[0 + (MaxDepth - 1)]
    BY <2>2, DocumentsOfGrow
  <2> QED  BY <2>1, <2>2, <2>3, DocumentsOfIs, LeavesAre
<1> HIDE DEF reason
<1>2. s \in Strings(Nat \X S)
  <2>1. <<FailureReasonKey, reason>> \in Nat \X S
    BY <1>1 DEF FailureReasonKey
  <2> QED  BY <2>1, OneType
<1> HIDE DEF s, S
<1>3. Dictionary(s) \in Deeper(S)
  BY <1>2, ListIsDeeper
<1>4. AllDocuments = Deeper(S)
  <2>1. MaxDepth - 1 \in Nat /\ (MaxDepth - 1) + 1 = MaxDepth
    BY DocumentsAssumption
  <2>2. DocumentsOf[(MaxDepth - 1) + 1] = Deeper(DocumentsOf[MaxDepth - 1])
    BY <2>1, DocumentsOfIs
  <2> QED  BY <2>1, <2>2 DEF AllDocuments, S
<1>5. Refusal.body = Dictionary(s)
  BY DEF Refusal, s, One, reason
<1> QED  BY <1>3, <1>4, <1>5

LEMMA AnswerIs ==
  ASSUME NEW a \in AnyAnswer
  PROVE  /\ a.status \in {StatusOk, StatusOther} /\ a.chunk \in Seq(HexDigits)
         /\ a.body \in AllDocuments
<1>1. CASE a \in Answers
  BY <1>1, AnswersAssumption
<1>2. CASE a = Refusal
  <2>1. Refusal.status = StatusOk /\ Refusal.chunk = <<>>
    BY DEF Refusal
  <2> QED  BY <1>2, <2>1, RefusalIs
<1> QED  BY <1>1, <1>2 DEF AnyAnswer

LEMMA LeadIs ==
  ASSUME NEW status \in {StatusOk, StatusOther}
  PROVE  /\ Lead(status) \in Text /\ Size(Lead(status)) = 3
         /\ Lead(status)[1] = status /\ Lead(status)[2] = Header /\ Lead(status)[3] = BlankLine
<1>1. status \in Nat /\ Header \in Nat /\ BlankLine \in Nat
  BY DEF StatusOk, StatusOther, Header, BlankLine
<1> QED  BY <1>1 DEF Lead, Text, Size

LEMMA ChunkIs ==
  ASSUME NEW digits \in Seq(HexDigits), digits # <<>>, NEW text \in Text
  PROVE  /\ digits[1] \in HexDigits
         /\ \E t \in Text : ChunkOf(digits, text) = Cat(One(digits[1]), t)
<1> DEFINE last == <<LineEnd, 48, LineEnd, LineEnd>>
           line == One(LineEnd)
<1>1. HexDigits \subseteq Nat
  BY DEF HexDigits
<1>2. digits \in Strings(Nat) /\ digits # None /\ text \in Strings(Nat)
  BY <1>1, SubStrings, TextIs DEF Strings, None
<1>3. line \in Strings(Nat)
  BY OneType DEF LineEnd
<1>4. last \in Strings(Nat)
  BY DEF Strings, LineEnd
<1>5. ChunkOf(digits, text) = Cat(Cat(Cat(digits, line), text), last)
  BY DEF ChunkOf, Cat, One
<1> HIDE DEF last, line
<1>6. PICK x \in Nat : \E u \in Strings(Nat) : digits = Cat(One(x), u) /\ Size(digits) = Size(u) + 1
  BY <1>2, FirstOf
<1>7. PICK u \in Strings(Nat) : digits = Cat(One(x), u) /\ Size(digits) = Size(u) + 1
  BY <1>6
<1>8. digits[1] = x
  BY <1>7, FirstIs
<1>9. digits[1] \in HexDigits
  <2>1. Size(u) \in Nat
    BY SizeIsNat
  <2>2. Len(digits) >= 1
    BY <1>7, <2>1 DEF Size
  <2> QED  BY <2>2
<1>10. One(x) \in Strings(Nat)
  BY OneType
<1>11. Cat(Cat(u, line), text) \in Strings(Nat) /\ Cat(u, line) \in Strings(Nat)
       /\ Cat(Cat(Cat(u, line), text), last) \in Strings(Nat)
  BY <1>2, <1>3, <1>4, CatType
<1>12. Cat(digits, line) = Cat(One(x), Cat(u, line))
  BY <1>3, <1>7, <1>10, CatAssociates
<1>13. Cat(Cat(digits, line), text) = Cat(One(x), Cat(Cat(u, line), text))
  BY <1>2, <1>10, <1>11, <1>12, CatAssociates
<1>14. Cat(Cat(Cat(digits, line), text), last) = Cat(One(x), Cat(Cat(Cat(u, line), text), last))
  BY <1>4, <1>10, <1>11, <1>13, CatAssociates
<1> QED  BY <1>5, <1>8, <1>9, <1>11, <1>14, TextIs

LEMMA AnswerBytes ==
  ASSUME NEW a \in AnyAnswer
  PROVE  /\ BodyOf(a) \in Text /\ Encode[a.body] \in Text
         /\ BytesOf(a) = Cat(Lead(a.status), BodyOf(a)) /\ BytesOf(a) \in Text
<1>1. a.chunk \in Seq(HexDigits) /\ Encode[a.body] \in Text /\ Lead(a.status) \in Text
  BY AnswerIs, EncodeType, LeadIs
<1>2. BodyOf(a) \in Text
  <2>1. CASE a.chunk = <<>>
    BY <1>1, <2>1 DEF BodyOf
  <2>2. CASE a.chunk # <<>>
    <3>1. PICK t \in Text : ChunkOf(a.chunk, Encode[a.body]) = Cat(One(a.chunk[1]), t)
      BY <1>1, <2>2, ChunkIs
    <3>2. a.chunk[1] \in Nat
      <4>1. a.chunk[1] \in HexDigits
        BY <1>1, <2>2, ChunkIs
      <4> QED  BY <4>1 DEF HexDigits
    <3>3. Cat(One(a.chunk[1]), t) \in Text
      BY <3>2, OneType, CatType, TextIs
    <3> QED  BY <2>2, <3>1, <3>3 DEF BodyOf
  <2> QED  BY <2>1, <2>2
<1>3. BytesOf(a) = Cat(Lead(a.status), BodyOf(a))
  BY Zenon DEF BytesOf, Cat, Lead, BodyOf
<1>4. Cat(Lead(a.status), BodyOf(a)) \in Text
  BY <1>1, <1>2, CatType, TextIs
<1> QED  BY <1>1, <1>2, <1>3, <1>4

(* Of an answer that has arrived in part, Get finds the status, and the     *)
(* part of the body that has arrived.                                       *)
LEMMA NoHeaders ==
  ASSUME NEW status \in {StatusOk, StatusOther}, NEW body \in Text, NEW r \in Text, NEW t \in Text,
         Cat(r, t) = Cat(Lead(status), body), Size(r) < 3
  PROVE  ~ParseResponse(r).ok
<1> DEFINE lead == Lead(status)
<1>1. /\ lead \in Text /\ Size(lead) = 3 /\ lead[1] = status /\ lead[2] = Header
      /\ lead[3] = BlankLine
  BY LeadIs
<1> HIDE DEF lead
<1>2. PICK w \in Strings(Nat) : lead = Cat(r, w)
  <2>1. Size(r) <= Size(lead) /\ Cat(r, t) = Cat(lead, body)
    BY <1>1, TextIs, SizeIsNat DEF lead
  <2> QED  BY <1>1, <2>1, CutLater, TextIs
<1>3. \A i \in 1 .. Size(r) : r[i] = lead[i]
  BY <1>2, ElementInFront, SizeIsNat, TextIs
<1>4. Size(r) \in Nat /\ Len(r) = Size(r)
  BY SizeIsNat, TextIs DEF Size
<1>5. \A i \in 1 .. Len(r) : i \in {1, 2} /\ r[i] \in {status, Header}
  BY <1>1, <1>3, <1>4
<1>6. BlankLine # status /\ BlankLine # Header
  BY DEF BlankLine, StatusOk, StatusOther, Header
<1>7. ~Contains(r, BlankLine)
  BY <1>5, <1>6 DEF Contains
<1> QED  BY <1>7 DEF ParseResponse

LEMMA HeadersAre ==
  ASSUME NEW status \in {StatusOk, StatusOther}, NEW body \in Text, NEW r \in Text, NEW t \in Text,
         Cat(r, t) = Cat(Lead(status), body), ParseResponse(r).ok
  PROVE  /\ status = StatusOk
         /\ \E q \in Text : r = Cat(Lead(status), q) /\ body = Cat(q, t) /\ ParseResponse(r).body = q
<1> DEFINE lead == Lead(status)
           found == {i \in 1 .. Len(r) : r[i] = BlankLine}
<1>1. /\ lead \in Text /\ Size(lead) = 3 /\ lead[1] = status /\ lead[2] = Header
      /\ lead[3] = BlankLine
  BY LeadIs
<1>2. Size(r) \in Nat /\ Len(r) = Size(r)
  BY SizeIsNat, TextIs DEF Size
<1>3. Size(r) >= 3
  BY <1>2, NoHeaders
<1>4. Cat(lead, body) = Cat(r, t)
  OBVIOUS
<1> HIDE DEF lead
<1>5. PICK q \in Strings(Nat) : r = Cat(lead, q) /\ body = Cat(q, t)
  BY <1>1, <1>3, <1>4, CutLater, TextIs
<1>6. r[1] = status /\ r[2] = Header /\ r[3] = BlankLine
  <2>1. \A i \in Nat : 1 <= i /\ i <= Size(lead) => r[i] = lead[i]
    BY <1>1, <1>5, ElementInFront, TextIs
  <2> QED  BY <1>1, <2>1
<1>7. BlankLine # status /\ BlankLine # Header
  BY DEF BlankLine, StatusOk, StatusOther, Header
<1>8. found \in SUBSET (1 .. Len(r)) /\ 3 \in found /\ 1 \notin found /\ 2 \notin found
  BY <1>2, <1>3, <1>6, <1>7
<1>9. Find(r, BlankLine) = IF found # {} THEN Min(found) ELSE 0
  BY DEF Find, SelectInSeq
<1> HIDE DEF found
<1>10. Min(found) \in found /\ Min(found) <= 3
  BY <1>2, <1>8, MinOfPlaces
<1>11. Find(r, BlankLine) = 3
  <2> DEFINE m == Min(found)
  <2>1. m \in 1 .. Len(r) /\ m # 1 /\ m # 2 /\ m <= 3
    BY <1>8, <1>10
  <2> HIDE DEF m
  <2>2. m = 3
    BY <2>1
  <2> QED  BY <1>8, <1>9, <2>2 DEF m
<1>12. ParseResponse(r).body = q
  <2>1. From(r, 3 + 1) = Drop(r, 3)
    BY DEF From, Drop
  <2>2. Drop(r, 3) = q
    BY <1>1, <1>5, DropCat, TextIs
  <2> QED  BY <1>11, <2>1, <2>2 DEF ParseResponse
<1>13. Contains(r, BlankLine)
  BY <1>2, <1>3, <1>6 DEF Contains
<1>14. UpTo(r, BlankLine) = Take(r, 2)
  BY <1>11, <1>13 DEF UpTo, Take
<1>15. Take(r, 2) \in Text /\ Len(Take(r, 2)) = 2 /\ Take(r, 2)[1] = r[1] /\ Take(r, 2)[2] = r[2]
  BY <1>2, <1>3 DEF Text, Take
<1>16. Contains(Take(r, 2), StatusOk)
  BY <1>14 DEF ParseResponse
<1>17. status = StatusOk
  <2>1. Header # StatusOk
    BY DEF Header, StatusOk
  <2>2. PICK i \in 1 .. 2 : Take(r, 2)[i] = StatusOk
    BY <1>15, <1>16 DEF Contains
  <2> QED  BY <1>6, <1>15, <2>1, <2>2
<1> QED  BY <1>5, <1>12, <1>17, TextIs DEF lead

(* A text that begins as neither a dictionary nor a list assigns nothing.   *)
LEMMA ReadsKeepLog ==
  ASSUME NEW text, NEW state \in ParseState
  PROVE  /\ Throw(state).info_dict = state.info_dict
         /\ \A c : ReadUntilDelimiter(text, state, c).info_dict = state.info_dict
         /\ \A n : ReadFixedAmount(text, state, n).info_dict = state.info_dict
<1>1. \A v, i : [state EXCEPT !.value = v, !.index = i].info_dict = state.info_dict
  BY DEF ParseState
<1>2. Throw(state).info_dict = state.info_dict
  BY DEF Throw, ParseState
<1>3. ASSUME NEW c PROVE ReadUntilDelimiter(text, state, c).info_dict = state.info_dict
  BY <1>1, <1>2, Zenon DEF ReadUntilDelimiter
<1>4. ASSUME NEW n PROVE ReadFixedAmount(text, state, n).info_dict = state.info_dict
  BY <1>1, <1>2, Zenon DEF ReadFixedAmount
<1> QED  BY <1>2, <1>3, <1>4

LEMMA OtherBeginning ==
  ASSUME NEW text \in Text, NEW state \in ParseState, state.ok, ~AtEnd(text, state),
         text[state.index] \notin Digit, text[state.index] # Integer, text[state.index] # Dict,
         text[state.index] # List, NEW dict, NEW list
  PROVE  ProcessWith(text, state, dict, list) = Throw(state)
<1> DEFINE x == text[state.index]
           length == ReadUntilDelimiter(text, state, Colon)
           a == ReadFixedAmount(text, length, stoull(length.value))
           b == ReadUntilDelimiter(text, Begun(state), End)
<1>1. ProcessWith(text, state, dict, list) =
        CASE x \in Digit   -> (IF length.ok THEN a ELSE length)
          [] x = Integer   -> b
          [] x = Dict      -> dict
          [] x = List      -> list
          [] OTHER         -> Throw(state)
  BY Zenon DEF ProcessWith, Begun
<1> HIDE DEF x, length, a, b
<1>2. x \notin Digit /\ x # Integer /\ x # Dict /\ x # List
  BY DEF x
<1> QED  BY <1>1, <1>2

LEMMA DigitsOfLength ==
  ASSUME NEW c \in HexDigits, c # Dict, NEW p \in Text
  PROVE  ParseString(Cat(One(c), p)).info_dict = None
<1> DEFINE text == Cat(None, Cat(One(c), p))
           state == StateAt(Size(None) + 1, None, NoSection, None)
           dict == Parser[DictCall(text, state)]
           list == Parser[ListCall(text, state)]
           length == ReadUntilDelimiter(text, state, Colon)
<1>1. c \in Nat /\ c # Integer /\ c # List
  BY DEF HexDigits, Integer, List
<1>2. None \in Text /\ None \in Logs /\ NoSection \in Sections
  BY <1>1, ParseStringIs
<1>3. Cat(One(c), p) \in Text
  BY <1>1, OneType, CatType, TextIs
<1>4. Cat(None, Cat(One(c), p)) = Cat(One(c), p) /\ Cat(Cat(One(c), p), None) = Cat(One(c), p)
  BY <1>3, CatNone, TextIs
<1>5. ParseString(Cat(One(c), p)) = Parser[NextCall(text, state)]
  <2>1. ParseString(Cat(One(c), p)) = Outcome(None, Cat(One(c), p), None, None, NoSection, None)
    BY <1>3, ParseStringIs
  <2>2. Outcome(None, Cat(One(c), p), None, None, NoSection, None)
          = Parser[NextCall(Cat(None, Cat(Cat(One(c), p), None)), state)]
    BY DEF Outcome
  <2> QED  BY <1>4, <2>1, <2>2, Zenon
<1>6. /\ text \in Text /\ state \in ParseState /\ state.ok /\ ~AtEnd(text, state)
      /\ text[state.index] = c
      /\ Parser[NextCall(text, state)] = ProcessWith(text, state, dict, list)
  BY <1>1, <1>2, CallAt
<1>7. state.info_dict = None
  <2> DEFINE i == Size(None) + 1
  <2> HIDE DEF i
  <2>1. StateAt(i, None, NoSection, None).info_dict = None
    BY DEF StateAt
  <2> QED  BY <2>1 DEF i
<1> HIDE DEF text, state, dict, list
<1>8. ProcessWith(text, state, dict, list).info_dict = None
  <2>1. CASE c \in Digit
    <3>1. length \in ParseState /\ length.info_dict = None
      <4>1. length \in ParseState
        BY <1>6, DelimiterType DEF Colon
      <4> QED  BY <1>6, <1>7, <4>1, ReadsKeepLog
    <3> HIDE DEF length
    <3>2. ReadFixedAmount(text, length, stoull(length.value)).info_dict = None
      BY <3>1, ReadsKeepLog
    <3>3. IF length.ok
          THEN ProcessWith(text, state, dict, list)
                 = ReadFixedAmount(text, length, stoull(length.value))
          ELSE ProcessWith(text, state, dict, list) = length
      BY <1>6, <2>1, BeginningTells DEF length
    <3> QED  BY <3>1, <3>2, <3>3
  <2>2. CASE c \notin Digit
    <3>1. ProcessWith(text, state, dict, list) = Throw(state)
      BY <1>1, <1>6, <2>2, OtherBeginning
    <3> QED  BY <1>6, <1>7, <3>1, ReadsKeepLog
  <2> QED  BY <2>1, <2>2
<1> QED  BY <1>5, <1>6, <1>8

(* What peers that are returned say of an answer, and of what has arrived.  *)
PeersGood(a, r, peers) ==
  /\ a.status = StatusOk
  /\ \/ a.chunk # <<>> /\ a.chunk[1] = Dict
     \/ /\ a.chunk = <<>> /\ IsPrefix(BytesOf(a), r)
        /\ ~Fails(a.body)
        /\ \E d \in Written(a.body, PeersKey) : Says(d) /\ peers = CompactPeers(StringOf(d))

LEMMA ComesFirst ==
  ASSUME NEW s \in Text, NEW t \in Text
  PROVE  IsPrefix(s, Cat(s, t))
<1>1. Take(Cat(s, t), Size(s)) = s /\ Take(s, Size(s)) = s /\ Size(Cat(s, t)) = Size(s) + Size(t)
  BY TakeCat, CatType, CatNone, NoneType, TextIs
<1>2. Size(s) \in Nat /\ Size(t) \in Nat
  BY SizeIsNat, TextIs
<1> QED  BY <1>1, <1>2 DEF IsPrefix, Take, Size

LEMMA PeersAreNamed ==
  ASSUME NEW text, ParseTrackerResponse(text).kind = "peers"
  PROVE  /\ NamesPeers(ParseString(text)) /\ ParseString(text).ok
         /\ ParseTrackerResponse(text) = ParseCompactPeers(PeersData(ParseString(text)))
<1>1. Failed.kind # "peers"
  BY DEF Failed
<1> QED  BY <1>1, Zenon DEF ParseTrackerResponse, NamesPeers

LEMMA PlainAnswer ==
  ASSUME NEW d \in AllDocuments, NEW q \in Text, NEW t \in Text, NEW more \in Text,
         Cat(Encode[d], more) = Cat(q, t), ParseTrackerResponse(q).kind = "peers"
  PROVE  /\ \E post \in Text : q = Cat(Encode[d], post)
         /\ ~Fails(d)
         /\ \E e \in Written(d, PeersKey) :
              Says(e) /\ ParseTrackerResponse(q).peers = CompactPeers(StringOf(e))
<1> DEFINE b == Encode[d]
<1>1. /\ NamesPeers(ParseString(q)) /\ ParseString(q).ok
      /\ ParseTrackerResponse(q) = ParseCompactPeers(PeersData(ParseString(q)))
  BY PeersAreNamed
<1>2. b \in Text /\ Size(b) \in Nat /\ Size(q) \in Nat /\ Cat(b, more) = Cat(q, t)
  BY EncodeType, SizeIsNat, TextIs
<1>3. ~Cut(q, b)
  BY <1>1, CutDocumentIsNotRead
<1> HIDE DEF b
<1>4. Size(b) <= Size(q)
  <2> SUFFICES ASSUME Size(q) < Size(b) PROVE FALSE
    BY <1>2
  <2>1. PICK w \in Strings(Nat) : b = Cat(q, w)
    <3>1. Cat(q, t) = Cat(b, more) /\ Size(q) <= Size(b)
      BY <1>2
    <3> QED  BY <1>2, <3>1, CutLater, TextIs
  <2>2. Size(b) = Size(q) + Size(w) /\ Size(w) \in Nat
    BY <2>1, CatType, SizeIsNat, TextIs
  <2>3. Size(w) >= 1
    BY <1>2, <2>2
  <2> QED  BY <1>3, <2>1, <2>3, TextIs DEF Cut
<1>5. PICK post \in Text : q = Cat(b, post)
  BY <1>2, <1>4, CutLater, TextIs
<1>6. PICK e \in Written(d, PeersKey) :
        Says(e) /\ StringOf(e) \in Text /\ PeersData(ParseString(q)) = StringOf(e)
  BY <1>1, <1>5, PeersAreWritten DEF b
<1>7. ~Fails(d)
  BY <1>1, <1>5, PeersAreWritten DEF b
<1>8. ParseCompactPeers(StringOf(e)).peers = CompactPeers(StringOf(e))
  BY <1>1, <1>6, PeersAreCompact
<1> QED  BY <1>1, <1>5, <1>6, <1>7, <1>8 DEF b

LEMMA ChunkedAnswer ==
  ASSUME NEW digits \in Seq(HexDigits), digits # <<>>, NEW text \in Text,
         NEW q \in Text, NEW t \in Text, NEW more \in Text,
         Cat(ChunkOf(digits, text), more) = Cat(q, t), ParseTrackerResponse(q).kind = "peers"
  PROVE  digits[1] = Dict
<1>1. NamesPeers(ParseString(q)) /\ ParseString(q).ok
  BY PeersAreNamed
<1>2. q # None
  <2>1. ASSUME q = None PROVE ~ParseString(q).ok
    <3>1. None \in Text /\ None \in Logs /\ NoSection \in Sections /\ Cat(None, None) = None
      BY NoneType, CatNone, ParseStringIs, TextIs
    <3>2. ParseString(None) = Outcome(None, None, None, None, NoSection, None)
      BY <3>1, ParseStringIs
    <3>3. ~Parser[NextCall(Cat(None, None), StateAt(Size(None) + 1, None, NoSection, None))].ok
      BY <3>1, NoneFails DEF NextFails
    <3> QED  BY <2>1, <3>1, <3>2, <3>3, Zenon DEF Outcome
  <2> QED  BY <1>1, <2>1
<1>3. digits[1] \in HexDigits /\ digits[1] \in Nat
  <2>1. digits[1] \in HexDigits
    BY ChunkIs
  <2> QED  BY <2>1 DEF HexDigits
<1>4. PICK u \in Text : Cat(ChunkOf(digits, text), more) = Cat(One(digits[1]), u)
  <2> DEFINE first == One(digits[1])
  <2>1. PICK v \in Text : ChunkOf(digits, text) = Cat(first, v)
    BY ChunkIs
  <2>2. first \in Text
    BY <1>3, OneType, TextIs
  <2> HIDE DEF first
  <2>3. Cat(Cat(first, v), more) = Cat(first, Cat(v, more)) /\ Cat(v, more) \in Text
    BY <2>2, CatAssociates, CatType, TextIs
  <2> QED  BY <2>1, <2>3 DEF first
<1>5. \E p \in Text : q = Cat(One(digits[1]), p)
  <2>1. One(digits[1]) \in Strings(Nat) /\ Size(One(digits[1])) = 1
    BY <1>3, OneType
  <2>2. 1 <= Size(q)
    <3>1. Size(q) \in Nat /\ Size(q) # 0
      BY <1>2, SizeIsNat, NoneSize, TextIs
    <3> QED  BY <3>1
  <2>3. Cat(One(digits[1]), u) = Cat(q, t)
    BY <1>4
  <2> DEFINE first == One(digits[1])
  <2> HIDE DEF first
  <2> QED  BY <2>1, <2>2, <2>3, CutLater, TextIs DEF first
<1>6. ASSUME digits[1] # Dict PROVE FALSE
  <2>1. ParseString(q).info_dict = None
    BY <1>3, <1>5, <1>6, DigitsOfLength
  <2>2. Lookup(None, PeersKey, <<>>) = <<>>
    <3>1. Assigned(None, PeersKey) = {}
      BY DEF Assigned, None
    <3> QED  BY <3>1 DEF Lookup
  <2> QED  BY <1>1, <2>1, <2>2 DEF NamesPeers, PeersData
<1> QED  BY <1>6

LEMMA ParseIsRight ==
  ASSUME NEW a \in AnyAnswer, NEW r \in Text, NEW t \in Text, NEW more \in Text,
         Cat(BytesOf(a), more) = Cat(r, t),
         ParseResponse(r).ok, ParseTrackerResponse(ParseResponse(r).body).kind = "peers"
  PROVE  PeersGood(a, r, ParseTrackerResponse(ParseResponse(r).body).peers)
<1> DEFINE lead == Lead(a.status)
           body == BodyOf(a)
<1>1. /\ a.status \in {StatusOk, StatusOther} /\ a.chunk \in Seq(HexDigits)
      /\ a.body \in AllDocuments
  BY AnswerIs
<1>2. /\ body \in Text /\ Encode[a.body] \in Text /\ lead \in Text
      /\ BytesOf(a) = Cat(lead, body)
  BY <1>1, AnswerBytes, LeadIs
<1> HIDE DEF lead, body
<1>3. Cat(r, t) = Cat(lead, Cat(body, more)) /\ Cat(body, more) \in Text
  BY <1>2, CatAssociates, CatType, TextIs
<1>4. /\ a.status = StatusOk
      /\ \E q \in Text : /\ r = Cat(lead, q) /\ Cat(body, more) = Cat(q, t)
                         /\ ParseResponse(r).body = q
  BY <1>1, <1>3, HeadersAre DEF lead
<1>5. PICK q \in Text : /\ r = Cat(lead, q) /\ Cat(body, more) = Cat(q, t)
                        /\ ParseResponse(r).body = q
  BY <1>4
<1>6. ParseTrackerResponse(q).kind = "peers"
  BY <1>5
<1> DEFINE peers == ParseTrackerResponse(q).peers
<1> HIDE DEF peers
<1>7. CASE a.chunk # <<>>
  <2>1. Cat(ChunkOf(a.chunk, Encode[a.body]), more) = Cat(q, t)
    BY <1>5, <1>7 DEF BodyOf, body
  <2>2. a.chunk[1] = Dict
    BY <1>1, <1>2, <1>6, <1>7, <2>1, ChunkedAnswer
  <2> QED  BY <1>4, <1>7, <2>2 DEF PeersGood
<1>8. CASE a.chunk = <<>>
  <2>1. body = Encode[a.body]
    BY <1>8 DEF BodyOf, body
  <2>2. Cat(Encode[a.body], more) = Cat(q, t)
    BY <1>5, <2>1
  <2>3. /\ \E post \in Text : q = Cat(Encode[a.body], post)
        /\ ~Fails(a.body)
        /\ \E e \in Written(a.body, PeersKey) : Says(e) /\ peers = CompactPeers(StringOf(e))
    BY <1>1, <1>6, <2>2, PlainAnswer DEF peers
  <2>4. IsPrefix(BytesOf(a), r)
    <3>1. PICK post \in Text : q = Cat(body, post)
      BY <2>1, <2>3
    <3>2. r = Cat(Cat(lead, body), post) /\ Cat(lead, body) \in Text
      BY <1>2, <1>5, <3>1, CatAssociates, CatType, TextIs
    <3> QED  BY <1>2, <3>2, ComesFirst
  <2> QED  BY <1>4, <1>5, <1>8, <2>3, <2>4 DEF PeersGood, peers
<1> QED  BY <1>7, <1>8

(* What has arrived of an answer, and what is left of it, come first in it  *)
(* and in what is sent behind it; of a tracker that sends on nothing is     *)
(* lost.  Peers are returned only where no announce is under way, and as    *)
(* long as what they were read from is there.                               *)
Arriving(a, r, w) ==
  \/ r = None /\ w = None
  \/ a \in AnyAnswer /\ \E more, t \in Text : Cat(BytesOf(a), more) = Cat(Cat(r, w), t)

NoneLost(a, r, w) ==
  a \in AnyAnswer /\ \E more \in Text : Cat(r, w) = Cat(BytesOf(a), more)

Asking == {"resolve", "socket", "connect", "send"}

AnswerInv ==
  /\ response \in Text /\ wire \in Text /\ Arriving(answer, response, wire)
  /\ sends_on => at = "recv" /\ server_open /\ NoneLost(answer, response, wire)
  /\ at # "idle" => outcome = Failed
  /\ at \in Asking => response = None
  /\ outcome.kind = "peers" => PeersGood(answer, response, outcome.peers)

LEMMA NothingArrived ==
  ASSUME NEW a
  PROVE  None \in Text /\ Arriving(a, None, None)
BY NoneType, TextIs DEF Arriving

LEMMA NoneLostArrives ==
  ASSUME NEW a, NEW r \in Text, NEW w \in Text, NoneLost(a, r, w)
  PROVE  Arriving(a, r, w)
<1>1. PICK more \in Text : Cat(r, w) = Cat(BytesOf(a), more)
  BY DEF NoneLost
<1>2. Cat(r, w) = Cat(Cat(r, w), None) /\ None \in Text
  BY CatType, CatNone, NoneType, TextIs
<1> QED  BY <1>1, <1>2 DEF NoneLost, Arriving

LEMMA AnswerArrives ==
  ASSUME NEW a \in AnyAnswer
  PROVE  /\ BytesOf(a) \in Text /\ NoneLost(a, None, BytesOf(a))
         /\ Arriving(a, None, BytesOf(a))
<1> DEFINE b == BytesOf(a)
<1>1. b \in Text /\ None \in Text
  BY AnswerBytes, NoneType, TextIs
<1> HIDE DEF b
<1>2. Cat(None, b) = Cat(b, None)
  BY <1>1, CatNone, TextIs
<1>3. NoneLost(a, None, b)
  BY <1>1, <1>2 DEF NoneLost, b
<1> QED  BY <1>1, <1>3, NoneLostArrives DEF b

(* Some of what is on the wire is received, or the rest of it is lost.      *)
LEMMA BytesArrive ==
  ASSUME NEW a, NEW r \in Text, NEW w \in Text, Arriving(a, r, w), NEW n \in Nat, n <= Size(w)
  PROVE  /\ Cat(r, Take(w, n)) \in Text /\ Drop(w, n) \in Text /\ Take(w, n) \in Text
         /\ Arriving(a, Cat(r, Take(w, n)), Drop(w, n)) /\ Arriving(a, r, Take(w, n))
         /\ NoneLost(a, r, w) => NoneLost(a, Cat(r, Take(w, n)), Drop(w, n))
<1> DEFINE x == Take(w, n)
           y == Drop(w, n)
<1>1. x \in Strings(Nat) /\ y \in Strings(Nat) /\ w = Cat(x, y)
  BY TakeType, DropType, TakeAndDrop, TextIs
<1> HIDE DEF x, y
<1>2. Cat(r, x) \in Text /\ Cat(Cat(r, x), y) = Cat(r, w)
  BY <1>1, CatType, CatAssociates, TextIs
<1>3. CASE r = None /\ w = None
  <2>1. x = None /\ y = None
    <3>1. /\ Size(Cat(x, y)) = Size(x) + Size(y) /\ Size(x) \in Nat /\ Size(y) \in Nat
          /\ Size(None) = 0
      BY <1>1, CatType, SizeIsNat, NoneType
    <3>2. Size(x) = 0 /\ Size(y) = 0
      BY <1>1, <1>3, <3>1
    <3> QED  BY <1>1, <3>2, NoneSize
  <2>2. Cat(r, x) = None
    BY <1>1, <1>3, <2>1, CatNone
  <2> QED  BY <1>1, <1>2, <1>3, <2>1, <2>2, TextIs DEF Arriving, NoneLost, x, y
<1>4. CASE a \in AnyAnswer /\ \E more, t \in Text : Cat(BytesOf(a), more) = Cat(Cat(r, w), t)
  <2>1. PICK more \in Text, t \in Text : Cat(BytesOf(a), more) = Cat(Cat(r, w), t)
    BY <1>4
  <2>2. Cat(Cat(Cat(r, x), y), t) = Cat(Cat(r, x), Cat(y, t))
    BY <1>1, <1>2, CatAssociates, TextIs
  <2>3. Cat(y, t) \in Text
    BY <1>1, CatType, TextIs
  <2>4. /\ Cat(BytesOf(a), more) = Cat(Cat(Cat(r, x), y), t)
        /\ Cat(BytesOf(a), more) = Cat(Cat(r, x), Cat(y, t))
    BY <1>2, <2>1, <2>2, Zenon
  <2> QED  BY <1>1, <1>2, <1>4, <2>3, <2>4, TextIs DEF Arriving, NoneLost, x, y
<1> QED  BY <1>3, <1>4 DEF Arriving

LEMMA SurplusArrives ==
  ASSUME NEW a, NEW r \in Text, NoneLost(a, r, None), NEW byte \in Nat
  PROVE  /\ Append(r, byte) \in Text /\ NoneLost(a, Append(r, byte), None)
         /\ Arriving(a, Append(r, byte), None)
<1>1. PICK more \in Text : a \in AnyAnswer /\ Cat(r, None) = Cat(BytesOf(a), more)
  BY DEF NoneLost
<1>2. Append(r, byte) = Cat(r, One(byte)) /\ Append(r, byte) \in Text
  BY DEF Text, Cat, One
<1>3. One(byte) \in Text /\ BytesOf(a) \in Text /\ None \in Text
  BY <1>1, OneType, AnswerBytes, NoneType, TextIs
<1>4. Cat(Append(r, byte), None) = Append(r, byte) /\ Cat(r, None) = r
  BY <1>2, CatNone, TextIs
<1>5. Cat(Cat(BytesOf(a), more), One(byte)) = Cat(BytesOf(a), Cat(more, One(byte)))
  BY <1>3, CatAssociates, TextIs
<1>6. Cat(more, One(byte)) \in Text
  BY <1>3, CatType, TextIs
<1>7. NoneLost(a, Append(r, byte), None)
  BY <1>1, <1>2, <1>4, <1>5, <1>6 DEF NoneLost
<1> QED  BY <1>2, <1>3, <1>7, NoneLostArrives

LEMMA AnswerInit == Init => AnswerInv
<1> SUFFICES ASSUME Init PROVE AnswerInv
  OBVIOUS
<1>1. response = None /\ wire = None /\ outcome = Failed /\ at = "load" /\ ~sends_on
  BY DEF Init, None
<1> QED  BY <1>1, NothingArrived DEF AnswerInv, Asking, Failed

(* A step that leaves the answer alone, and what has been returned.         *)
LEMMA AnswerAlone ==
  ASSUME AnswerInv, UNCHANGED <<answer, wire, response, outcome>>,
         at' # "idle" => at # "idle", at' \in Asking => at \in Asking,
         ~sends_on' \/ (sends_on' = sends_on /\ (at # "recv" \/ UNCHANGED <<at, server_open>>))
  PROVE  AnswerInv'
BY DEF AnswerInv

LEMMA MovedIs ==
  ASSUME NEW w \in Text, NEW n \in {0} \cup Moved(Len(w))
  PROVE  n \in Nat /\ n <= Size(w)
BY HttpAssumption DEF Moved, Text, Size

LEMMA ParseStep == ASSUME AnswerInv, Parse PROVE AnswerInv'
<1> DEFINE found == ParseResponse(response)
           read == ParseTrackerResponse(found.body)
<1>1. /\ outcome' = IF found.ok THEN read ELSE Failed
      /\ at' = "idle" /\ answer' = answer /\ wire' = wire /\ response' = response
      /\ at = "parse" /\ sends_on' = sends_on
  BY DEF Parse
<1>2. response \in Text /\ wire \in Text /\ Arriving(answer, response, wire)
  BY DEF AnswerInv
<1>3. ASSUME found.ok, read.kind = "peers" PROVE PeersGood(answer, response, read.peers)
  <2>1. response # None
    <3>1. ~Contains(None, BlankLine)
      BY DEF Contains, None
    <3> QED  BY <1>3, <3>1 DEF ParseResponse
  <2>2. /\ answer \in AnyAnswer
        /\ \E more, t \in Text : Cat(BytesOf(answer), more) = Cat(Cat(response, wire), t)
    BY <1>2, <2>1 DEF Arriving
  <2>3. PICK more \in Text, t \in Text : Cat(BytesOf(answer), more) = Cat(Cat(response, wire), t)
    BY <2>2
  <2>4. Cat(wire, t) \in Text /\ Cat(BytesOf(answer), more) = Cat(response, Cat(wire, t))
    BY <1>2, <2>3, CatType, CatAssociates, TextIs
  <2> QED  BY <1>2, <1>3, <2>2, <2>4, ParseIsRight
<1>4. Failed.kind # "peers"
  BY DEF Failed
<1> HIDE DEF found, read
<1>5. outcome'.kind = "peers" => found.ok /\ outcome' = read
  BY <1>1, <1>4
<1>6. outcome'.kind = "peers" => PeersGood(answer, response, outcome'.peers)
  BY <1>3, <1>5
<1> QED  BY <1>1, <1>2, <1>6 DEF AnswerInv, Asking

LEMMA AnswerStep == AnswerInv /\ [Next]_vars => AnswerInv'
<1> SUFFICES ASSUME AnswerInv, [Next]_vars PROVE AnswerInv'
  OBVIOUS
<1>1. response \in Text /\ wire \in Text /\ Arriving(answer, response, wire)
  BY DEF AnswerInv
<1>2. Failed.kind # "peers"
  BY DEF Failed
<1>3. CASE Load
  <2>1. UNCHANGED <<answer, wire, sends_on, response, outcome>> /\ at = "load"
    BY <1>3 DEF Load
  <2>2. at' \in {"idle", "no_torrent"}
    BY <1>3, Zenon DEF Load
  <2> QED  BY <2>1, <2>2, AnswerAlone DEF Asking
<1>4. CASE Announce
  <2>1. /\ response' = None /\ wire' = None /\ outcome' = Failed
        /\ at = "idle" /\ sends_on' = sends_on
    BY <1>4 DEF Announce, None
  <2> QED  BY <1>2, <2>1, NothingArrived DEF AnswerInv
<1>5. CASE Get
  <2>1. CASE Resolve
    BY <2>1, AnswerAlone DEF Resolve, Proceed, Asking
  <2>2. CASE OpenSocket
    BY <2>2, AnswerAlone DEF OpenSocket, Proceed, Asking
  <2>3. CASE Connect
    BY <2>3, AnswerAlone DEF Connect, Proceed, Asking
  <2>4. CASE CallFails
    BY <2>4, AnswerAlone DEF CallFails, Proceed, Asking
  <2>5. CASE SendIsLost
    BY <2>5, AnswerAlone DEF SendIsLost, Proceed, Asking
  <2>6. CASE SendToClosed
    BY <2>6, AnswerAlone DEF SendToClosed, Proceed, Asking
  <2>7. CASE RecvEnds
    <3>1. ~sends_on
      BY <2>7 DEF RecvEnds, AnswerInv
    <3> QED  BY <2>7, <3>1, AnswerAlone DEF RecvEnds, Proceed, Asking
  <2>8. CASE RecvTimesOut
    BY <2>8, AnswerAlone DEF RecvTimesOut, Proceed, Asking
  <2>9. CASE RecvSome
    <3>1. PICK n \in Moved(Len(wire)) :
            response' = response \o SubSeq(wire, 1, n) /\ wire' = From(wire, n + 1)
      BY <2>9 DEF RecvSome
    <3>2. n \in Nat /\ n <= Size(wire)
      BY <1>1, MovedIs
    <3>3. response' = Cat(response, Take(wire, n)) /\ wire' = Drop(wire, n)
      BY <3>1 DEF Cat, Take, Drop, From
    <3>4. UNCHANGED <<at, answer, server_open, sends_on, outcome>> /\ at = "recv"
      BY <2>9 DEF RecvSome
    <3>5. /\ response' \in Text /\ wire' \in Text /\ Arriving(answer, response', wire')
          /\ NoneLost(answer, response, wire) => NoneLost(answer, response', wire')
      BY <1>1, <3>2, <3>3, BytesArrive
    <3>6. outcome = Failed
      BY <3>4 DEF AnswerInv
    <3> QED  BY <1>2, <3>4, <3>5, <3>6 DEF AnswerInv, Asking
  <2>10. CASE RecvSurplus
    <3>1. /\ at = "recv" /\ wire = None /\ sends_on
          /\ UNCHANGED <<at, answer, wire, server_open, sends_on, outcome>>
      BY <2>10 DEF RecvSurplus, None
    <3>2. PICK byte \in Nat : response' = Append(response, byte)
      BY <2>10, HttpAssumption DEF RecvSurplus
    <3>3. NoneLost(answer, response, None)
      BY <3>1 DEF AnswerInv
    <3>4. /\ response' \in Text /\ NoneLost(answer, response', None)
          /\ Arriving(answer, response', None)
      BY <1>1, <3>2, <3>3, SurplusArrives
    <3>5. outcome = Failed
      BY <3>1 DEF AnswerInv
    <3> QED  BY <1>2, <3>1, <3>4, <3>5 DEF AnswerInv, Asking
  <2> QED  BY <1>5, <2>1, <2>2, <2>3, <2>4, <2>5, <2>6, <2>7, <2>8, <2>9, <2>10 DEF Get
<1>6. CASE Parse
  BY <1>6, ParseStep
<1>7. ASSUME NEW a \in Answers \cup {Refusal}, TrackerAnswers(a) PROVE AnswerInv'
  <2>1. /\ at = "send" /\ at' = "recv" /\ answer' = a /\ wire' = BytesOf(a)
        /\ response' = response /\ outcome' = outcome /\ server_open /\ server_open' = server_open
    BY <1>7 DEF TrackerAnswers
  <2>2. response = None /\ outcome = Failed
    BY <2>1 DEF AnswerInv, Asking
  <2>3. BytesOf(a) \in Text /\ NoneLost(a, None, BytesOf(a)) /\ Arriving(a, None, BytesOf(a))
    BY AnswerArrives DEF AnyAnswer
  <2> QED  BY <1>1, <1>2, <2>1, <2>2, <2>3 DEF AnswerInv, Asking
<1>8. CASE ServerCloses
  <2>1. PICK n \in {0} \cup Moved(Len(wire)) : wire' = SubSeq(wire, 1, n)
    BY <1>8 DEF ServerCloses
  <2>2. UNCHANGED <<at, answer, response, outcome>> /\ ~sends_on'
    BY <1>8 DEF ServerCloses
  <2>3. n \in Nat /\ n <= Size(wire) /\ wire' = Take(wire, n)
    BY <1>1, <2>1, MovedIs DEF Take
  <2>4. wire' \in Text /\ Arriving(answer, response, wire')
    BY <1>1, <2>3, BytesArrive
  <2> QED  BY <1>1, <2>2, <2>4 DEF AnswerInv
<1>9. CASE UNCHANGED vars
  BY <1>9, AnswerAlone DEF vars
<1>10. CASE TrackerPauses
  BY <1>10, AnswerAlone DEF TrackerPauses
<1> QED  BY <1>3, <1>4, <1>5, <1>6, <1>7, <1>8, <1>9, <1>10 DEF Next

(* Whatever a tracker answers, of any size, and whatever it sends behind    *)
(* it, however that arrives or is cut short, by the end of the connection   *)
(* or by the timeout: the peers an announce returns are those of an answer  *)
(* that says no failure and has arrived whole (HttpConnection::Get,         *)
(* HttpTracker::ParseTrackerResponse).  In chunks it is not understood,     *)
(* unless the length begins with a d.                                       *)
THEOREM PeersAreThoseOfTheAnswer == Spec => []PeersAreTheAnswers
<1>1. Init => AnswerInv
  BY AnswerInit
<1>2. AnswerInv /\ [Next]_vars => AnswerInv'
  BY AnswerStep
<1>3. AnswerInv => PeersAreTheAnswers
  BY DEF AnswerInv, PeersGood, PeersAreTheAnswers
<1> QED  BY <1>1, <1>2, <1>3, PTL DEF Spec

-----------------------------------------------------------------------------
(* The request: text is taken apart where a character comes first.          *)
LEMMA NotThere ==
  ASSUME NEW t \in Text, NEW c, Without(t, c)
  PROVE  ~Contains(t, c) /\ UpTo(t, c) = t
<1>1. Size(t) = Len(t)
  BY DEF Size
<1> QED  BY <1>1 DEF Without, Contains, UpTo

LEMMA TextParts ==
  ASSUME NEW x \in Text, NEW y \in Text, NEW c \in Nat
  PROVE  /\ Cat(x, y) \in Text /\ One(c) \in Text /\ Cat(One(c), y) \in Text
         /\ Cat(x, Cat(One(c), y)) \in Text
         /\ Size(x) \in Nat /\ Size(y) \in Nat /\ Size(One(c)) = 1
         /\ Size(Cat(x, y)) = Size(x) + Size(y)
         /\ Size(Cat(One(c), y)) = 1 + Size(y)
         /\ Size(Cat(x, Cat(One(c), y))) = Size(x) + 1 + Size(y)
<1>1. One(c) \in Text /\ Size(One(c)) = 1 /\ Size(x) \in Nat /\ Size(y) \in Nat
  BY OneType, SizeIsNat, TextIs
<1>2. /\ Cat(x, y) \in Text /\ Size(Cat(x, y)) = Size(x) + Size(y)
      /\ Cat(One(c), y) \in Text /\ Size(Cat(One(c), y)) = 1 + Size(y)
  BY <1>1, CatType, TextIs
<1>3. /\ Cat(x, Cat(One(c), y)) \in Text
      /\ Size(Cat(x, Cat(One(c), y))) = Size(x) + (1 + Size(y))
  BY <1>1, <1>2, CatType, TextIs
<1> QED  BY <1>1, <1>2, <1>3

LEMMA PartsElements ==
  ASSUME NEW x \in Text, NEW y \in Text
  PROVE  /\ \A i \in 1 .. Size(x) : Cat(x, y)[i] = x[i]
         /\ \A i \in 1 .. Size(y) : Cat(x, y)[Size(x) + i] = y[i]
<1>1. x \in Seq(Nat) /\ y \in Seq(Nat)
  BY DEF Text
<1> QED  BY <1>1 DEF Cat, Size

LEMMA FoundAt ==
  ASSUME NEW x \in Text, NEW y \in Text, NEW c \in Nat, Without(x, c)
  PROVE  LET t == Cat(x, Cat(One(c), y))
         IN /\ Contains(t, c) /\ Find(t, c) = Size(x) + 1
            /\ UpTo(t, c) = x
            /\ From(t, Find(t, c)) = Cat(One(c), y)
            /\ From(t, Find(t, c) + 1) = y
<1> DEFINE t == Cat(x, Cat(One(c), y))
           found == {i \in 1 .. Len(t) : t[i] = c}
           k == Size(x) + 1
<1>1. /\ t \in Text /\ Size(x) \in Nat /\ Size(y) \in Nat /\ Len(t) = Size(x) + 1 + Size(y)
      /\ Cat(One(c), y) \in Text /\ Size(Cat(One(c), y)) = 1 + Size(y)
      /\ One(c) \in Text /\ Cat(x, One(c)) \in Text /\ Size(Cat(x, One(c))) = Size(x) + 1
  <2>1. /\ t \in Text /\ Size(x) \in Nat /\ Size(y) \in Nat /\ Size(t) = Size(x) + 1 + Size(y)
        /\ Cat(One(c), y) \in Text /\ Size(Cat(One(c), y)) = 1 + Size(y)
        /\ One(c) \in Text /\ Size(One(c)) = 1
    BY TextParts
  <2>2. Cat(x, One(c)) \in Text /\ Size(Cat(x, One(c))) = Size(x) + 1
    BY <2>1, CatType, TextIs
  <2> QED  BY <2>1, <2>2 DEF Size
<1>2. \A i \in 1 .. Size(x) : t[i] = x[i]
  BY <1>1, PartsElements
<1>3. t[k] = c
  <2>1. Cat(One(c), y)[1] = c
    BY FirstIs, TextIs
  <2>2. 1 \in 1 .. Size(Cat(One(c), y))
    BY <1>1
  <2> QED  BY <1>1, <2>1, <2>2, PartsElements
<1>4. t = Cat(Cat(x, One(c)), y)
  BY <1>1, CatAssociates, TextIs
<1>5. Take(t, Size(x)) = x /\ Drop(t, Size(x)) = Cat(One(c), y) /\ Drop(t, Size(x) + 1) = y
  <2>1. Drop(Cat(Cat(x, One(c)), y), Size(Cat(x, One(c)))) = y
    BY <1>1, DropCat, TextIs
  <2> QED  BY <1>1, <1>4, <2>1, TakeCat, DropCat, TextIs
<1> HIDE DEF t
<1>6. \A i \in 1 .. Size(x) : t[i] # c
  BY <1>2 DEF Without
<1>7. found \in SUBSET (1 .. Len(t)) /\ k \in found
  BY <1>1, <1>3
<1>8. Find(t, c) = IF found # {} THEN Min(found) ELSE 0
  BY DEF Find, SelectInSeq
<1> HIDE DEF found
<1>9. Min(found) \in found /\ Min(found) <= k
  <2>1. Len(t) \in Nat /\ found # {}
    BY <1>1, <1>7
  <2> HIDE DEF k
  <2> QED  BY <1>7, <2>1, MinOfPlaces
<1>10. \A i \in found : i \in 1 .. Len(t) /\ t[i] = c
  BY DEF found
<1>11. Find(t, c) = k
  <2> DEFINE m == Min(found)
  <2>1. m \in 1 .. Len(t) /\ t[m] = c /\ m <= k
    BY <1>9, <1>10
  <2> HIDE DEF m
  <2>2. m = k
    BY <1>1, <1>6, <2>1
  <2> QED  BY <1>7, <1>8, <2>2 DEF m
<1>12. Contains(t, c)
  BY <1>1, <1>3 DEF Contains
<1>13. UpTo(t, c) = x
  <2>1. k - 1 = Size(x)
    BY <1>1
  <2> QED  BY <1>5, <1>11, <1>12, <2>1 DEF UpTo, Take
<1>14. From(t, k) = Drop(t, Size(x)) /\ From(t, k + 1) = Drop(t, Size(x) + 1)
  BY DEF From, Drop
<1> QED  BY <1>5, <1>11, <1>12, <1>13, <1>14 DEF t

LEMMA FreeOrNot ==
  ASSUME NEW t \in Text, NEW c \in Nat
  PROVE  \/ Without(t, c)
         \/ \E x \in Text, y \in Text :
              /\ t = Cat(x, Cat(One(c), y)) /\ Without(x, c)
              /\ Size(x) + 1 + Size(y) = Size(t)
<1> DEFINE found == {i \in 1 .. Size(t) : t[i] = c}
<1>1. Size(t) \in Nat
  BY SizeIsNat, TextIs
<1> SUFFICES ASSUME ~Without(t, c)
             PROVE  \E x \in Text, y \in Text :
                      /\ t = Cat(x, Cat(One(c), y)) /\ Without(x, c)
                      /\ Size(x) + 1 + Size(y) = Size(t)
  OBVIOUS
<1>2. found # {} /\ found \in SUBSET (1 .. Size(t))
  BY DEF Without
<1>3. Min(found) \in found /\ \A i \in found : Min(found) <= i
  <2> HIDE DEF found
  <2> QED  BY <1>1, <1>2, MinOfPlaces
<1>4. PICK n \in 1 .. Size(t) : t[n] = c /\ \A i \in 1 .. Size(t) : i < n => t[i] # c
  <2> DEFINE m == Min(found)
  <2>1. m \in 1 .. Size(t) /\ t[m] = c
    BY <1>3
  <2>2. \A i \in 1 .. Size(t) : t[i] = c => m <= i
    BY <1>3
  <2> HIDE DEF m
  <2>3. \A i \in 1 .. Size(t) : i < m => t[i] # c
    BY <1>1, <2>1, <2>2
  <2> QED  BY <2>1, <2>3
<1> DEFINE x == Take(t, n - 1)
           z == Drop(t, n - 1)
<1>5. /\ x \in Text /\ Size(x) = n - 1 /\ z \in Text /\ Size(z) = Size(t) - (n - 1)
      /\ t = Cat(x, z)
  <2>1. n - 1 \in Nat /\ n - 1 <= Size(t)
    BY <1>1
  <2> QED  BY <2>1, TakeType, DropType, TakeAndDrop, TextIs
<1> HIDE DEF x, z
<1>6. PICK a \in Nat, y \in Text : z = Cat(One(a), y) /\ Size(z) = Size(y) + 1
  <2>1. z # None
    <3>1. Size(None) = 0 /\ Size(z) > 0
      BY <1>1, <1>5, NoneType
    <3> QED  BY <3>1
  <2> QED  BY <1>5, <2>1, FirstOf, TextIs
<1>7. a = c
  <2>1. z[1] = a
    BY <1>6, FirstIs, TextIs
  <2>2. t[Size(x) + 1] = z[1]
    <3>1. 1 \in 1 .. Size(z)
      BY <1>1, <1>5
    <3> QED  BY <1>5, <3>1, PartsElements
  <2>3. Size(x) + 1 = n
    BY <1>1, <1>5
  <2> QED  BY <1>4, <2>1, <2>2, <2>3
<1>8. Without(x, c)
  <2> SUFFICES ASSUME NEW i \in 1 .. Size(x) PROVE x[i] # c
    BY DEF Without
  <2>1. t[i] = x[i]
    BY <1>5, PartsElements
  <2>2. i \in 1 .. Size(t) /\ i < n
    BY <1>1, <1>5
  <2> QED  BY <1>4, <2>1, <2>2
<1>9. Size(x) + 1 + Size(y) = Size(t)
  <2>1. Size(y) \in Nat
    BY SizeIsNat, TextIs
  <2> QED  BY <1>1, <1>5, <1>6, <2>1
<1> QED  BY <1>5, <1>6, <1>7, <1>8, <1>9

LEMMA WithoutBoth ==
  ASSUME NEW x \in Text, NEW y \in Text, NEW c
  PROVE  Without(Cat(x, y), c) <=> Without(x, c) /\ Without(y, c)
<1>1. Size(x) \in Nat /\ Size(y) \in Nat /\ Size(Cat(x, y)) = Size(x) + Size(y)
  BY SizeIsNat, CatType, TextIs
<1>2. \A i \in 1 .. Size(x) : Cat(x, y)[i] = x[i]
  BY PartsElements
<1>3. \A i \in 1 .. Size(y) : Cat(x, y)[Size(x) + i] = y[i]
  BY PartsElements
<1> DEFINE t == Cat(x, y)
<1> HIDE DEF t
<1>4. ASSUME Without(t, c) PROVE Without(x, c) /\ Without(y, c)
  <2>1. Without(x, c)
    BY <1>1, <1>2, <1>4 DEF Without, t
  <2>2. ASSUME NEW i \in 1 .. Size(y) PROVE y[i] # c
    <3>1. Size(x) + i \in 1 .. Size(t)
      BY <1>1 DEF t
    <3> QED  BY <1>3, <1>4, <3>1 DEF Without, t
  <2> QED  BY <2>1, <2>2 DEF Without
<1>5. ASSUME Without(x, c), Without(y, c) PROVE Without(t, c)
  <2> SUFFICES ASSUME NEW i \in 1 .. Size(t) PROVE t[i] # c
    BY DEF Without
  <2>1. CASE i <= Size(x)
    BY <1>1, <1>2, <1>5, <2>1 DEF Without, t
  <2>2. CASE i > Size(x)
    <3> DEFINE j == i - Size(x)
    <3>1. j \in 1 .. Size(y) /\ Size(x) + j = i
      BY <1>1, <2>2 DEF t
    <3> HIDE DEF j
    <3>2. t[i] = y[j]
      BY <1>3, <3>1 DEF t
    <3> QED  BY <1>5, <3>1, <3>2 DEF Without
  <2> QED  BY <1>1, <2>1, <2>2 DEF t
<1> QED  BY <1>4, <1>5 DEF t

LEMMA WithoutOne ==
  ASSUME NEW a \in Nat, NEW c
  PROVE  (Without(One(a), c) <=> a # c) /\ Without(None, c)
<1>1. Size(One(a)) = 1 /\ One(a)[1] = a /\ Size(None) = 0
  BY OneType, NoneType DEF One
<1> QED  BY <1>1 DEF Without

-----------------------------------------------------------------------------
(* The fields between ampersands.                                           *)
LEMMA AmpersandFound ==
  ASSUME NEW t \in Text
  PROVE  \/ Without(t, Ampersand) /\ ~Contains(t, Ampersand)
         \/ \E x \in Text, y \in Text :
              /\ t = Cat(x, Cat(One(Ampersand), y)) /\ Without(x, Ampersand)
              /\ Size(y) < Size(t)
              /\ Contains(t, Ampersand) /\ UpTo(t, Ampersand) = x
              /\ From(t, Find(t, Ampersand) + 1) = y
<1>1. Ampersand \in Nat
  BY DEF Ampersand
<1>2. CASE Without(t, Ampersand)
  BY <1>2, NotThere
<1>3. CASE ~Without(t, Ampersand)
  <2>1. PICK x \in Text, y \in Text :
          /\ t = Cat(x, Cat(One(Ampersand), y)) /\ Without(x, Ampersand)
          /\ Size(x) + 1 + Size(y) = Size(t)
    BY <1>1, <1>3, FreeOrNot
  <2>2. Size(y) < Size(t)
    <3>1. Size(x) \in Nat /\ Size(y) \in Nat
      BY SizeIsNat, TextIs
    <3> QED  BY <2>1, <3>1
  <2>3. /\ Contains(t, Ampersand) /\ UpTo(t, Ampersand) = x
        /\ From(t, Find(t, Ampersand) + 1) = y
    BY <1>1, <2>1, FoundAt
  <2> QED  BY <2>1, <2>2, <2>3
<1> QED  BY <1>2, <1>3

LEMMA FieldsAre ==
  /\ Fields \in [Text -> SUBSET Text]
  /\ \A t \in Text :
       Fields[t] = IF ~Contains(t, Ampersand) THEN {t}
                   ELSE {UpTo(t, Ampersand)}
                          \cup Fields[From(t, Find(t, Ampersand) + 1)]
<1> DEFINE D == Text
           R == SUBSET Text
           size == [t \in D |-> Size(t)]
           Rest(t) == From(t, Find(t, Ampersand) + 1)
           Body(f, t) == IF ~Contains(t, Ampersand) THEN {t}
                         ELSE {UpTo(t, Ampersand)} \cup f[Rest(t)]
           body == [p \in [D -> R] \X D |-> Body(p[1], p[2])]
           C(f) == [t \in Text |-> IF ~Contains(t, Ampersand) THEN {t}
                                   ELSE {UpTo(t, Ampersand)}
                                          \cup f[From(t, Find(t, Ampersand) + 1)]]
<1>1. ASSUME NEW t \in D, Contains(t, Ampersand)
      PROVE  Rest(t) \in D /\ Size(Rest(t)) < Size(t) /\ UpTo(t, Ampersand) \in Text
  BY <1>1, AmpersandFound
<1>2. ASSUME NEW f \in [D -> R], NEW t \in D PROVE Body(f, t) \in R
  <2>1. CASE Contains(t, Ampersand)
    <3>1. UpTo(t, Ampersand) \in Text /\ f[Rest(t)] \in R
      <4> HIDE DEF Rest
      <4> QED  BY <1>1, <2>1
    <3> HIDE DEF Rest
    <3> QED  BY <2>1, <3>1
  <2>2. CASE ~Contains(t, Ampersand)
    BY <2>2
  <2> QED  BY <2>1, <2>2
<1>3. Recursion(D, R, size, body)
  <2>1. size \in [D -> Nat]
    BY SizeIsNat, TextIs
  <2>2. body \in [[D -> R] \X D -> R]
    <3> HIDE DEF Body, D, R
    <3> QED  BY <1>2
  <2>3. R # {}
    OBVIOUS
  <2>4. ASSUME NEW f \in [D -> R], NEW g \in [D -> R], NEW t \in D,
               \A e \in D : size[e] < size[t] => f[e] = g[e]
        PROVE  body[<<f, t>>] = body[<<g, t>>]
    <3>1. Contains(t, Ampersand) => f[Rest(t)] = g[Rest(t)]
      <4> HIDE DEF Rest
      <4> QED  BY <1>1, <2>4
    <3>2. Body(f, t) = Body(g, t)
      <4> HIDE DEF Rest
      <4> QED  BY <3>1
    <3> HIDE DEF Body, D, R
    <3> QED  BY <3>2
  <2> HIDE DEF D, R, size, body
  <2> QED  BY <2>1, <2>2, <2>3, <2>4 DEF Recursion, CallsSmaller
<1>4. PICK f \in [D -> R] : \A t \in D : f[t] = body[<<f, t>>]
  <2> HIDE DEF D, R, size, body
  <2> QED  BY <1>3, RecursionByMeasure
<1>5. \A t \in D : f[t] = Body(f, t)
  <2> HIDE DEF Body, D, R
  <2> QED  BY <1>4
<1>6. f = C(f)
  <2>1. \A t \in Text : f[t] = C(f)[t]
    BY <1>5
  <2>2. DOMAIN C(f) = Text /\ C(f) = [t \in Text |-> C(f)[t]] /\ f = [t \in Text |-> f[t]]
    OBVIOUS
  <2> HIDE DEF C
  <2> QED  BY <2>1, <2>2
<1>7. Fields = CHOOSE g : g = C(g)
  BY Zenon DEF Fields
<1>8. Fields = C(Fields)
  <2> HIDE DEF C
  <2> QED  BY <1>6, <1>7, Zenon
<1> DEFINE T == {n \in Nat : \A t \in Text : Size(t) < n => Fields[t] \in SUBSET Text}
<1>9. \A t \in Text :
        Fields[t] = IF ~Contains(t, Ampersand) THEN {t}
                    ELSE {UpTo(t, Ampersand)} \cup Fields[From(t, Find(t, Ampersand) + 1)]
  <2> SUFFICES ASSUME NEW t \in Text
               PROVE  Fields[t] = IF ~Contains(t, Ampersand) THEN {t}
                                  ELSE {UpTo(t, Ampersand)}
                                         \cup Fields[From(t, Find(t, Ampersand) + 1)]
    OBVIOUS
  <2>1. Fields[t] = C(Fields)[t]
    <3> HIDE DEF C
    <3> QED  BY <1>8, Zenon
  <2> QED  BY <2>1
<1>10. 0 \in T
  BY SizeIsNat, TextIs
<1>11. ASSUME NEW n \in Nat, n \in T PROVE n + 1 \in T
  <2> SUFFICES ASSUME NEW t \in Text, Size(t) < n + 1 PROVE Fields[t] \in SUBSET Text
    OBVIOUS
  <2>1. CASE ~Contains(t, Ampersand)
    BY <1>9, <2>1
  <2>2. CASE Contains(t, Ampersand)
    <3> DEFINE y == Rest(t)
    <3>1. y \in Text /\ Size(y) < Size(t) /\ UpTo(t, Ampersand) \in Text
      BY <1>1, <2>2
    <3>2. Fields[t] = {UpTo(t, Ampersand)} \cup Fields[y]
      BY <1>9, <2>2
    <3> HIDE DEF y
    <3>3. Size(y) < n
      BY <3>1, SizeIsNat, TextIs
    <3>4. Fields[y] \in SUBSET Text
      BY <1>11, <3>1, <3>3
    <3> QED  BY <3>1, <3>2, <3>4
  <2> QED  BY <2>1, <2>2
<1>12. ASSUME NEW t \in Text PROVE Fields[t] \in SUBSET Text
  <2> HIDE DEF T
  <2>1. Nat \subseteq T
    BY <1>10, <1>11, InductionOnNat
  <2>2. Size(t) \in Nat
    BY SizeIsNat, TextIs
  <2>3. Size(t) + 1 \in T
    BY <2>1, <2>2
  <2> QED  BY <2>2, <2>3 DEF T
<1>13. Fields = [t \in Text |-> Fields[t]]
  <2> DEFINE g == C(Fields)
  <2>1. g = [t \in Text |-> g[t]]
    OBVIOUS
  <2> HIDE DEF C, g
  <2>2. g = Fields
    BY <1>8, Zenon DEF g
  <2> QED  BY <2>1, <2>2, Zenon
<1> QED  BY <1>9, <1>12, <1>13

LEMMA OneField ==
  ASSUME NEW x \in Text, Without(x, Ampersand)
  PROVE  Fields[x] = {x}
<1>1. ~Contains(x, Ampersand)
  BY NotThere
<1> QED  BY <1>1, FieldsAre

LEMMA FirstField ==
  ASSUME NEW x \in Text, NEW y \in Text, Without(x, Ampersand)
  PROVE  Fields[Cat(x, Cat(One(Ampersand), y))] = {x} \cup Fields[y]
<1> DEFINE t == Cat(x, Cat(One(Ampersand), y))
<1>1. Ampersand \in Nat
  BY DEF Ampersand
<1>2. t \in Text
  BY <1>1, TextParts
<1>3. Contains(t, Ampersand) /\ UpTo(t, Ampersand) = x /\ From(t, Find(t, Ampersand) + 1) = y
  BY <1>1, FoundAt
<1> HIDE DEF t
<1>4. Fields[t] = {UpTo(t, Ampersand)} \cup Fields[From(t, Find(t, Ampersand) + 1)]
  BY <1>2, <1>3, FieldsAre
<1> QED  BY <1>3, <1>4 DEF t

LEMMA FieldsJoin ==
  ASSUME NEW u \in Text, NEW v \in Text
  PROVE  Fields[Cat(u, Cat(One(Ampersand), v))] = Fields[u] \cup Fields[v]
<1> DEFINE WithMore(w) == Cat(w, Cat(One(Ampersand), v))
           T == {n \in Nat : \A w \in Text :
                   Size(w) < n => Fields[WithMore(w)] = Fields[w] \cup Fields[v]}
<1>1. Ampersand \in Nat
  BY DEF Ampersand
<1>2. 0 \in T
  BY SizeIsNat, TextIs
<1>3. ASSUME NEW n \in Nat, n \in T PROVE n + 1 \in T
  <2> SUFFICES ASSUME NEW w \in Text, Size(w) < n + 1
               PROVE  Fields[WithMore(w)] = Fields[w] \cup Fields[v]
    OBVIOUS
  <2>1. CASE Without(w, Ampersand)
    BY <2>1, OneField, FirstField
  <2>2. CASE ~Without(w, Ampersand)
    <3>1. PICK x \in Text, y \in Text :
            /\ w = Cat(x, Cat(One(Ampersand), y)) /\ Without(x, Ampersand)
            /\ Size(x) + 1 + Size(y) = Size(w)
      BY <1>1, <2>2, FreeOrNot
    <3>2. Size(y) < n
      <4>1. Size(x) \in Nat /\ Size(y) \in Nat
        BY SizeIsNat, TextIs
      <4> QED  BY <3>1, <4>1
    <3>3. Fields[WithMore(y)] = Fields[y] \cup Fields[v]
      BY <1>3, <3>2
    <3>4. WithMore(w) = Cat(x, Cat(One(Ampersand), WithMore(y)))
      <4>1. /\ One(Ampersand) \in Text /\ Cat(One(Ampersand), y) \in Text
            /\ Cat(One(Ampersand), v) \in Text
        BY <1>1, TextParts
      <4>2. WithMore(w) = Cat(x, Cat(Cat(One(Ampersand), y), Cat(One(Ampersand), v)))
        BY <3>1, <4>1, CatAssociates, TextIs
      <4>3. Cat(Cat(One(Ampersand), y), Cat(One(Ampersand), v))
              = Cat(One(Ampersand), Cat(y, Cat(One(Ampersand), v)))
        BY <4>1, CatAssociates, TextIs
      <4> QED  BY <4>2, <4>3
    <3>5. WithMore(y) \in Text
      BY <1>1, TextParts
    <3>6. Fields[WithMore(w)] = {x} \cup Fields[WithMore(y)] /\ Fields[w] = {x} \cup Fields[y]
      BY <3>1, <3>4, <3>5, FirstField
    <3> QED  BY <3>3, <3>6
  <2> QED  BY <2>1, <2>2
<1> HIDE DEF T
<1>4. Nat \subseteq T
  BY <1>2, <1>3, InductionOnNat
<1>5. Size(u) \in Nat /\ Size(u) + 1 \in T
  BY <1>4, SizeIsNat, TextIs
<1> QED  BY <1>5 DEF T

LEMMA LastField ==
  ASSUME NEW u \in Text, NEW z \in Text, Without(z, Ampersand)
  PROVE  \A f \in Fields[Cat(u, z)] : f \in Fields[u] \/ \E g \in Fields[u] : f = Cat(g, z)
<1> DEFINE T == {n \in Nat : \A w \in Text : Size(w) < n =>
                   \A f \in Fields[Cat(w, z)] :
                     f \in Fields[w] \/ \E g \in Fields[w] : f = Cat(g, z)}
<1>1. Ampersand \in Nat
  BY DEF Ampersand
<1>2. 0 \in T
  BY SizeIsNat, TextIs
<1>3. ASSUME NEW n \in Nat, n \in T PROVE n + 1 \in T
  <2> SUFFICES ASSUME NEW w \in Text, Size(w) < n + 1, NEW f \in Fields[Cat(w, z)]
               PROVE  f \in Fields[w] \/ \E g \in Fields[w] : f = Cat(g, z)
    OBVIOUS
  <2>1. CASE Without(w, Ampersand)
    <3>1. Without(Cat(w, z), Ampersand) /\ Cat(w, z) \in Text
      BY <2>1, WithoutBoth, CatType, TextIs
    <3> QED  BY <2>1, <3>1, OneField
  <2>2. CASE ~Without(w, Ampersand)
    <3>1. PICK x \in Text, y \in Text :
            /\ w = Cat(x, Cat(One(Ampersand), y)) /\ Without(x, Ampersand)
            /\ Size(x) + 1 + Size(y) = Size(w)
      BY <1>1, <2>2, FreeOrNot
    <3>2. Size(y) < n
      <4>1. Size(x) \in Nat /\ Size(y) \in Nat
        BY SizeIsNat, TextIs
      <4> QED  BY <3>1, <4>1
    <3>3. Cat(w, z) = Cat(x, Cat(One(Ampersand), Cat(y, z))) /\ Cat(y, z) \in Text
      <4>1. One(Ampersand) \in Text /\ Cat(One(Ampersand), y) \in Text /\ Cat(y, z) \in Text
        BY <1>1, TextParts, CatType, TextIs
      <4> QED  BY <3>1, <4>1, CatAssociates, TextIs
    <3>4. Fields[Cat(w, z)] = {x} \cup Fields[Cat(y, z)] /\ Fields[w] = {x} \cup Fields[y]
      BY <3>1, <3>3, FirstField
    <3>5. \A h \in Fields[Cat(y, z)] : h \in Fields[y] \/ \E g \in Fields[y] : h = Cat(g, z)
      BY <1>3, <3>2
    <3> QED  BY <3>4, <3>5
  <2> QED  BY <2>1, <2>2
<1> HIDE DEF T
<1>4. Nat \subseteq T
  BY <1>2, <1>3, InductionOnNat
<1>5. Size(u) \in Nat /\ Size(u) + 1 \in T
  BY <1>4, SizeIsNat, TextIs
<1> QED  BY <1>5 DEF T

-----------------------------------------------------------------------------
(* Percent-encoding, which the tracker undoes.                              *)
HexOf(digit) == IF digit < 58 THEN digit - 48 ELSE digit - 55

LEMMA DecodeIs ==
  /\ PercentDecode \in [Text -> Strings(Int)]
  /\ \A text \in Text :
       PercentDecode[text] =
         IF text = <<>> THEN <<>>
         ELSE IF text[1] # Percent \/ Len(text) < 3
         THEN <<text[1]>> \o PercentDecode[Tail(text)]
         ELSE <<16 * HexOf(text[2]) + HexOf(text[3])>> \o PercentDecode[From(text, 4)]
<1> DEFINE D == Text
           R == Strings(Int)
           size == [t \in D |-> Size(t)]
           Plain(t) == t[1] # Percent \/ Len(t) < 3
           First(t) == IF Plain(t) THEN t[1] ELSE 16 * HexOf(t[2]) + HexOf(t[3])
           Rest(t) == IF Plain(t) THEN Tail(t) ELSE From(t, 4)
           Body(f, t) == IF t = <<>> THEN <<>> ELSE <<First(t)>> \o f[Rest(t)]
           body == [p \in [D -> R] \X D |-> Body(p[1], p[2])]
           C(f) == [text \in Text |->
                      LET HexValue(digit) == IF digit < 58 THEN digit - 48 ELSE digit - 55
                      IN IF text = <<>> THEN <<>>
                         ELSE IF text[1] # Percent \/ Len(text) < 3
                         THEN <<text[1]>> \o f[Tail(text)]
                         ELSE <<16 * HexValue(text[2]) + HexValue(text[3])>> \o f[From(text, 4)]]
<1>1. ASSUME NEW t \in D, t # <<>>
      PROVE  Rest(t) \in D /\ Size(Rest(t)) < Size(t) /\ First(t) \in Int
  <2>1. t \in Seq(Nat) /\ Len(t) \in Nat /\ Len(t) > 0
    BY <1>1 DEF Text
  <2>2. CASE Plain(t)
    <3>1. Tail(t) \in Seq(Nat) /\ Len(Tail(t)) = Len(t) - 1 /\ t[1] \in Nat
      BY <2>1
    <3>2. Rest(t) = Tail(t) /\ First(t) = t[1]
      BY <2>2, Zenon
    <3> HIDE DEF Rest, First, Plain
    <3> QED  BY <2>1, <3>1, <3>2 DEF Text, Size
  <2>3. CASE ~Plain(t)
    <3>1. Len(t) >= 3
      BY <2>1, <2>3
    <3>2. /\ SubSeq(t, 4, Len(t)) \in Seq(Nat) /\ Len(SubSeq(t, 4, Len(t))) = Len(t) - 3
          /\ t[2] \in Nat /\ t[3] \in Nat
      <4>1. Drop(t, 3) \in Strings(Nat) /\ Size(Drop(t, 3)) = Size(t) - 3
        <5>1. t \in Strings(Nat) /\ 3 <= Size(t)
          BY <2>1, <3>1 DEF Strings, Size
        <5> QED  BY <5>1, DropType
      <4>2. t[2] \in Nat /\ t[3] \in Nat
        BY <2>1, <3>1
      <4> QED  BY <4>1, <4>2 DEF Drop, Strings, Size
    <3>3. Rest(t) = SubSeq(t, 4, Len(t)) /\ First(t) = 16 * HexOf(t[2]) + HexOf(t[3])
      BY <2>3, Zenon DEF From
    <3>4. HexOf(t[2]) \in Int /\ HexOf(t[3]) \in Int
      BY <3>2 DEF HexOf
    <3> HIDE DEF Rest, First, Plain
    <3> QED  BY <2>1, <3>1, <3>2, <3>3, <3>4 DEF Text, Size
  <2> QED  BY <2>2, <2>3
<1> HIDE DEF Rest, First, Plain
<1>2. ASSUME NEW f \in [D -> R], NEW t \in D PROVE Body(f, t) \in R
  <2>1. CASE t = <<>>
    BY <2>1 DEF Strings
  <2>2. CASE t # <<>>
    <3>1. f[Rest(t)] \in Seq(Int) /\ First(t) \in Int
      BY <1>1, <2>2 DEF Strings
    <3>2. <<First(t)>> \o f[Rest(t)] \in Seq(Int)
      BY <3>1
    <3> QED  BY <2>2, <3>2 DEF Strings
  <2> QED  BY <2>1, <2>2
<1>3. Recursion(D, R, size, body)
  <2>1. size \in [D -> Nat]
    BY SizeIsNat, TextIs
  <2>2. body \in [[D -> R] \X D -> R]
    <3> HIDE DEF Body, D, R
    <3> QED  BY <1>2
  <2>3. R # {}
    BY NoneType
  <2>4. ASSUME NEW f \in [D -> R], NEW g \in [D -> R], NEW t \in D,
               \A e \in D : size[e] < size[t] => f[e] = g[e]
        PROVE  body[<<f, t>>] = body[<<g, t>>]
    <3>1. t # <<>> => f[Rest(t)] = g[Rest(t)]
      BY <1>1, <2>4
    <3>2. Body(f, t) = Body(g, t)
      BY <3>1
    <3> HIDE DEF Body, D, R
    <3> QED  BY <3>2
  <2> HIDE DEF D, R, size, body
  <2> QED  BY <2>1, <2>2, <2>3, <2>4 DEF Recursion, CallsSmaller
<1>4. PICK f \in [D -> R] : \A t \in D : f[t] = body[<<f, t>>]
  <2> HIDE DEF D, R, size, body
  <2> QED  BY <1>3, RecursionByMeasure
<1>5. \A t \in D : f[t] = Body(f, t)
  <2> HIDE DEF Body, D, R
  <2> QED  BY <1>4
<1>6. ASSUME NEW h, NEW t \in Text PROVE C(h)[t] = Body(h, t)
  <2>1. CASE t = <<>>
    BY <2>1, Zenon
  <2>2. CASE t # <<>> /\ Plain(t)
    BY <2>2, Zenon DEF Plain, First, Rest
  <2>3. CASE t # <<>> /\ ~Plain(t)
    BY <2>3, Zenon DEF Plain, First, Rest, HexOf
  <2> QED  BY <2>1, <2>2, <2>3
<1>7. f = C(f)
  <2>1. \A t \in Text : f[t] = C(f)[t]
    <3> HIDE DEF C, Body
    <3> QED  BY <1>5, <1>6
  <2>2. C(f) = [t \in Text |-> C(f)[t]] /\ f = [t \in Text |-> f[t]]
    OBVIOUS
  <2> HIDE DEF C
  <2> QED  BY <2>1, <2>2
<1>8. PercentDecode = CHOOSE g : g = C(g)
  BY Zenon DEF PercentDecode
<1>9. PercentDecode = C(PercentDecode)
  <2> HIDE DEF C
  <2> QED  BY <1>7, <1>8, Zenon
<1>10. \A t \in Text : PercentDecode[t] = Body(PercentDecode, t)
  <2> SUFFICES ASSUME NEW t \in Text PROVE PercentDecode[t] = Body(PercentDecode, t)
    OBVIOUS
  <2>1. PercentDecode[t] = C(PercentDecode)[t]
    <3> HIDE DEF C, Body
    <3> QED  BY <1>9, Zenon
  <2> HIDE DEF C, Body
  <2> QED  BY <1>6, <2>1
<1> DEFINE T == {n \in Nat : \A t \in Text : Size(t) < n => PercentDecode[t] \in R}
<1>11. 0 \in T
  BY SizeIsNat, TextIs
<1>12. ASSUME NEW n \in Nat, n \in T PROVE n + 1 \in T
  <2> SUFFICES ASSUME NEW t \in Text, Size(t) < n + 1 PROVE PercentDecode[t] \in R
    OBVIOUS
  <2>1. CASE t = <<>>
    <3>1. PercentDecode[t] = <<>>
      BY <1>10, <2>1
    <3> QED  BY <3>1 DEF Strings
  <2>2. CASE t # <<>>
    <3> DEFINE y == Rest(t)
    <3>1. y \in Text /\ Size(y) < Size(t) /\ First(t) \in Int
      BY <1>1, <2>2
    <3>2. PercentDecode[t] = <<First(t)>> \o PercentDecode[y]
      BY <1>10, <2>2
    <3> HIDE DEF y
    <3>3. Size(y) < n
      BY <3>1, SizeIsNat, TextIs
    <3>4. PercentDecode[y] \in Seq(Int)
      BY <1>12, <3>1, <3>3 DEF Strings
    <3>5. <<First(t)>> \o PercentDecode[y] \in Seq(Int)
      BY <3>1, <3>4
    <3> QED  BY <3>2, <3>5 DEF Strings
  <2> QED  BY <2>1, <2>2
<1>13. ASSUME NEW t \in Text PROVE PercentDecode[t] \in R
  <2> HIDE DEF T, R
  <2>1. Nat \subseteq T
    BY <1>11, <1>12, InductionOnNat
  <2>2. Size(t) \in Nat
    BY SizeIsNat, TextIs
  <2>3. Size(t) + 1 \in T
    BY <2>1, <2>2
  <2> QED  BY <2>2, <2>3 DEF T
<1>14. PercentDecode = [t \in Text |-> PercentDecode[t]]
  <2> DEFINE g == C(PercentDecode)
  <2>1. g = [t \in Text |-> g[t]]
    OBVIOUS
  <2> HIDE DEF C, g
  <2>2. g = PercentDecode
    BY <1>9, Zenon DEF g
  <2> QED  BY <2>1, <2>2, Zenon
<1>15. PercentDecode \in [Text -> Strings(Int)]
  <2> HIDE DEF C, Body, T
  <2> QED  BY <1>13, <1>14
<1>16. ASSUME NEW text \in Text
      PROVE  PercentDecode[text] =
               IF text = <<>> THEN <<>>
               ELSE IF text[1] # Percent \/ Len(text) < 3
               THEN <<text[1]>> \o PercentDecode[Tail(text)]
               ELSE <<16 * HexOf(text[2]) + HexOf(text[3])>> \o PercentDecode[From(text, 4)]
  <2>1. PercentDecode[text] = Body(PercentDecode, text)
    <3> HIDE DEF Body
    <3> QED  BY <1>10
  <2>2. CASE text = <<>>
    BY <2>1, <2>2, Zenon
  <2>3. CASE text # <<>> /\ Plain(text)
    BY <2>1, <2>3, Zenon DEF Plain, First, Rest
  <2>4. CASE text # <<>> /\ ~Plain(text)
    BY <2>1, <2>4, Zenon DEF Plain, First, Rest
  <2> QED  BY <2>2, <2>3, <2>4
<1> QED  BY <1>15, <1>16

LEMMA ThreeAre ==
  ASSUME NEW a \in Nat, NEW b \in Nat, NEW c \in Nat
  PROVE  /\ <<a, b, c>> = Cat(One(a), Cat(One(b), One(c)))
         /\ <<a, b, c>> \in Text /\ Size(<<a, b, c>>) = 3
<1> DEFINE s == <<a, b, c>>
           t == Cat(One(a), Cat(One(b), One(c)))
<1>1. s \in Seq(Nat) /\ Len(s) = 3 /\ s[1] = a /\ s[2] = b /\ s[3] = c
  OBVIOUS
<1>2. /\ One(a) \in Text /\ One(b) \in Text /\ One(c) \in Text
      /\ Cat(One(b), One(c)) \in Text /\ t \in Text /\ Size(t) = 3
  <2>1. /\ One(a) \in Text /\ One(b) \in Text /\ One(c) \in Text
        /\ Size(One(a)) = 1 /\ Size(One(b)) = 1 /\ Size(One(c)) = 1
    BY OneType, TextIs
  <2>2. Cat(One(b), One(c)) \in Text /\ Size(Cat(One(b), One(c))) = 2
    BY <2>1, CatType, TextIs
  <2>3. t \in Text /\ Size(t) = 3
    BY <2>1, <2>2, CatType, TextIs
  <2> QED  BY <2>1, <2>2, <2>3
<1>3. t[1] = a /\ Drop(t, 1) = Cat(One(b), One(c))
  BY <1>2, FirstIs, TextIs
<1>4. Cat(One(b), One(c))[1] = b /\ Drop(Cat(One(b), One(c)), 1) = One(c) /\ One(c)[1] = c
  BY <1>2, FirstIs, TextIs DEF One
<1>5. t[2] = b /\ t[3] = c
  <2> DEFINE u == Cat(One(b), One(c))
  <2>1. u \in Text /\ One(a) \in Text /\ Size(One(a)) = 1 /\ Size(u) = 2 /\ Size(One(b)) = 1
        /\ Size(One(c)) = 1
    BY <1>2, TextParts
  <2>2. \A i \in 1 .. Size(One(c)) : u[Size(One(b)) + i] = One(c)[i]
    BY <1>2, PartsElements
  <2>3. u[2] = c /\ u[1] = b
    BY <1>4, <2>1, <2>2
  <2>4. \A i \in 1 .. Size(u) : Cat(One(a), u)[Size(One(a)) + i] = u[i]
    BY <2>1, PartsElements
  <2> HIDE DEF u
  <2>5. Cat(One(a), u)[2] = u[1] /\ Cat(One(a), u)[3] = u[2]
    BY <2>1, <2>4
  <2> QED  BY <2>3, <2>5 DEF u
<1> HIDE DEF s, t
<1>6. t \in Seq(Nat) /\ Len(t) = 3
  BY <1>2 DEF Text, Size
<1>7. \A i \in 1 .. Len(s) : s[i] = t[i]
  <2>1. \A i \in 1 .. Len(s) : i = 1 \/ i = 2 \/ i = 3
    BY <1>1
  <2> QED  BY <1>1, <1>3, <1>5, <2>1
<1>8. s = t
  BY <1>1, <1>6, <1>7, SameElements
<1> QED  BY <1>1, <1>8 DEF s, t, Text, Size

LEMMA DecodeSteps ==
  /\ PercentDecode[None] = None
  /\ \A a \in Nat, t \in Text : a # Percent =>
       PercentDecode[Cat(One(a), t)] = Cat(One(a), PercentDecode[t])
  /\ \A x \in Nat, y \in Nat, t \in Text :
       PercentDecode[Cat(One(Percent), Cat(One(x), Cat(One(y), t)))]
         = Cat(One(16 * HexOf(x) + HexOf(y)), PercentDecode[t])
<1>1. PercentDecode[None] = None
  <2>1. None \in Text
    BY NoneType, TextIs
  <2> QED  BY <2>1, DecodeIs DEF None
<1>2. ASSUME NEW a \in Nat, NEW t \in Text, a # Percent
      PROVE  PercentDecode[Cat(One(a), t)] = Cat(One(a), PercentDecode[t])
  <2> DEFINE text == Cat(One(a), t)
  <2>1. text \in Text /\ text # <<>> /\ text[1] = a
    BY TextParts, FirstIs, TextIs DEF None
  <2>2. Tail(text) = t
    <3>1. t \in Seq(Nat)
      BY DEF Text
    <3> QED  BY <3>1 DEF Cat, One
  <2> HIDE DEF text
  <2>3. PercentDecode[text] = <<a>> \o PercentDecode[t]
    BY <1>2, <2>1, <2>2, DecodeIs
  <2> QED  BY <2>3 DEF text, Cat, One
<1>3. ASSUME NEW x \in Nat, NEW y \in Nat, NEW t \in Text
      PROVE  PercentDecode[Cat(One(Percent), Cat(One(x), Cat(One(y), t)))]
               = Cat(One(16 * HexOf(x) + HexOf(y)), PercentDecode[t])
  <2> DEFINE text == Cat(One(Percent), Cat(One(x), Cat(One(y), t)))
  <2>1. t \in Seq(Nat) /\ Len(t) \in Nat /\ Percent \in Nat
    BY DEF Text, Percent
  <2> DEFINE w == <<Percent, x, y>>
  <2>2. w = Cat(One(Percent), Cat(One(x), One(y))) /\ w \in Text /\ Size(w) = 3
    BY <2>1, ThreeAre
  <2>3. w[1] = Percent /\ w[2] = x /\ w[3] = y
    OBVIOUS
  <2> HIDE DEF w, text
  <2>4. text = Cat(w, t)
    <3>1. /\ One(Percent) \in Text /\ One(x) \in Text /\ One(y) \in Text
          /\ Cat(One(x), One(y)) \in Text
      BY <2>1, OneType, CatType, TextIs
    <3>2. Cat(w, t) = Cat(One(Percent), Cat(Cat(One(x), One(y)), t))
      BY <2>2, <3>1, CatAssociates, TextIs
    <3>3. Cat(Cat(One(x), One(y)), t) = Cat(One(x), Cat(One(y), t))
      BY <3>1, CatAssociates, TextIs
    <3> QED  BY <3>2, <3>3 DEF text
  <2>5. text \in Text /\ Len(text) = 3 + Len(t)
    BY <2>2, <2>4, CatType, TextIs DEF Size
  <2>6. text[1] = Percent /\ text[2] = x /\ text[3] = y
    BY <2>2, <2>3, <2>4, PartsElements
  <2>7. From(text, 4) = t
    <3>1. Drop(text, 3) = t
      BY <2>2, <2>4, DropCat, TextIs
    <3> QED  BY <3>1 DEF From, Drop
  <2>8. text # <<>> /\ ~(Len(text) < 3)
    BY <2>1, <2>5
  <2>9. PercentDecode[text] = <<16 * HexOf(x) + HexOf(y)>> \o PercentDecode[t]
    BY <2>5, <2>6, <2>7, <2>8, DecodeIs
  <2> QED  BY <2>9 DEF text, Cat, One
<1> QED  BY <1>1, <1>2, <1>3

LEMMA ByteIsDecoded ==
  ASSUME NEW c \in Nat, NEW t \in Text
  PROVE  /\ EncodeByte(c) \in Text /\ Without(EncodeByte(c), Ampersand)
         /\ PercentDecode[Cat(EncodeByte(c), t)] = Cat(One(c), PercentDecode[t])
<1>1. CASE c \in Unreserved
  <2>1. EncodeByte(c) = One(c)
    BY <1>1 DEF EncodeByte, One
  <2>2. c # Percent /\ c # Ampersand
    BY <1>1 DEF Unreserved, Percent, Ampersand
  <2> QED  BY <2>1, <2>2, DecodeSteps, WithoutOne, OneType, TextIs
<1>2. CASE c \notin Unreserved
  <2> DEFINE h == HexDigit(c \div 16)
             l == HexDigit(c % 16)
  <2>1. c \div 16 \in Nat /\ c % 16 \in 0 .. 15 /\ c = 16 * (c \div 16) + (c % 16)
    OBVIOUS
  <2>2. ASSUME NEW n \in Nat
        PROVE  HexDigit(n) \in Nat /\ HexDigit(n) # Ampersand /\ HexOf(HexDigit(n)) = n
    BY DEF HexDigit, HexOf, Ampersand
  <2>3. /\ h \in Nat /\ h # Ampersand /\ HexOf(h) = c \div 16
        /\ l \in Nat /\ l # Ampersand /\ HexOf(l) = c % 16
    BY <2>1, <2>2
  <2>4. EncodeByte(c) = <<Percent, h, l>>
    BY <1>2 DEF EncodeByte
  <2> HIDE DEF h, l
  <2>5. Percent \in Nat /\ Percent # Ampersand
    BY DEF Percent, Ampersand
  <2>6. EncodeByte(c) = Cat(One(Percent), Cat(One(h), One(l)))
    BY <2>3, <2>4, <2>5, ThreeAre
  <2>7. /\ One(Percent) \in Text /\ One(h) \in Text /\ One(l) \in Text
        /\ Cat(One(h), One(l)) \in Text /\ Cat(One(Percent), Cat(One(h), One(l))) \in Text
        /\ Cat(One(l), t) \in Text
    BY <2>3, <2>5, OneType, CatType, TextIs
  <2>8. Without(EncodeByte(c), Ampersand)
    BY <2>3, <2>5, <2>6, <2>7, WithoutBoth, WithoutOne
  <2>9. Cat(EncodeByte(c), t) = Cat(One(Percent), Cat(One(h), Cat(One(l), t)))
    <3>1. Cat(EncodeByte(c), t) = Cat(One(Percent), Cat(Cat(One(h), One(l)), t))
      BY <2>6, <2>7, CatAssociates, TextIs
    <3>2. Cat(Cat(One(h), One(l)), t) = Cat(One(h), Cat(One(l), t))
      BY <2>7, CatAssociates, TextIs
    <3> QED  BY <3>1, <3>2
  <2>10. 16 * HexOf(h) + HexOf(l) = c
    BY <2>1, <2>3
  <2>11. PercentDecode[Cat(EncodeByte(c), t)] = Cat(One(c), PercentDecode[t])
    BY <2>3, <2>9, <2>10, DecodeSteps
  <2> QED  BY <2>6, <2>7, <2>8, <2>11
<1> QED  BY <1>1, <1>2

(* What is encoded is read back, and has no ampersand (UrlEncode).          *)
THEOREM EncodedIsDecoded ==
  ASSUME NEW v \in Text
  PROVE  /\ UrlEncode(v) \in Text /\ Without(UrlEncode(v), Ampersand)
         /\ PercentDecode[UrlEncode(v)] = v
<1> DEFINE parts == [k \in DOMAIN v |-> EncodeByte(v[k])]
           n == Size(v)
<1>1. v \in Seq(Nat) /\ n \in Nat /\ DOMAIN v = 1 .. n /\ \A k \in 1 .. n : v[k] \in Nat
  BY DEF Text, Size
<1>2. None \in Text
  BY NoneType, TextIs
<1>3. \A k \in 1 .. n : EncodeByte(v[k]) \in Text
  BY <1>1, <1>2, ByteIsDecoded
<1>4. parts \in Strings(Text) /\ Size(parts) = n /\ \A k \in 1 .. n : parts[k] = EncodeByte(v[k])
  <2>1. parts = [k \in 1 .. n |-> EncodeByte(v[k])]
    BY <1>1
  <2> HIDE DEF n
  <2> QED  BY <1>1, <1>3, <2>1 DEF Strings, Size
<1>5. UrlEncode(v) = FlattenSeq(parts)
  BY DEF UrlEncode
<1> HIDE DEF parts
<1>6. PICK rest : Remainders(rest, parts)
  BY <1>4, FlattenParts
<1>7. /\ \A k \in 0 .. n : rest[k] \in Text
      /\ rest[0] = UrlEncode(v) /\ rest[n] = None
      /\ \A k \in 1 .. n : rest[k - 1] = Cat(EncodeByte(v[k]), rest[k])
  BY <1>4, <1>5, <1>6 DEF Remainders
<1> DEFINE T == {k \in 0 .. n : /\ Without(rest[k], Ampersand)
                                /\ PercentDecode[rest[k]] = Drop(v, k)}
<1>8. n \in T
  <2>1. Drop(v, n) = None
    BY <1>1, DropAll, TextIs
  <2>2. Without(None, Ampersand)
    BY WithoutOne DEF Ampersand
  <2> QED  BY <1>1, <1>7, <2>1, <2>2, DecodeSteps
<1>9. ASSUME NEW k \in 1 .. n, k \in T PROVE k - 1 \in T
  <2>1. rest[k - 1] = Cat(EncodeByte(v[k]), rest[k]) /\ rest[k] \in Text /\ v[k] \in Nat
    BY <1>1, <1>7
  <2>2. /\ EncodeByte(v[k]) \in Text /\ Without(EncodeByte(v[k]), Ampersand)
        /\ PercentDecode[rest[k - 1]] = Cat(One(v[k]), PercentDecode[rest[k]])
    BY <2>1, ByteIsDecoded
  <2>3. Without(rest[k - 1], Ampersand)
    BY <1>9, <2>1, <2>2, WithoutBoth
  <2>4. Drop(v, k - 1) = Cat(One(v[k]), Drop(v, k))
    <3>1. k - 1 \in Nat /\ k - 1 < n /\ (k - 1) + 1 = k
      BY <1>1
    <3>2. Drop(v, k - 1) \in Strings(Nat) /\ Size(Drop(v, k - 1)) = n - (k - 1)
      BY <1>1, <3>1, DropType, TextIs
    <3>3. Drop(v, k - 1) # None
      <4>1. Size(None) = 0 /\ n - (k - 1) # 0
        BY <1>1, <3>1, NoneType
      <4> QED  BY <3>2, <4>1
    <3>4. PICK a \in Nat, t \in Strings(Nat) : Drop(v, k - 1) = Cat(One(a), t)
      BY <3>2, <3>3, FirstOf
    <3>5. v[(k - 1) + 1] = a /\ Drop(v, (k - 1) + 1) = t
      <4> DEFINE j == k - 1
      <4> HIDE DEF j
      <4>1. j \in Nat /\ j <= Size(v) /\ v \in Strings(Nat) /\ Drop(v, j) = Cat(One(a), t)
        <5>1. v \in Strings(Nat)
          BY TextIs
        <5>2. j \in Nat /\ j <= Size(v)
          BY <1>1, <3>1 DEF j
        <5>3. Drop(v, j) = Cat(One(a), t)
          BY <3>4, Zenon DEF j
        <5> QED  BY <5>1, <5>2, <5>3
      <4>2. v[j + 1] = a /\ Drop(v, j + 1) = t
        BY <4>1, DropOneMore
      <4> QED  BY <4>2 DEF j
    <3> QED  BY <3>1, <3>4, <3>5
  <2>5. k - 1 \in 0 .. n
    BY <1>1
  <2> QED  BY <1>9, <2>2, <2>3, <2>4, <2>5
<1>10. 0 \in T
  <2>1. T \in SUBSET (0 .. n)
    OBVIOUS
  <2> HIDE DEF T, n
  <2> QED  BY <1>1, <1>8, <1>9, <2>1, FromTheLast
<1>11. Drop(v, 0) = v
  BY DropNothing, TextIs
<1>12. 0 \in 0 .. n
  BY <1>1
<1> QED  BY <1>7, <1>10, <1>11, <1>12

-----------------------------------------------------------------------------
(* A query is its parameters, with ampersands between them.                 *)
Named(name) == Cat(One(name), One(Equals))
Parameter(name, value) == Cat(Named(name), UrlEncode(value))
And(s, t) == Cat(s, Cat(One(Ampersand), t))

LEMMA AndType ==
  ASSUME NEW s \in Text, NEW t \in Text
  PROVE  And(s, t) \in Text
BY TextParts DEF And, Ampersand

LEMMA NamedIs ==
  ASSUME NEW name \in Nat
  PROVE  /\ Named(name) \in Text /\ Size(Named(name)) = 2
         /\ Named(name)[1] = name /\ Named(name)[2] = Equals
         /\ Named(name) = <<name, Equals>>
         /\ name # Ampersand => Without(Named(name), Ampersand)
<1>1. One(name) \in Text /\ One(Equals) \in Text /\ Size(One(name)) = 1 /\ Size(One(Equals)) = 1
  BY OneType, TextIs DEF Equals
<1>2. Named(name) \in Text /\ Size(Named(name)) = 2
  BY <1>1, CatType, TextIs DEF Named
<1>3. Named(name)[1] = name
  BY <1>1, FirstIs, TextIs DEF Named
<1>4. Named(name)[2] = Equals
  BY <1>1, ElementAfter, TextIs DEF Named, Equals
<1>5. Named(name) = <<name, Equals>>
  <2> DEFINE s == <<name, Equals>>
             t == Named(name)
  <2>1. s \in Seq(Nat) /\ Len(s) = 2 /\ s[1] = name /\ s[2] = Equals
    BY DEF Equals
  <2>2. t \in Seq(Nat) /\ Len(t) = 2
    BY <1>2 DEF Text, Size
  <2> HIDE DEF s
  <2>3. \A i \in 1 .. Len(s) : i = 1 \/ i = 2
    BY <2>1
  <2>4. s = t
    <3>1. \A i \in 1 .. Len(s) : s[i] = t[i]
      BY <1>3, <1>4, <2>1, <2>3
    <3> HIDE DEF t
    <3> QED  BY <2>1, <2>2, <3>1, SameElements
  <2> QED  BY <2>4 DEF s
<1>6. name # Ampersand => Without(Named(name), Ampersand)
  <2>1. Equals # Ampersand /\ Equals \in Nat
    BY DEF Equals, Ampersand
  <2> QED  BY <1>1, <2>1, WithoutBoth, WithoutOne DEF Named
<1> QED  BY <1>2, <1>3, <1>4, <1>5, <1>6

LEMMA BeginsWith ==
  ASSUME NEW name \in Nat, NEW f \in Text
  PROVE  IsPrefix(<<name, Equals>>, f) <=> Size(f) >= 2 /\ f[1] = name /\ f[2] = Equals
<1> DEFINE s == <<name, Equals>>
           t == SubSeq(f, 1, 2)
<1>1. s \in Seq(Nat) /\ Len(s) = 2 /\ s[1] = name /\ s[2] = Equals /\ SubSeq(s, 1, 2) = s
  <2>1. s \in Seq(Nat) /\ Len(s) = 2 /\ s[1] = name /\ s[2] = Equals
    BY DEF Equals
  <2> HIDE DEF s
  <2> QED  BY <2>1
<1>2. f \in Seq(Nat) /\ Len(f) \in Nat /\ Size(f) = Len(f)
  BY DEF Text, Size
<1>3. IsPrefix(s, f) <=> 2 <= Len(f) /\ s = t
  <2> HIDE DEF s
  <2> QED  BY <1>1 DEF IsPrefix
<1>4. CASE Len(f) >= 2
  <2>1. t \in Seq(Nat) /\ Len(t) = 2 /\ t[1] = f[1] /\ t[2] = f[2]
    BY <1>2, <1>4
  <2> HIDE DEF s, t
  <2>2. s[1] = t[1] /\ s[2] = t[2] => s = t
    <3>1. \A i \in 1 .. 2 : i = 1 \/ i = 2
      OBVIOUS
    <3> QED  BY <1>1, <2>1, <3>1, SameElements
  <2> QED  BY <1>1, <1>2, <1>3, <1>4, <2>1, <2>2 DEF s
<1>5. CASE ~(Len(f) >= 2)
  BY <1>2, <1>3, <1>5
<1> QED  BY <1>4, <1>5

LEMMA ParameterIs ==
  ASSUME NEW name \in 1 .. 4, NEW value \in Text
  PROVE  /\ Parameter(name, value) \in Text
         /\ Without(Parameter(name, value), Ampersand)
         /\ \A other \in Nat : IsPrefix(<<other, Equals>>, Parameter(name, value)) <=> other = name
         /\ PercentDecode[From(Parameter(name, value), 3)] = value
<1> DEFINE u == UrlEncode(value)
           p == Parameter(name, value)
<1>1. u \in Text /\ Without(u, Ampersand) /\ PercentDecode[u] = value /\ Size(u) \in Nat
  BY EncodedIsDecoded, SizeIsNat, TextIs
<1> HIDE DEF u
<1>2. name \in Nat /\ name # Ampersand
  BY DEF Ampersand
<1>3. /\ Named(name) \in Text /\ Size(Named(name)) = 2 /\ Named(name)[1] = name
      /\ Named(name)[2] = Equals /\ Without(Named(name), Ampersand)
  BY <1>2, NamedIs
<1>4. p = Cat(Named(name), u)
  BY DEF Parameter, u
<1> HIDE DEF p
<1>5. p \in Text /\ Without(p, Ampersand) /\ Size(p) = 2 + Size(u)
  BY <1>1, <1>3, <1>4, CatType, WithoutBoth, TextIs
<1>6. p[1] = name /\ p[2] = Equals
  BY <1>1, <1>3, <1>4, PartsElements
<1>7. ASSUME NEW other \in Nat PROVE IsPrefix(<<other, Equals>>, p) <=> other = name
  BY <1>1, <1>5, <1>6, BeginsWith
<1>8. From(p, 3) = u
  <2>1. Drop(p, 2) = u
    BY <1>1, <1>3, <1>4, DropCat, TextIs
  <2> QED  BY <2>1 DEF From, Drop
<1> QED  BY <1>1, <1>5, <1>7, <1>8 DEF p

Query(a, b, c, d) ==
  And(Parameter(1, a), And(Parameter(2, b), And(Parameter(3, c), Parameter(4, d))))

LEMMA QueryIs ==
  ASSUME NEW a \in Text, NEW b \in Text, NEW c \in Text, NEW d \in Text
  PROVE  BuildQuery(<<<<1, a>>, <<2, b>>, <<3, c>>, <<4, d>>>>) = Query(a, b, c, d)
<1> DEFINE params == <<<<1, a>>, <<2, b>>, <<3, c>>, <<4, d>>>>
           Field(k) == <<params[k][1], Equals>> \o UrlEncode(params[k][2])
           parts == [k \in DOMAIN params |->
                       IF k = 1 THEN Field(k) ELSE <<Ampersand>> \o Field(k)]
           amp == One(Ampersand)
           p1 == Parameter(1, a)
           p2 == Parameter(2, b)
           p3 == Parameter(3, c)
           p4 == Parameter(4, d)
<1>1. BuildQuery(params) = FlattenSeq(parts)
  BY Zenon DEF BuildQuery
<1>2. /\ DOMAIN params = 1 .. 4
      /\ params[1] = <<1, a>> /\ params[2] = <<2, b>> /\ params[3] = <<3, c>>
      /\ params[4] = <<4, d>>
  OBVIOUS
<1>3. p1 \in Text /\ p2 \in Text /\ p3 \in Text /\ p4 \in Text /\ amp \in Text
  BY ParameterIs, OneType, TextIs DEF Ampersand
<1>4. Field(1) = p1 /\ Field(2) = p2 /\ Field(3) = p3 /\ Field(4) = p4
  <2>1. ASSUME NEW k \in 1 .. 4, NEW v, params[k] = <<k, v>> PROVE Field(k) = Parameter(k, v)
    <3>1. params[k][1] = k /\ params[k][2] = v
      BY <2>1
    <3>2. Named(k) = <<k, Equals>>
      BY NamedIs
    <3> HIDE DEF params
    <3> QED  BY <3>1, <3>2, Zenon DEF Parameter, Cat
  <2> HIDE DEF params, Field
  <2> QED  BY <1>2, <2>1
<1> HIDE DEF params, Field, p1, p2, p3, p4, amp
<1>5. /\ parts[1] = p1 /\ parts[2] = Cat(amp, p2) /\ parts[3] = Cat(amp, p3)
      /\ parts[4] = Cat(amp, p4)
  BY <1>2, <1>4 DEF Cat, amp, One
<1>6. Cat(amp, p2) \in Text /\ Cat(amp, p3) \in Text /\ Cat(amp, p4) \in Text
  BY <1>3, CatType, TextIs
<1>7. parts \in Strings(Text) /\ Size(parts) = 4
  <2>1. parts = [k \in 1 .. 4 |-> parts[k]]
    BY <1>2
  <2>2. \A k \in 1 .. 4 : parts[k] \in Text
    <3>1. \A k \in 1 .. 4 : k = 1 \/ k = 2 \/ k = 3 \/ k = 4
      OBVIOUS
    <3> HIDE DEF parts
    <3> QED  BY <1>3, <1>5, <1>6, <3>1
  <2> HIDE DEF parts
  <2>3. parts \in Seq(Text)
    BY <2>1, <2>2
  <2>4. Len(parts) = 4
    BY <2>1
  <2> QED  BY <2>3, <2>4 DEF Strings, Size
<1> HIDE DEF parts
<1>8. PICK rest : Remainders(rest, parts)
  BY <1>7, FlattenParts
<1>9. /\ rest[0] = FlattenSeq(parts) /\ rest[4] = None
      /\ \A k \in 1 .. 4 : rest[k - 1] = Cat(parts[k], rest[k])
  BY <1>7, <1>8 DEF Remainders
<1>10. /\ rest[0] = Cat(parts[1], rest[1]) /\ rest[1] = Cat(parts[2], rest[2])
       /\ rest[2] = Cat(parts[3], rest[3]) /\ rest[3] = Cat(parts[4], rest[4])
  <2>1. /\ rest[1 - 1] = Cat(parts[1], rest[1]) /\ rest[2 - 1] = Cat(parts[2], rest[2])
        /\ rest[3 - 1] = Cat(parts[3], rest[3]) /\ rest[4 - 1] = Cat(parts[4], rest[4])
    BY <1>9
  <2> QED  BY <2>1
<1>11. rest[3] = Cat(amp, p4)
  BY <1>5, <1>6, <1>9, <1>10, CatNone, TextIs
<1>12. rest[2] = Cat(amp, And(p3, p4))
  BY <1>3, <1>5, <1>6, <1>10, <1>11, CatAssociates, TextIs DEF And, amp
<1>13. And(p3, p4) \in Text
  BY <1>3, AndType
<1>14. Cat(amp, And(p3, p4)) \in Text
  BY <1>3, <1>13, CatType, TextIs
<1>15. rest[1] = Cat(amp, And(p2, And(p3, p4)))
  BY <1>3, <1>5, <1>10, <1>12, <1>14, CatAssociates, TextIs DEF And, amp
<1>16. rest[0] = And(p1, And(p2, And(p3, p4)))
  BY <1>5, <1>10, <1>15, Zenon DEF And, amp
<1> QED  BY <1>1, <1>9, <1>16 DEF Query, params, p1, p2, p3, p4

(* What is read of a path with such a query, which may follow one of the    *)
(* URL's own.                                                               *)
NoneNamed(path) ==
  \A field \in Fields[OwnQuery(path)], name \in 1 .. 4 : ~IsPrefix(<<name, Equals>>, field)

Asked(path, query) == Cat(path, Cat(One(Question), query))

NoneOfIts(y) ==
  \A f \in Fields[y], name \in {2, 3} : f \in Text /\ ~IsPrefix(<<name, Equals>>, f)

LEMMA OtherFields ==
  ASSUME NEW y \in Text, NEW a \in Text, NEW b \in Text, NEW c \in Text, NEW d \in Text,
         NEW own \in Text, y = own \/ y = Cat(own, Cat(One(Question), Parameter(1, a))),
         own = Parameter(1, a) \/ \A field \in Fields[own], name \in 1 .. 4 :
                                     ~IsPrefix(<<name, Equals>>, field)
  PROVE  NoneOfIts(y)
<1> SUFFICES ASSUME NEW f \in Fields[y], NEW name \in {2, 3}
             PROVE  f \in Text /\ ~IsPrefix(<<name, Equals>>, f)
  BY DEF NoneOfIts
<1> DEFINE p == Parameter(1, a)
           z == Cat(One(Question), p)
<1>1. p \in Text /\ Without(p, Ampersand) /\ ~IsPrefix(<<name, Equals>>, p)
  BY ParameterIs
<1>2. Fields[own] \in SUBSET Text /\ Fields[y] \in SUBSET Text
  BY FieldsAre
<1>3. ASSUME NEW g \in Fields[own] PROVE ~IsPrefix(<<name, Equals>>, g)
  <2>1. CASE own = p
    BY <1>1, <1>3, <2>1, OneField
  <2>2. CASE own # p
    BY <1>3, <2>2
  <2> QED  BY <2>1, <2>2
<1>4. CASE y = own
  BY <1>2, <1>3, <1>4
<1>5. CASE y = Cat(own, z)
  <2>1. z \in Text /\ Without(z, Ampersand) /\ One(Question) \in Text /\ Question \in Nat
    <3>1. Question # Ampersand /\ Question \in Nat
      BY DEF Question, Ampersand
    <3>2. One(Question) \in Text /\ Without(One(Question), Ampersand)
      BY <3>1, OneType, WithoutOne, TextIs
    <3> QED  BY <1>1, <3>1, <3>2, CatType, WithoutBoth, TextIs
  <2>2. z[1] = Question /\ Size(z) >= 1
    <3>1. Size(z) = Size(p) + 1 /\ Size(p) \in Nat
      BY <1>1, <2>1, FirstIs, SizeIsNat, TextIs
    <3>2. z[1] = Question
      BY <1>1, <2>1, FirstIs, TextIs
    <3> QED  BY <3>1, <3>2
  <2> HIDE DEF z
  <2>3. f \in Fields[own] \/ \E g \in Fields[own] : f = Cat(g, z)
    BY <1>5, <2>1, LastField
  <2>4. ASSUME NEW g \in Fields[own], f = Cat(g, z) PROVE ~IsPrefix(<<name, Equals>>, f)
    <3>1. g \in Text /\ name \in Nat /\ f \in Text
      BY <1>2
    <3>2. Size(g) \in Nat /\ Size(z) \in Nat /\ Size(f) = Size(g) + Size(z)
      BY <2>1, <2>4, <3>1, SizeIsNat, CatType, TextIs
    <3>3. /\ \A i \in 1 .. Size(g) : f[i] = g[i]
          /\ \A i \in 1 .. Size(z) : f[Size(g) + i] = z[i]
      BY <2>1, <2>4, <3>1, PartsElements
    <3>4. f[Size(g) + 1] = Question
      BY <2>1, <2>2, <3>2, <3>3
    <3>5. Question # name /\ Question # Equals
      BY DEF Question, Equals
    <3>6. ~(Size(g) >= 2 /\ g[1] = name /\ g[2] = Equals)
      BY <1>3, <2>4, <3>1, BeginsWith
    <3>7. ~(f[1] = name /\ f[2] = Equals)
      <4>1. CASE Size(g) = 0
        BY <3>4, <3>5, <4>1
      <4>2. CASE Size(g) = 1
        BY <3>4, <3>5, <4>2
      <4>3. CASE Size(g) >= 2
        BY <3>2, <3>3, <3>6, <4>3
      <4> QED  BY <3>2, <4>1, <4>2, <4>3
    <3> QED  BY <3>1, <3>7, BeginsWith
  <2> QED  BY <1>2, <1>3, <2>3, <2>4
<1> QED  BY <1>4, <1>5

LEMMA FieldsOfQuery ==
  ASSUME NEW y \in Text, NEW b \in Text, NEW c \in Text, NEW d \in Text
  PROVE  Fields[And(y, And(Parameter(2, b), And(Parameter(3, c), Parameter(4, d))))]
           = Fields[y] \cup {Parameter(2, b), Parameter(3, c), Parameter(4, d)}
<1> DEFINE p2 == Parameter(2, b)
           p3 == Parameter(3, c)
           p4 == Parameter(4, d)
<1>1. /\ p2 \in Text /\ Without(p2, Ampersand) /\ p3 \in Text /\ Without(p3, Ampersand)
      /\ p4 \in Text /\ Without(p4, Ampersand)
  BY ParameterIs
<1> HIDE DEF p2, p3, p4
<1>2. And(p3, p4) \in Text /\ And(p2, And(p3, p4)) \in Text
  BY <1>1, AndType
<1>3. Fields[And(p3, p4)] = {p3} \cup {p4}
  BY <1>1, FirstField, OneField DEF And
<1>4. Fields[And(p2, And(p3, p4))] = {p2} \cup ({p3} \cup {p4})
  BY <1>1, <1>2, <1>3, FirstField DEF And
<1>5. Fields[And(y, And(p2, And(p3, p4)))] = Fields[y] \cup ({p2} \cup ({p3} \cup {p4}))
  BY <1>2, <1>4, FieldsJoin DEF And
<1> QED  BY <1>5 DEF p2, p3, p4

LEMMA QueryBegins ==
  ASSUME NEW path \in Text, NoneNamed(path), NEW a \in Text, NEW b \in Text, NEW c \in Text,
         NEW d \in Text
  PROVE  \E y \in Text :
           /\ From(Asked(path, Query(a, b, c, d)),
                   Find(Asked(path, Query(a, b, c, d)), Question) + 1)
                = And(y, And(Parameter(2, b), And(Parameter(3, c), Parameter(4, d))))
           /\ NoneOfIts(y)
<1> DEFINE p1 == Parameter(1, a)
           more == And(Parameter(2, b), And(Parameter(3, c), Parameter(4, d)))
           query == And(p1, more)
           text == Asked(path, query)
<1>1. p1 \in Text /\ more \in Text /\ query \in Text /\ Query(a, b, c, d) = query
  <2>1. /\ Parameter(1, a) \in Text /\ Parameter(2, b) \in Text /\ Parameter(3, c) \in Text
        /\ Parameter(4, d) \in Text
    BY ParameterIs
  <2> QED  BY <2>1, AndType DEF Query
<1>2. Question \in Nat /\ One(Question) \in Text /\ One(Ampersand) \in Text
  BY OneType, TextIs DEF Question, Ampersand
<1>3. CASE Without(path, Question)
  <2>1. From(text, Find(text, Question) + 1) = query
    BY <1>1, <1>2, <1>3, FoundAt DEF Asked
  <2>2. NoneOfIts(p1)
    BY <1>1, OtherFields
  <2> HIDE DEF p1, more, text
  <2> QED  BY <1>1, <2>1, <2>2 DEF text, p1, more
<1>4. CASE ~Without(path, Question)
  <2>1. PICK x \in Text, own \in Text :
          path = Cat(x, Cat(One(Question), own)) /\ Without(x, Question)
    BY <1>2, <1>4, FreeOrNot
  <2>2. OwnQuery(path) = own
    BY <1>2, <2>1, FoundAt DEF OwnQuery
  <2> DEFINE y == Cat(own, Cat(One(Question), p1))
  <2> HIDE DEF more, p1
  <2>3. Cat(One(Question), p1) \in Text /\ y \in Text /\ Cat(One(Question), query) \in Text
    BY <1>1, <1>2, TextParts
  <2>4. text = Cat(x, Cat(One(Question), Cat(own, Cat(One(Question), query))))
    <3>1. Cat(One(Question), own) \in Text
      BY <1>2, TextParts
    <3>2. text = Cat(x, Cat(Cat(One(Question), own), Cat(One(Question), query)))
      BY <2>1, <2>3, <3>1, CatAssociates, TextIs DEF Asked
    <3>3. Cat(Cat(One(Question), own), Cat(One(Question), query))
            = Cat(One(Question), Cat(own, Cat(One(Question), query)))
      BY <1>2, <2>3, CatAssociates, TextIs
    <3> QED  BY <3>2, <3>3
  <2>5. Cat(own, Cat(One(Question), query)) = And(y, more)
    <3>1. Cat(One(Ampersand), more) \in Text
      BY <1>1, <1>2, CatType, TextIs
    <3>2. And(y, more) = Cat(own, Cat(Cat(One(Question), p1), Cat(One(Ampersand), more)))
      BY <2>3, <3>1, CatAssociates, TextIs DEF And
    <3>3. Cat(Cat(One(Question), p1), Cat(One(Ampersand), more)) = Cat(One(Question), query)
      BY <1>1, <1>2, <3>1, CatAssociates, TextIs DEF And
    <3> QED  BY <3>2, <3>3
  <2>6. Cat(own, Cat(One(Question), query)) \in Text
    BY <2>3, CatType, TextIs
  <2>7. From(text, Find(text, Question) + 1) = And(y, more)
    BY <1>2, <2>1, <2>4, <2>5, <2>6, FoundAt
  <2>8. \A field \in Fields[own], name \in 1 .. 4 : ~IsPrefix(<<name, Equals>>, field)
    BY <2>2 DEF NoneNamed
  <2>9. NoneOfIts(y)
    BY <2>3, <2>8, OtherFields DEF p1
  <2> HIDE DEF y, text
  <2> QED  BY <1>1, <2>3, <2>7, <2>9 DEF text, more
<1> QED  BY <1>3, <1>4

LEMMA ParametersAreRead ==
  ASSUME NEW path \in Text, NoneNamed(path), NEW a \in Text, NEW b \in Text, NEW c \in Text,
         NEW d \in Text
  PROVE  LET text == Asked(path, Query(a, b, c, d))
         IN ReadParam(text, 2) = b /\ ReadParam(text, 3) = c
<1> DEFINE text == Asked(path, Query(a, b, c, d))
           p2 == Parameter(2, b)
           p3 == Parameter(3, c)
           p4 == Parameter(4, d)
           from == From(text, Find(text, Question) + 1)
           Having(name) == {field \in Fields[from] : IsPrefix(<<name, Equals>>, field)}
<1>1. PICK y \in Text :
        /\ from = And(y, And(p2, And(p3, p4)))
        /\ NoneOfIts(y)
  BY QueryBegins
<1>2. Fields[from] = Fields[y] \cup {p2, p3, p4}
  BY <1>1, FieldsOfQuery
<1>3. /\ \A name \in Nat : IsPrefix(<<name, Equals>>, p2) <=> name = 2
      /\ \A name \in Nat : IsPrefix(<<name, Equals>>, p3) <=> name = 3
      /\ \A name \in Nat : IsPrefix(<<name, Equals>>, p4) <=> name = 4
      /\ PercentDecode[From(p2, 3)] = b /\ PercentDecode[From(p3, 3)] = c
  BY ParameterIs
<1>4. \A name : ReadParam(text, name) =
        IF Having(name) = {} THEN <<>>
        ELSE PercentDecode[From(CHOOSE field \in Having(name) : TRUE, 3)]
  BY Zenon DEF ReadParam
<1> HIDE DEF text, from, p2, p3, p4
<1>5. Having(2) = {p2} /\ Having(3) = {p3}
  BY <1>1, <1>2, <1>3 DEF NoneOfIts
<1> HIDE DEF Having
<1>6. (CHOOSE field \in {p2} : TRUE) = p2 /\ (CHOOSE field \in {p3} : TRUE) = p3
  OBVIOUS
<1>7. ReadParam(text, 2) = b
  BY <1>3, <1>4, <1>5, <1>6
<1>8. ReadParam(text, 3) = c
  BY <1>3, <1>4, <1>5, <1>6
<1> QED  BY <1>7, <1>8 DEF text

-----------------------------------------------------------------------------
(* The URL is taken apart as it is meant (ParseUrl, ParseHostPort).         *)
HostName == Seq(Nat \ {Colon, Slash})

LEMMA HostIs ==
  ASSUME NEW host \in HostName
  PROVE  host \in Text /\ Without(host, Colon) /\ Without(host, Slash)
<1>1. host \in Text /\ Len(host) \in Nat /\ \A i \in 1 .. Len(host) : host[i] \in Nat \ {Colon, Slash}
  BY DEF HostName, Text
<1> QED  BY <1>1 DEF Without, Size

LEMMA DecimalIsDigits ==
  ASSUME NEW n \in Nat
  PROVE  /\ Decimal[n] \in Text /\ Without(Decimal[n], Colon) /\ Without(Decimal[n], Slash)
         /\ StartsWithDigit(Decimal[n])
<1>1. /\ Decimal[n] \in Text /\ Size(Decimal[n]) >= 1
      /\ \A i \in 1 .. Size(Decimal[n]) : Decimal[n][i] \in Digit
  BY DecimalType
<1>2. Colon \notin Digit /\ Slash \notin Digit
  BY DEF Colon, Slash, Digit
<1>3. Size(Decimal[n]) \in Nat
  BY <1>1, SizeIsNat, TextIs
<1>4. Decimal[n] # <<>> /\ Decimal[n][1] \in Digit
  <2>1. Size(None) = 0
    BY NoneType
  <2> QED  BY <1>1, <1>3, <2>1 DEF None
<1> QED  BY <1>1, <1>2, <1>4 DEF Without, StartsWithDigit

LEMMA HostPortIs ==
  ASSUME NEW host \in HostName, NEW n \in Nat, NEW port \in {None, One(Colon), Cat(One(Colon), Decimal[n])},
         port = None => n = 80
  PROVE  /\ Cat(host, port) \in Text /\ port \in Text /\ Without(Cat(host, port), Slash)
         /\ ParseHostPort(Cat(host, port)).ok =>
              /\ ParseHostPort(Cat(host, port)).host = host
              /\ ParseHostPort(Cat(host, port)).port = n
<1> DEFINE text == Cat(host, port)
           rest == From(text, Find(text, Colon) + 1)
           found == [ok |-> StartsWithDigit(rest), host |-> UpTo(text, Colon), port |-> stoull(rest)]
           none == [ok |-> TRUE, host |-> text, port |-> 80]
<1>1. host \in Text /\ Without(host, Colon) /\ Without(host, Slash)
  BY HostIs
<1>2. Colon \in Nat /\ Slash \in Nat /\ Colon # Slash /\ None \in Text
  BY NoneType, TextIs DEF Colon, Slash
<1>3. /\ Decimal[n] \in Text /\ Without(Decimal[n], Colon) /\ Without(Decimal[n], Slash)
      /\ StartsWithDigit(Decimal[n])
  BY DecimalIsDigits
<1>4. /\ One(Colon) \in Text /\ Cat(One(Colon), Decimal[n]) \in Text
      /\ Cat(One(Colon), None) = One(Colon)
  BY <1>2, <1>3, OneType, CatType, CatNone, TextIs
<1>5. port \in Text /\ text \in Text
  BY <1>1, <1>2, <1>4, CatType, TextIs
<1>6. Without(port, Slash)
  BY <1>2, <1>3, <1>4, WithoutOne, WithoutBoth
<1>7. Without(text, Slash)
  BY <1>1, <1>5, <1>6, WithoutBoth
<1>8. ParseHostPort(text) = IF ~Contains(text, Colon) THEN none ELSE found
  BY Zenon DEF ParseHostPort
<1>9. CASE port = None
  <2>1. text = host
    BY <1>1, <1>9, CatNone, TextIs
  <2>2. ~Contains(text, Colon)
    BY <1>1, <2>1, NotThere
  <2>3. ParseHostPort(text) = none
    BY <1>8, <2>2
  <2> QED  BY <1>5, <1>7, <1>9, <2>1, <2>3
<1>10. ASSUME NEW y \in Text, port = Cat(One(Colon), y)
       PROVE  ParseHostPort(text) =
                [ok |-> StartsWithDigit(y), host |-> host, port |-> stoull(y)]
  <2>1. Contains(text, Colon) /\ UpTo(text, Colon) = host /\ rest = y
    BY <1>1, <1>2, <1>10, FoundAt
  <2> HIDE DEF text, rest
  <2> QED  BY <1>8, <2>1
<1>11. CASE port = One(Colon)
  <2>1. ParseHostPort(text) = [ok |-> StartsWithDigit(None), host |-> host, port |-> stoull(None)]
    BY <1>2, <1>4, <1>10, <1>11
  <2>2. ~StartsWithDigit(None)
    BY DEF StartsWithDigit, None
  <2> HIDE DEF text
  <2>3. ~ParseHostPort(text).ok
    BY <2>1, <2>2
  <2> QED  BY <1>5, <1>7, <2>3 DEF text
<1>12. CASE port = Cat(One(Colon), Decimal[n])
  <2>1. ParseHostPort(text) =
          [ok |-> StartsWithDigit(Decimal[n]), host |-> host, port |-> stoull(Decimal[n])]
    BY <1>3, <1>10, <1>12
  <2>2. stoull(Decimal[n]) = n
    BY NumberIsReadBack
  <2> HIDE DEF text
  <2>3. ParseHostPort(text).host = host /\ ParseHostPort(text).port = n
    BY <2>1, <2>2
  <2> QED  BY <1>5, <1>7, <2>3 DEF text
<1> QED  BY <1>9, <1>11, <1>12

LEMMA NoQuery == OwnQuery(None) = None /\ OwnQuery(<<Slash>>) = None
<1>1. None \in Text /\ One(Slash) \in Text
  BY NoneType, OneType, TextIs DEF Slash
<1>2. Without(None, Question) /\ Without(One(Slash), Question)
  BY WithoutOne DEF Slash, Question
<1>3. ~Contains(None, Question) /\ ~Contains(One(Slash), Question)
  BY <1>1, <1>2, NotThere
<1> QED  BY <1>3 DEF OwnQuery, None, One

LEMMA UrlParts ==
  ASSUME NEW url \in Urls, url.text[1] = HttpScheme
  PROVE  \E port \in {None, One(Colon), Cat(One(Colon), Decimal[url.port])}, rest \in Text :
           /\ url.text = Cat(One(HttpScheme), Cat(url.host, Cat(port, rest)))
           /\ port = None => url.port = 80
           /\ rest # None => rest[1] = Slash
           /\ NoneNamed(rest)
<1>1. url.text \in Text /\ url.host \in Text /\ url.port \in Nat
  <2>1. url.text \in Text /\ url.host \in HostName /\ url.port \in Nat
    BY UrlsAssumption DEF HostName
  <2> QED  BY <2>1, HostIs
<1>2. PICK port \in {<<>>, <<Colon>>, <<Colon>> \o Decimal[url.port]}, n \in 1 .. Len(url.text) :
        LET rest == From(url.text, n + 1)
        IN /\ url.text = <<HttpScheme>> \o url.host \o port \o rest
           /\ port = <<>> => url.port = 80
           /\ rest # <<>> => rest[1] = Slash
           /\ \A field \in Fields[OwnQuery(rest)], name \in 1 .. 4 :
                ~IsPrefix(<<name, Equals>>, field)
  BY UrlsAssumption
<1> DEFINE rest == From(url.text, n + 1)
<1>3. /\ url.text = <<HttpScheme>> \o url.host \o port \o rest
      /\ port = <<>> => url.port = 80
      /\ rest # <<>> => rest[1] = Slash
      /\ NoneNamed(rest)
  BY <1>2, Zenon DEF NoneNamed
<1>4. rest \in Text
  <2>1. n \in Nat /\ n <= Size(url.text)
    BY <1>1, SizeIsNat, TextIs DEF Size
  <2>2. Drop(url.text, n) \in Text
    BY <1>1, <2>1, DropType, TextIs
  <2> QED  BY <2>2 DEF Drop, From
<1> HIDE DEF rest
<1>5. port \in {None, One(Colon), Cat(One(Colon), Decimal[url.port])}
  BY <1>2 DEF None, One, Cat
<1>6. One(HttpScheme) \in Text /\ port \in Text
  <2>1. Colon \in Nat /\ HttpScheme \in Nat
    BY DEF Colon, HttpScheme
  <2>2. None \in Text /\ One(Colon) \in Text /\ Decimal[url.port] \in Text /\ One(HttpScheme) \in Text
    BY <1>1, <2>1, NoneType, OneType, DecimalType, TextIs
  <2> QED  BY <1>5, <2>2, CatType, TextIs
<1>7. url.text = Cat(One(HttpScheme), Cat(url.host, Cat(port, rest)))
  <2>1. url.text = Cat(Cat(Cat(One(HttpScheme), url.host), port), rest)
    BY <1>3, Zenon DEF Cat, One
  <2>2. Cat(One(HttpScheme), url.host) \in Text /\ Cat(port, rest) \in Text
    BY <1>1, <1>4, <1>6, CatType, TextIs
  <2>3. url.text = Cat(Cat(One(HttpScheme), url.host), Cat(port, rest))
    BY <1>4, <1>6, <2>1, <2>2, CatAssociates, TextIs
  <2> QED  BY <1>1, <1>6, <2>2, <2>3, CatAssociates, TextIs
<1> QED  BY <1>3, <1>4, <1>5, <1>7, Zenon DEF None

LEMMA UrlIsParsed ==
  ASSUME NEW url \in Urls, url.text[1] = HttpScheme, ParseUrl(url.text).ok
  PROVE  /\ ParseUrl(url.text).host = url.host /\ ParseUrl(url.text).port = url.port
         /\ ParseUrl(url.text).path \in Text /\ NoneNamed(ParseUrl(url.text).path)
<1>1. url.host \in HostName /\ url.port \in Nat
  BY UrlsAssumption DEF HostName
<1>2. PICK port \in {None, One(Colon), Cat(One(Colon), Decimal[url.port])}, rest \in Text :
        /\ url.text = Cat(One(HttpScheme), Cat(url.host, Cat(port, rest)))
        /\ port = None => url.port = 80
        /\ rest # None => rest[1] = Slash
        /\ NoneNamed(rest)
  BY UrlParts
<1> DEFINE h == Cat(url.host, port)
           working == Tail(url.text)
           host_port == ParseHostPort(UpTo(working, Slash))
           path == IF Contains(working, Slash)
                   THEN From(working, Find(working, Slash)) ELSE <<Slash>>
<1>3. /\ h \in Text /\ port \in Text /\ Without(h, Slash)
      /\ ParseHostPort(h).ok => ParseHostPort(h).host = url.host /\ ParseHostPort(h).port = url.port
  BY <1>1, <1>2, HostPortIs
<1>4. ParseUrl(url.text) = [ok |-> url.text[1] = HttpScheme /\ host_port.ok,
                            host |-> host_port.host, port |-> host_port.port, path |-> path]
  BY Zenon DEF ParseUrl
<1>5. Slash \in Nat /\ HttpScheme \in Nat /\ url.host \in Text
  BY <1>1, HostIs DEF Slash, HttpScheme
<1>6. working = Cat(h, rest)
  <2> DEFINE more == Cat(url.host, Cat(port, rest))
  <2>1. Cat(port, rest) \in Text /\ more \in Text
    BY <1>3, <1>5, CatType, TextIs
  <2>2. more = Cat(h, rest)
    BY <1>3, <1>5, CatAssociates, TextIs
  <2> HIDE DEF more, h
  <2>3. Tail(Cat(One(HttpScheme), more)) = more
    <3>1. more \in Seq(Nat)
      BY <2>1 DEF Text
    <3> QED  BY <3>1 DEF Cat, One
  <2> QED  BY <1>2, <2>2, <2>3 DEF more
<1> HIDE DEF h, working
<1>7. UpTo(working, Slash) = h /\ path \in Text /\ NoneNamed(path)
  <2>1. CASE rest = None
    <3>1. working = h
      BY <1>3, <1>6, <2>1, CatNone, TextIs
    <3>2. ~Contains(working, Slash) /\ UpTo(working, Slash) = h
      BY <1>3, <3>1, NotThere
    <3>3. path = <<Slash>>
      BY <3>2
    <3>4. <<Slash>> \in Text
      BY <1>5, OneType, TextIs DEF One
    <3>5. NoneNamed(<<Slash>>)
      BY <1>2, <2>1, NoQuery DEF NoneNamed
    <3> QED  BY <3>2, <3>3, <3>4, <3>5
  <2>2. CASE rest # None
    <3>1. PICK a \in Nat, y \in Text : rest = Cat(One(a), y)
      BY <2>2, FirstOf, TextIs
    <3>2. rest[1] = a
      BY <3>1, FirstIs, TextIs
    <3>3. rest = Cat(One(Slash), y)
      BY <1>2, <2>2, <3>1, <3>2
    <3>4. /\ Contains(working, Slash) /\ UpTo(working, Slash) = h
          /\ From(working, Find(working, Slash)) = rest
      BY <1>3, <1>5, <1>6, <3>3, FoundAt
    <3> QED  BY <1>2, <3>4
  <2> QED  BY <2>1, <2>2
<1> HIDE DEF path
<1>8. /\ host_port.ok
      /\ ParseUrl(url.text).host = host_port.host
      /\ ParseUrl(url.text).port = host_port.port
      /\ ParseUrl(url.text).path = path
  <2> DEFINE ok == url.text[1] = HttpScheme /\ host_port.ok
  <2>1. ParseUrl(url.text) = [ok |-> ok, host |-> host_port.host, port |-> host_port.port,
                              path |-> path]
    BY <1>4, Zenon
  <2> HIDE DEF ok, host_port
  <2>2. /\ ParseUrl(url.text).ok = ok
        /\ ParseUrl(url.text).host = host_port.host
        /\ ParseUrl(url.text).port = host_port.port
        /\ ParseUrl(url.text).path = path
    BY <2>1
  <2>3. ok
    BY <2>2, Zenon
  <2> QED  BY <2>2, <2>3, Zenon DEF ok
<1>9. host_port = ParseHostPort(h)
  BY <1>7
<1> QED  BY <1>3, <1>7, <1>8, <1>9

-----------------------------------------------------------------------------
(* What of a torrent counts for the request, although other dictionaries in *)
(* the file may have written it.                                            *)
AnnounceOf(announce, d) ==
  \/ announce = None
  \/ \E e \in Written(d, AnnounceKey) : e \in AllDocuments /\ announce = ValueOf(e)

LoadedFor(t, d) == t.loaded /\ t.length \in Nat /\ AnnounceOf(t.announce, d)

RequestFor(t) ==
  LET url == ParseUrl(t.announce)
  IN [kind |-> "http", host |-> url.host, port |-> url.port,
      path |-> url.path \o <<Question>>
                 \o BuildQuery(<<<<1, <<49>>>>, <<2, t.info_hash>>, <<3, Decimal[t.length]>>,
                                 <<4, PeerId>>>>)]

AskedFor(t, r) ==
  /\ t.announce # None /\ ~IsUdpTracker(t.announce) /\ ParseUrl(t.announce).ok
  /\ r = RequestFor(t)

AskedInv ==
  /\ LoadedInv
  /\ at \notin {"load", "no_torrent"} => LoadedFor(torrent, document)
  /\ at \in Asking => AskedFor(torrent, request)

LEMMA LoadedIsFor ==
  ASSUME NEW d \in Torrents
  PROVE  LoadedFor(TorrentOf(Encode[d], ParseString(Encode[d])), d)
<1> DEFINE b == Encode[d]
           state == ParseString(b)
           log == LogOf(d)
           t == TorrentOf(b, state)
           digits == Lookup(log, LengthKey, Zero)
<1>1. d \in AllDocuments
  BY TorrentsAssumption
<1>2. state.info_dict = log
  <2>1. b = Cat(b, None) /\ None \in Text
    BY <1>1, EncodeType, CatNone, NoneType, TextIs
  <2> QED  BY <1>1, <2>1, AnyIsRead
<1> HIDE DEF b, state, log
<1>3. /\ t.loaded = TRUE /\ t.announce = Lookup(log, AnnounceKey, <<>>)
      /\ t.length = stoull(digits)
  BY <1>2 DEF TorrentOf
<1>4. AnnounceOf(t.announce, d)
  <2>1. AnnounceKey \in Nat
    BY DEF AnnounceKey
  <2>2. CASE Written(d, AnnounceKey) = {}
    BY <1>1, <1>3, <2>1, <2>2, FieldIsRead DEF AnnounceOf, None, log
  <2>3. CASE Written(d, AnnounceKey) # {}
    BY <1>1, <1>3, <2>1, <2>3, FieldIsWritten DEF AnnounceOf, log
  <2> QED  BY <2>2, <2>3
<1>5. digits \in Text
  <2>1. LengthKey \in Nat
    BY DEF LengthKey
  <2>2. CASE Written(d, LengthKey) = {}
    <3>1. digits = Zero
      BY <1>1, <2>1, <2>2, FieldIsRead DEF log
    <3>2. One(48) \in Text
      BY OneType, TextIs
    <3> QED  BY <3>1, <3>2 DEF Zero, One
  <2>3. CASE Written(d, LengthKey) # {}
    <3>1. PICK e \in Written(d, LengthKey) : e \in AllDocuments /\ digits = ValueOf(e)
      BY <1>1, <2>1, <2>3, FieldIsWritten DEF log
    <3>2. Readable(e)
      BY <3>1, DocumentIsReadBack
    <3> QED  BY <3>1, <3>2, ReadableIs
  <2> QED  BY <2>2, <2>3
<1> HIDE DEF t, digits
<1>6. t.length \in Nat
  BY <1>3, <1>5, NumberIsNat
<1>7. LoadedFor(t, d)
  BY <1>3, <1>4, <1>6, Zenon DEF LoadedFor
<1> QED  BY <1>7 DEF t, state, b

LEMMA AskedInit == Init => AskedInv
<1> SUFFICES ASSUME Init PROVE AskedInv
  OBVIOUS
<1>1. LoadedInv
  BY LoadedInit
<1>2. at = "load"
  BY DEF Init
<1> QED  BY <1>1, <1>2 DEF AskedInv, Asking

(* A step that leaves the torrent alone, and the request of an announce.    *)
LEMMA AskedAlone ==
  ASSUME AskedInv, LoadedInv', UNCHANGED <<document, torrent>>,
         at \notin {"load", "no_torrent"},
         at' \in Asking => at \in Asking /\ request' = request
  PROVE  AskedInv'
BY DEF AskedInv

LEMMA AskedStep == AskedInv /\ [Next]_vars => AskedInv'
<1> SUFFICES ASSUME AskedInv, [Next]_vars PROVE AskedInv'
  OBVIOUS
<1>1. LoadedInv /\ LoadedInv'
  BY LoadedStep DEF AskedInv
<1>2. CASE Load
  <2> DEFINE state == ParseString(file)
  <2>1. document' = document /\ document \in Torrents /\ file \in Prefixes(Encode[document])
    BY <1>1, <1>2 DEF Load, LoadedInv
  <2>2. CASE CanLoad(state)
    <3>1. at' = "idle" /\ torrent' = TorrentOf(file, state)
      BY <1>2, <2>2, Zenon DEF Load
    <3>2. file = Encode[document]
      BY <2>1, <2>2, LoadIsRight
    <3>3. LoadedFor(torrent', document)
      BY <2>1, <3>1, <3>2, LoadedIsFor
    <3> QED  BY <1>1, <2>1, <3>1, <3>3 DEF AskedInv, Asking
  <2>3. CASE ~CanLoad(state)
    <3>1. at' = "no_torrent"
      BY <1>2, <2>3, Zenon DEF Load
    <3> QED  BY <1>1, <3>1 DEF AskedInv, Asking
  <2> QED  BY <2>2, <2>3
<1>3. CASE Announce
  <2>1. /\ at = "idle" /\ torrent.announce # <<>> /\ torrent' = torrent /\ document' = document
        /\ at' \in {"idle", "udp", "resolve"}
    BY <1>3, Zenon DEF Announce
  <2>2. LoadedFor(torrent', document')
    BY <2>1 DEF AskedInv
  <2>3. ASSUME at' = "resolve" PROVE AskedFor(torrent', request')
    <3>1. CanAsk /\ ~IsUdpTracker(torrent.announce) /\ request' = HttpRequest
      <4>1. "idle" # "resolve" /\ "udp" # "resolve"
        OBVIOUS
      <4> QED  BY <1>3, <2>3, <4>1, Zenon DEF Announce
    <3>2. ParseUrl(torrent.announce).ok
      BY <3>1, Zenon DEF CanAsk
    <3>3. HttpRequest = RequestFor(torrent)
      BY Zenon DEF HttpRequest, RequestFor, Params
    <3>4. AskedFor(torrent, request')
      BY <2>1, <3>1, <3>2, <3>3, Zenon DEF AskedFor, None
    <3> QED  BY <2>1, <3>4
  <2> QED  BY <1>1, <2>1, <2>2, <2>3 DEF AskedInv, Asking
<1>4. CASE Get
  <2>1. CASE Resolve
    BY <1>1, <2>1, AskedAlone DEF Resolve, Proceed, Asking
  <2>2. CASE OpenSocket
    BY <1>1, <2>2, AskedAlone DEF OpenSocket, Proceed, Asking
  <2>3. CASE Connect
    BY <1>1, <2>3, AskedAlone DEF Connect, Proceed, Asking
  <2>4. CASE CallFails
    BY <1>1, <2>4, AskedAlone DEF CallFails, Proceed, Asking
  <2>5. CASE SendIsLost
    BY <1>1, <2>5, AskedAlone DEF SendIsLost, Proceed, Asking
  <2>6. CASE SendToClosed
    BY <1>1, <2>6, AskedAlone DEF SendToClosed, Proceed, Asking
  <2>7. CASE RecvEnds
    BY <1>1, <2>7, AskedAlone DEF RecvEnds, Proceed, Asking
  <2>8. CASE RecvTimesOut
    BY <1>1, <2>8, AskedAlone DEF RecvTimesOut, Proceed, Asking
  <2>9. CASE RecvSome
    BY <1>1, <2>9, AskedAlone DEF RecvSome, Asking
  <2>10. CASE RecvSurplus
    BY <1>1, <2>10, AskedAlone DEF RecvSurplus, Asking
  <2> QED  BY <1>4, <2>1, <2>2, <2>3, <2>4, <2>5, <2>6, <2>7, <2>8, <2>9, <2>10 DEF Get
<1>5. CASE Parse
  BY <1>1, <1>5, AskedAlone DEF Parse, Asking
<1>6. CASE \E a \in Answers \cup {Refusal} : TrackerAnswers(a)
  BY <1>1, <1>6, AskedAlone DEF TrackerAnswers, Asking
<1>7. ASSUME UNCHANGED <<document, torrent, at, request>> PROVE AskedInv'
  BY <1>1, <1>7 DEF AskedInv
<1>8. CASE TrackerPauses \/ ServerCloses
  BY <1>7, <1>8 DEF TrackerPauses, ServerCloses
<1>9. CASE UNCHANGED vars
  BY <1>7, <1>9 DEF vars
<1> QED  BY <1>2, <1>3, <1>4, <1>5, <1>6, <1>8, <1>9 DEF Next

(* An announce that is asked over HTTP is the text of a URL.                *)
LEMMA AnnounceIsUrl ==
  ASSUME NEW d \in Torrents, NEW t, LoadedFor(t, d), NEW r, AskedFor(t, r)
  PROVE  \E url \in Urls : t.announce = url.text /\ url.text[1] = HttpScheme
<1>1. t.announce[1] = HttpScheme
  <2> DEFINE ok == t.announce[1] = HttpScheme
                     /\ ParseHostPort(UpTo(Tail(t.announce), Slash)).ok
             working == Tail(t.announce)
             host_port == ParseHostPort(UpTo(working, Slash))
             path == IF Contains(working, Slash)
                     THEN From(working, Find(working, Slash)) ELSE <<Slash>>
  <2>1. ParseUrl(t.announce) = [ok |-> ok, host |-> host_port.host, port |-> host_port.port,
                                path |-> path]
    BY Zenon DEF ParseUrl
  <2> HIDE DEF ok, host_port, path
  <2>2. ParseUrl(t.announce).ok = ok
    BY <2>1
  <2>3. ok
    BY <2>2, Zenon DEF AskedFor
  <2> QED  BY <2>3, Zenon DEF ok
<1>2. PICK e \in Written(d, AnnounceKey) : e \in AllDocuments /\ t.announce = ValueOf(e)
  BY DEF LoadedFor, AnnounceOf, AskedFor
<1>3. CASE \E n \in Nat : e = Number(n)
  <2>1. PICK n \in Nat : e = Number(n)
    BY <1>3
  <2>2. t.announce = Decimal[n]
    BY <1>2, <2>1, ValuesAre
  <2>3. StartsWithDigit(Decimal[n])
    BY DecimalIsDigits
  <2> QED  BY <1>1, <2>2, <2>3 DEF StartsWithDigit, Digit, HttpScheme
<1>4. CASE \E b \in Text : e = String(b)
  <2>1. PICK b \in Text : e = String(b)
    BY <1>4
  <2>2. Kind(e) = "string" /\ Content(e) = b /\ t.announce = b
    BY <1>2, <2>1, ValuesAre, KindsAre
  <2>3. b # <<>>
    BY <2>2, Zenon DEF AskedFor, None
  <2>4. \E url \in Urls : b = url.text
    BY <1>1, <1>2, <2>2, <2>3, AnnounceAssumption
  <2> QED  BY <1>1, <2>2, <2>4
<1>5. CASE \E s : e = ListOf(s) \/ e = Dictionary(s)
  <2>1. t.announce = None
    BY <1>2, <1>5, ValuesAre
  <2> QED  BY <2>1 DEF AskedFor
<1> QED  BY <1>2, <1>3, <1>4, <1>5, DocumentIs

LEMMA RequestIsRight ==
  ASSUME NEW d \in Torrents, NEW t, LoadedFor(t, d), NEW r, AskedFor(t, r),
         t.info_hash \in Text
  PROVE  /\ [text |-> t.announce, host |-> r.host, port |-> r.port] \in Urls
         /\ ReadParam(r.path, 2) = t.info_hash
         /\ ReadParam(r.path, 3) = Decimal[t.length]
<1>1. PICK url \in Urls : t.announce = url.text /\ url.text[1] = HttpScheme
  BY AnnounceIsUrl
<1> DEFINE parsed == ParseUrl(t.announce)
           one == <<49>>
           digits == Decimal[t.length]
           query == BuildQuery(<<<<1, one>>, <<2, t.info_hash>>, <<3, digits>>, <<4, PeerId>>>>)
<1>2. parsed.host = url.host /\ parsed.port = url.port /\ parsed.path \in Text /\ NoneNamed(parsed.path)
  BY <1>1, UrlIsParsed DEF AskedFor
<1>3. r = [kind |-> "http", host |-> parsed.host, port |-> parsed.port,
           path |-> parsed.path \o <<Question>> \o query]
  BY Zenon DEF AskedFor, RequestFor
<1>4. one \in Text /\ digits \in Text /\ PeerId \in Text
  <2>1. t.length \in Nat
    BY DEF LoadedFor
  <2>2. One(49) \in Text
    BY OneType, TextIs
  <2> QED  BY <2>1, <2>2, DecimalType, HttpAssumption DEF One
<1>5. query = Query(one, t.info_hash, digits, PeerId)
  <2> HIDE DEF one, digits
  <2> QED  BY <1>4, QueryIs
<1>6. r.host = url.host /\ r.port = url.port /\ r.path = parsed.path \o <<Question>> \o query
  <2> HIDE DEF parsed, query
  <2> QED  BY <1>2, <1>3
<1>7. Query(one, t.info_hash, digits, PeerId) \in Text
  <2> HIDE DEF one, digits
  <2>1. /\ Parameter(1, one) \in Text /\ Parameter(2, t.info_hash) \in Text
        /\ Parameter(3, digits) \in Text /\ Parameter(4, PeerId) \in Text
    BY <1>4, ParameterIs
  <2> QED  BY <2>1, AndType DEF Query
<1>8. r.path = Asked(parsed.path, Query(one, t.info_hash, digits, PeerId))
  <2> DEFINE q == Query(one, t.info_hash, digits, PeerId)
             p == parsed.path
  <2>1. p \in Text /\ q \in Text /\ One(Question) \in Text
    BY <1>2, <1>7, OneType, TextIs DEF Question
  <2>2. r.path = p \o <<Question>> \o q
    BY <1>5, <1>6, Zenon
  <2> HIDE DEF p, q
  <2>3. r.path = Cat(Cat(p, One(Question)), q)
    BY <2>2, Zenon DEF Cat, One
  <2>4. r.path = Cat(p, Cat(One(Question), q))
    BY <2>1, <2>3, CatAssociates, TextIs
  <2> QED  BY <2>4 DEF Asked, p, q
<1>9. ReadParam(r.path, 2) = t.info_hash /\ ReadParam(r.path, 3) = digits
  <2> HIDE DEF one, digits, parsed
  <2> QED  BY <1>2, <1>4, <1>8, ParametersAreRead
<1>10. [text |-> t.announce, host |-> r.host, port |-> r.port] = url
  <2>1. url \in [text : Text \ {<<>>}, host : Seq(Nat \ {Colon, Slash}), port : Nat]
    BY UrlsAssumption
  <2>2. url = [text |-> url.text, host |-> url.host, port |-> url.port]
    BY <2>1
  <2> QED  BY <1>1, <1>6, <2>2
<1> QED  BY <1>9, <1>10

LEMMA AskedIsAsWritten == AskedInv => TrackerIsAskedAsWritten
<1> SUFFICES ASSUME AskedInv, at = "send" PROVE
       /\ \A announce \in OnlyOne(AnnounceKey, "string") :
            [text |-> Content(announce), host |-> request.host, port |-> request.port] \in Urls
       /\ ReadParam(request.path, 2) = StandardHash(InfoSection)
       /\ \A length \in OnlyOne(LengthKey, "number") :
            ReadParam(request.path, 3) = Decimal[Content(length)]
  BY DEF TrackerIsAskedAsWritten
<1>1. document \in Torrents /\ LoadedFor(torrent, document) /\ AskedFor(torrent, request)
  BY DEF AskedInv, LoadedInv, Asking
<1>2. TorrentGood(torrent, document)
  BY <1>1 DEF AskedInv, LoadedInv, LoadedFor
<1>3. /\ torrent.info_hash = StandardHash(InfoSection)
      /\ FieldGood(torrent.announce, document, AnnounceKey, "string", <<>>)
      /\ FieldGood(torrent.length, document, LengthKey, "number", 0)
  BY <1>2 DEF TorrentGood, InfoSection
<1>4. torrent.info_hash \in Text
  <2>1. StandardHash(InfoSection) \in Seq(Byte)
    BY <1>1, AnnounceAssumption DEF InfoSection
  <2>2. StandardHash(InfoSection) \in Strings(Byte) /\ Byte \subseteq Nat
    BY <2>1 DEF Strings, Byte
  <2>3. torrent.info_hash \in Strings(Nat)
    BY <1>3, <2>2, SubStrings
  <2> QED  BY <2>3, TextIs
<1>5. /\ [text |-> torrent.announce, host |-> request.host, port |-> request.port] \in Urls
      /\ ReadParam(request.path, 2) = torrent.info_hash
      /\ ReadParam(request.path, 3) = Decimal[torrent.length]
  BY <1>1, <1>4, RequestIsRight
<1>6. \A announce \in OnlyOne(AnnounceKey, "string") : torrent.announce = Content(announce)
  BY <1>3 DEF FieldGood, OnlyOne
<1>7. \A length \in OnlyOne(LengthKey, "number") : torrent.length = Content(length)
  BY <1>3 DEF FieldGood, OnlyOne
<1> QED  BY <1>3, <1>5, <1>6, <1>7

(* Whatever the torrent file holds that names an HTTP tracker by a URL with *)
(* or without a port, a path and a query of its own: the tracker it names   *)
(* is asked, and reads the info hash and the length of the file back out of *)
(* the request (TorrentFile::Load, ParseUrl, BuildQuery, UrlEncode).        *)
THEOREM TrackersAreAskedAsWritten == Spec => []TrackerIsAskedAsWritten
<1>1. Init => AskedInv
  BY AskedInit
<1>2. AskedInv /\ [Next]_vars => AskedInv'
  BY AskedStep
<1>3. AskedInv => TrackerIsAskedAsWritten
  BY AskedIsAsWritten
<1> QED  BY <1>1, <1>2, <1>3, PTL DEF Spec

=============================================================================
