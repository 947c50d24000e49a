----------------------------- MODULE Documents -----------------------------
(***************************************************************************)
(* Bencoded documents as those who write them mean them: a document is a   *)
(* pair, of its kind and of                                                *)
(*    number      its decimal digits                                       *)
(*    string      its bytes                                                *)
(*    list        its documents                                            *)
(*    dictionary  its entries, pairs of a name and a document              *)
(***************************************************************************)
EXTENDS Bencode

CONSTANT MaxDepth  \* of a document that is nested

ASSUME DocumentsAssumption == MaxDepth \in Nat \ {0}

String(bytes) == <<"string", bytes>>
Number(n) == <<"number", n>>
ListOf(documents) == <<"list", documents>>
Dictionary(entries) == <<"dictionary", entries>>

(* Documents of any depth, and those the rest is about.                     *)
DocumentsOf[depth \in Nat] ==
  ({"number"} \X Nat) \cup ({"string"} \X Text)
    \cup IF depth = 0 THEN {}
         ELSE ({"list"} \X Seq(DocumentsOf[depth - 1]))
                \cup ({"dictionary"} \X Seq(Nat \X DocumentsOf[depth - 1]))

AllDocuments == DocumentsOf[MaxDepth]

Kind(document) == document[1]
Content(document) == document[2]

(* The decimal digits of a number, as characters.                           *)
Decimal[n \in Nat] ==
  IF n < 10 THEN <<48 + n>> ELSE Append(Decimal[n \div 10], 48 + (n % 10))

EncodeString(bytes) == Decimal[Len(bytes)] \o <<Colon>> \o bytes

(* The text of a document, given those of the documents in it.              *)
EncodeBody(encode, document) ==
  LET content == Content(document)
  IN CASE Kind(document) = "number" -> <<Integer>> \o Decimal[content] \o <<End>>
       [] Kind(document) = "string" -> EncodeString(content)
       [] Kind(document) = "list" ->
            <<List>> \o FlattenSeq([k \in DOMAIN content |-> encode[content[k]]]) \o <<End>>
       [] Kind(document) = "dictionary" ->
            <<Dict>>
              \o FlattenSeq([k \in DOMAIN content |->
                               EncodeString(<<content[k][1]>>) \o encode[content[k][2]]])
              \o <<End>>

Encode[document \in AllDocuments] == EncodeBody(Encode, document)

Names(dictionary) == [k \in DOMAIN Content(dictionary) |-> Content(dictionary)[k][1]]

Has(dictionary, name) == Contains(Names(dictionary), name)

Entry(dictionary, name) ==
  Content(dictionary)[SelectInSeq(Names(dictionary), LAMBDA n : n = name)][2]

(* Every entry of the dictionaries in a document, given those in the        *)
(* documents in it.                                                         *)
EntriesBody(entries, document) ==
  LET content == Content(document)
  IN CASE Kind(document) = "list" -> UNION {entries[content[k]] : k \in DOMAIN content}
       [] Kind(document) = "dictionary" ->
            Range(content) \cup UNION {entries[content[k][2]] : k \in DOMAIN content}
       [] OTHER -> {}

AllEntries[document \in AllDocuments] == EntriesBody(AllEntries, document)

(* What is written for a name, in all dictionaries together.                *)
Written(document, name) ==
  {entry[2] : entry \in {e \in AllEntries[document] : e[1] = name}}

-----------------------------------------------------------------------------
(* What the SHA-1 standard says of padding: a one bit, zeros, and the       *)
(* length in bits as eight bytes, up to the end of the first block there is *)
(* room in.  The bytes are the digits to the base of 256, of which the last *)
(* is the rest of dividing the number, and so on with what that leaves.     *)
FourDigits(number) ==
  LET a == number \div 256
      b == a \div 256
      c == b \div 256
  IN <<c % 256, b % 256, a % 256, number % 256>>

EightDigits(number) ==
  LET a == number \div 256
      b == a \div 256
      c == b \div 256
      d == c \div 256
  IN FourDigits(d) \o FourDigits(number)

StandardBlocks(data) ==
  LET blocks == (Len(data) + 9 + BlockSize - 1) \div BlockSize
      zeros == blocks * BlockSize - Len(data) - 9
      padded == data \o <<128>> \o [k \in 1 .. zeros |-> 0] \o EightDigits(8 * Len(data))
  IN [b \in 1 .. blocks |-> SubSeq(padded, (b - 1) * BlockSize + 1, b * BlockSize)]

StandardHash(data) == DigestOf(StandardBlocks(data))
=============================================================================
