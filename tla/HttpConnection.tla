--------------------------- MODULE HttpConnection ---------------------------
(***************************************************************************)
(* The text HttpConnection (net/HttpConnection.cpp) and TrackerFactory     *)
(* (tracker/TrackerFactory.cpp) make and take apart.  Text is a sequence   *)
(* of numbers: a character, or from 256 on a word of letters and digits.   *)
(***************************************************************************)
EXTENDS Documents

Slash == 47
Question == 63
Ampersand == 38
Equals == 61
Percent == 37

(* Words.                                                                   *)
HttpScheme == 270   \* http://
HttpsScheme == 271  \* https://
UdpScheme == 272    \* udp://
StatusOk == 280     \* 200 OK
StatusOther == 281
Header == 282
BlankLine == 283    \* the empty line that ends the headers
LineEnd == 284

Find(text, char) == SelectInSeq(text, LAMBDA c : c = char)

UpTo(text, char) == IF Contains(text, char) THEN SubSeq(text, 1, Find(text, char) - 1) ELSE text

From(text, first) == SubSeq(text, first, Len(text))

(* stoi throws without a digit to begin with; the port stays as it was when *)
(* there is no colon.                                                       *)
ParseHostPort(text) ==
  LET port == From(text, Find(text, Colon) + 1)
  IN IF ~Contains(text, Colon)
     THEN [ok |-> TRUE, host |-> text, port |-> 80]
     ELSE [ok |-> StartsWithDigit(port), host |-> UpTo(text, Colon), port |-> stoull(port)]

ParseUrl(url) ==
  LET working == Tail(url)
      host_port == ParseHostPort(UpTo(working, Slash))
  IN [ok   |-> url[1] = HttpScheme /\ host_port.ok,
      host |-> host_port.host,
      port |-> host_port.port,
      path |-> IF Contains(working, Slash) THEN From(working, Find(working, Slash)) ELSE <<Slash>>]

ParseUdpUrl(url) == ParseHostPort(UpTo(Tail(url), Slash))

IsUdpTracker(url) == url[1] = UdpScheme

-----------------------------------------------------------------------------
Unreserved ==
  (48 .. 57) \cup (65 .. 90) \cup (97 .. 122) \cup {45, 46, 95, 126} \cup (256 .. 511)

HexDigit(n) == IF n < 10 THEN 48 + n ELSE 55 + n

(* A mutant: without setw and fill, a small number has one digit.           *)
EncodeByteShort(c) ==
  IF c \in Unreserved THEN <<c>>
  ELSE IF c < 16 THEN <<Percent, HexDigit(c)>>
  ELSE <<Percent, HexDigit(c \div 16), HexDigit(c % 16)>>

EncodeByte(c) ==
  IF c \in Unreserved THEN <<c>> ELSE <<Percent, HexDigit(c \div 16), HexDigit(c % 16)>>

UrlEncode(value) == FlattenSeq([k \in DOMAIN value |-> EncodeByte(value[k])])

(* Parameters come in the order of their names.                             *)
BuildQuery(params) ==
  LET Field(k) == <<params[k][1], Equals>> \o UrlEncode(params[k][2])
  IN FlattenSeq([k \in DOMAIN params |->
                   IF k = 1 THEN Field(k) ELSE <<Ampersand>> \o Field(k)])

(* What Get makes of all it has received.                                   *)
ParseResponse(response) ==
  [ok   |-> Contains(response, BlankLine) /\ Contains(UpTo(response, BlankLine), StatusOk),
   body |-> From(response, Find(response, BlankLine) + 1)]
=============================================================================
