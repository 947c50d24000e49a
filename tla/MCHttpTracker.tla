--------------------------- MODULE MCHttpTracker ---------------------------
(***************************************************************************)
(* HttpTracker for TLC: torrent files as trackers' sites write them and as *)
(* the parser's flat dictionary sees them differently, URLs of all forms,  *)
(* and the answers of HTTP trackers.                                       *)
(***************************************************************************)
EXTENDS HttpTracker

(* Two bytes that depend on every byte of every block.                      *)
MCDigestOf(blocks) ==
  LET mixed == FoldLeft(LAMBDA sum, byte : (31 * sum + byte + 1) % 65536, 7,
                        FlattenSeq(blocks))
  IN <<mixed \div 256, mixed % 256>>

Host == 400
Path == 401

MCUrls ==
  {[text |-> <<HttpScheme, Host, Colon, 56, 49, Slash, Path>>, host |-> <<Host>>, port |-> 81],
   [text |-> <<HttpScheme, Host, Slash, Path, Colon, Path>>, host |-> <<Host>>, port |-> 80],
   [text |-> <<HttpScheme, Host, Slash, Path, Question, 9, Equals, Path, Ampersand, Path>>,
    host |-> <<Host>>, port |-> 80],
   [text |-> <<HttpScheme, Host>>, host |-> <<Host>>, port |-> 80],
   [text |-> <<UdpScheme, Host, Colon, 57, Slash, Path>>, host |-> <<Host>>, port |-> 9],
   [text |-> <<HttpsScheme, Host, Slash>>, host |-> <<Host>>, port |-> 443],
   [text |-> <<HttpScheme, Host, Colon, Slash>>, host |-> <<Host>>, port |-> 80]}

Bytes(n) == String([k \in 1 .. n |-> 6 + k])

Named(size) ==
  <<<<LengthKey, Number(12)>>, <<NameKey, Bytes(size)>>, <<PieceLengthKey, Number(8)>>,
    <<PiecesKey, Bytes(4)>>>>

Torrent(text, before, info, after) ==
  Dictionary(<<<<AnnounceKey, String(text)>>>> \o before
               \o <<<<InfoKey, Dictionary(info)>>>> \o after)

FirstUrl == <<HttpScheme, Host, Colon, 56, 49, Slash, Path>>

UrlList == 500
Created == 501

Extra ==
  {<<>>,
   <<<<CommentKey, Bytes(2)>>, <<Created, Number(3)>>>>,
   <<<<UrlList, ListOf(<<Bytes(1), Bytes(11)>>)>>>>,
   <<<<Created, Dictionary(<<<<InfoKey, Dictionary(<<<<LengthKey, Number(7)>>>>)>>>>)>>>>}

Infos ==
  {Named(2) \o <<<<Created, Bytes(0)>>>>,
   <<<<Created, ListOf(<<Dictionary(<<<<LengthKey, Number(1)>>>>)>>)>>>> \o Named(2),
   <<<<LengthKey, Bytes(1)>>, <<PiecesKey, Bytes(5)>>>>,
   <<<<LengthKey, Number(0)>>, <<PiecesKey, Bytes(5)>>>>,
   Named(2) \o <<<<InfoKey, Number(5)>>>>}

MCTorrents ==
  {Torrent(FirstUrl, <<>>, Named(size), <<>>) : size \in 0 .. BlockSize - 1}
    \cup {Torrent(url.text, <<>>, Named(1), <<>>) : url \in MCUrls}
    \cup {Torrent(FirstUrl, before, Named(1), after) : before \in Extra, after \in Extra}
    \cup {Torrent(FirstUrl, <<>>, info, <<>>) : info \in Infos}
    \cup {Torrent(<<>>, <<>>, Named(1), <<>>)}

Interval == 502
PeersOf(size) ==
  Dictionary(<<<<Interval, Number(9)>>, <<PeersKey, Bytes(size)>>>>)

(* In chunks of 26, 13 and 209 bytes.  In hexadecimal 13 is d, and 209 d1:  *)
(* the last answer is understood, for a dictionary seems to begin at that   *)
(* d, and the 1 seems to be part of the length of its first name.           *)
Chunked ==
  {[chunk |-> <<49, 97>>, body |-> PeersOf(12)],
   [chunk |-> <<Dict>>, body |-> Dictionary(<<<<PeersKey, Bytes(6)>>>>)],
   [chunk |-> <<Dict, 49>>,
    body |-> Dictionary(<<<<PeersKey, Bytes(192)>>, <<Interval, Number(900)>>>>)]}

Plain ==
  {PeersOf(12), PeersOf(0), PeersOf(7), Refusal.body,
   Dictionary(<<<<FailureReasonKey, Bytes(0)>>, <<PeersKey, Bytes(6)>>>>),
   Dictionary(<<<<FailureReasonKey, Bytes(2)>>, <<PeersKey, Bytes(6)>>>>),
   Dictionary(<<<<PeersKey, ListOf(<<PeersOf(6)>>)>>>>)}

MCAnswers ==
  {[status |-> StatusOk, chunk |-> <<>>, body |-> body] : body \in Plain}
    \cup {[status |-> StatusOther, chunk |-> <<>>, body |-> PeersOf(6)]}
    \cup {[status |-> StatusOk, chunk |-> a.chunk, body |-> a.body] : a \in Chunked}

MCSurplus == {Dict, Colon}

MCPeerId == <<45, 0, 38>>
=============================================================================
