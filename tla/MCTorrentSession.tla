-------------------------- MODULE MCTorrentSession --------------------------
(* A list with a duplicate of the announce URL, one of its own and a line   *)
(* that is no tracker.                                                      *)
EXTENDS TorrentSession, TLC

CONSTANTS a, b, c

MCConfigLines == <<b, a, NoUrl, c, b>>
MCTrackerUrls == {a, b, c}
=============================================================================
