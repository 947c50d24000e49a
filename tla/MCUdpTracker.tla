---------------------------- MODULE MCUdpTracker ----------------------------
(* Two trackers, one of them with two addresses.                            *)
EXTENDS UdpTracker, TLC

CONSTANTS t1, t2, a1, a2, a3

MCTrackers == {t1, t2}
MCAddresses == {a1, a2, a3}
MCOwner == a1 :> t1 @@ a2 :> t1 @@ a3 :> t2
=============================================================================
