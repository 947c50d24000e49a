--------------------------- MODULE MessageChannel ---------------------------
(***************************************************************************)
(* What a connection promises to those who exchange messages over it: the  *)
(* messages arrive whole, in the order in which they were sent, each once. *)
(* A connection that is lost takes with it what has not arrived, and the   *)
(* next one begins with nothing.                                           *)
(***************************************************************************)
EXTENDS Naturals, Sequences

VARIABLES
  up,        \* the connection is in use
  sent,      \* the messages sent over it
  delivered  \* those that have arrived

vars == <<up, sent, delivered>>

Init == up = FALSE /\ sent = <<>> /\ delivered = <<>>

Connect == ~up /\ up' = TRUE /\ UNCHANGED <<sent, delivered>>

Send ==
  /\ up /\ UNCHANGED <<up, delivered>>
  /\ Len(sent') = Len(sent) + 1
  /\ SubSeq(sent', 1, Len(sent)) = sent

Deliver ==
  /\ up /\ UNCHANGED <<up, sent>>
  /\ Len(delivered) < Len(sent)
  /\ delivered' = Append(delivered, sent[Len(delivered) + 1])

Disconnect == up /\ up' = FALSE /\ sent' = <<>> /\ delivered' = <<>>

Next == Connect \/ Send \/ Deliver \/ Disconnect

Spec == Init /\ [][Next]_vars
=============================================================================
