-------------------------- MODULE MCTcpConnection --------------------------
(***************************************************************************)
(* TcpConnection for TLC: a peer that sends keep-alives, short messages    *)
(* and lengths no message may have.                                        *)
(***************************************************************************)
EXTENDS TcpConnection

MCPeerMessages == {KeepAlive, InitMessage(kHave, <<>>),
                   [id |-> kPiece, message_length |-> 101, payload |-> <<>>]}

MCRequests == {InitMessage(kRequest, <<>>)}
=============================================================================
