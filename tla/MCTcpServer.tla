---------------------------- MODULE MCTcpServer ----------------------------
(* Three connections to one acceptor, one of them from an address that is  *)
(* not allowed.                                                            *)
EXTENDS TcpServer

CONSTANTS c1, c2, c3, v4

MCConns == {c1, c2, c3}
MCAllowed == {c1, c2}
MCAcceptors == {v4}
MCEndpoint == [c \in MCConns |-> v4]
=============================================================================
