------------------------------ MODULE MCDaemon ------------------------------
(* One connection to one of two acceptors beside the DNS thread and a UDP  *)
(* thread with two sockets.                                                *)
EXTENDS Daemon

CONSTANTS c1, v4, v6

MCConns == {c1}
MCAllowed == {c1}
MCAcceptors == {v4, v6}
MCEndpoint == [c \in MCConns |-> v4]
MCAddrs == {v4, v6}
=============================================================================
