----------------------------- MODULE UdpServer -----------------------------
(***************************************************************************)
(* The UdpServer object of mccurtaind: Start and Stop, called by the main  *)
(* thread, and the thread that runs UdpServer::Run over one socket per     *)
(* configured UDP address.  What a datagram asks and how it is answered is *)
(* in OriginClient; here a datagram is counted.  Unlike DnsServer's, the   *)
(* sockets are opened and closed by the main thread.                       *)
(***************************************************************************)
EXTENDS Naturals

CONSTANTS Addrs,     \* ServiceConfig::UdpAddresses
          UdpLimit   \* datagrams a socket's receive buffer holds

VARIABLES
    udpCall,    \* how far the main thread's calls of Start and Stop are
    udpRun,     \* _shouldRun
    udpPipe,    \* _stopfds: "none", "open" or "closed"
    udpByte,    \* the stop byte is in the pipe
    udpThread,  \* where Run() is
    udpSocks,   \* the addresses with an open socket in _binfds
    udpQueue,   \* datagrams waiting in each socket
    udpReady    \* the descriptors of the last select still to be served

udpVars == <<udpCall, udpRun, udpPipe, udpByte, udpThread, udpSocks, udpQueue, udpReady>>

UdpLive == {"check", "select", "serve"}

UdpTypeOK ==
    /\ udpCall \in {"new", "started", "crashed", "stopping", "stopped"}
    /\ udpRun \in BOOLEAN
    /\ udpPipe \in {"none", "open", "closed"}
    /\ udpByte \in BOOLEAN
    /\ udpThread \in UdpLive \cup {"none", "done", "joined"}
    /\ udpSocks \subseteq Addrs
    /\ udpQueue \in [Addrs -> 0 .. UdpLimit]
    /\ udpReady \subseteq Addrs

UdpInit ==
    /\ udpCall = "new"
    /\ udpRun = FALSE
    /\ udpPipe = "none"
    /\ udpByte = FALSE
    /\ udpThread = "none"
    /\ udpSocks = {}
    /\ udpQueue = [a \in Addrs |-> 0]
    /\ udpReady = {}

-----------------------------------------------------------------------------
(* Called by the main thread.                                              *)

(* Start.  It fails without a pipe, or when a socket cannot be opened or   *)
(* bound (all are closed again, the pipe stays).  OpenSockets also reads   *)
(* the address set of a Config temporary that is gone: what it finds there *)
(* may be the addresses, or take the process down.                         *)
UdpStart ==
    /\ udpCall = "new"
    /\ \/ /\ udpCall' = "started"
          /\ udpPipe' = "open"
          /\ udpSocks' = Addrs
          /\ udpRun' = TRUE
          /\ udpThread' = "check"
       \/ /\ udpCall' = "started"
          /\ udpPipe' \in {"none", "open"}
          /\ UNCHANGED <<udpSocks, udpRun, udpThread>>
       \/ /\ udpCall' = "crashed"
          /\ udpPipe' = "open"
          /\ UNCHANGED <<udpSocks, udpRun, udpThread>>
    /\ UNCHANGED <<udpByte, udpQueue, udpReady>>

\* Mutant: Stop only clears _shouldRun, without the byte that ends select.
UdpStopRequest_NoByte ==
    /\ udpCall = "started"
    /\ udpCall' = "stopping"
    /\ udpRun' = FALSE
    /\ UNCHANGED <<udpPipe, udpByte, udpThread, udpSocks, udpQueue, udpReady>>

UdpStopRequest ==
    /\ udpCall = "started"
    /\ udpCall' = "stopping"
    /\ udpRun' = FALSE
    /\ udpByte' = (udpPipe = "open")
    /\ UNCHANGED <<udpPipe, udpThread, udpSocks, udpQueue, udpReady>>

\* Mutant: the sockets are closed before the join.
UdpStopJoin_CloseFirst ==
    /\ udpCall = "stopping"
    /\ udpSocks # {} \/ udpThread \in {"none", "done"}
    /\ IF udpSocks # {}
       THEN udpSocks' = {} /\ UNCHANGED <<udpCall, udpThread>>
       ELSE /\ udpCall' = "stopped"
            /\ udpThread' = IF udpThread = "none" THEN "none" ELSE "joined"
            /\ UNCHANGED udpSocks
    /\ UNCHANGED <<udpRun, udpPipe, udpByte, udpQueue, udpReady>>

UdpStopJoin ==
    /\ udpCall = "stopping"
    /\ udpCall' = "stopped"
    /\ \/ /\ udpThread = "done"
          /\ udpThread' = "joined"
          /\ udpPipe' = "closed"
          /\ udpByte' = FALSE
          /\ udpSocks' = {}
          /\ udpQueue' = [a \in Addrs |-> 0]
       \/ /\ udpThread = "none"
          /\ UNCHANGED <<udpThread, udpPipe, udpByte, udpSocks, udpQueue>>
    /\ UNCHANGED <<udpRun, udpReady>>

-----------------------------------------------------------------------------
(* UdpServer::Run.                                                         *)

UdpLoop ==
    /\ udpThread = "check"
    /\ udpThread' = IF udpRun THEN "select" ELSE "done"
    /\ UNCHANGED <<udpCall, udpRun, udpPipe, udpByte, udpSocks, udpQueue, udpReady>>

(* The stop byte is looked at before any socket. *)
UdpSelect ==
    /\ udpThread = "select"
    /\ \/ /\ udpByte
          /\ udpThread' = "done"
          /\ UNCHANGED udpReady
       \/ /\ ~udpByte
          /\ \E a \in udpSocks : udpQueue[a] > 0
          /\ udpReady' = {a \in udpSocks : udpQueue[a] > 0}
          /\ udpThread' = "serve"
    /\ UNCHANGED <<udpCall, udpRun, udpPipe, udpByte, udpSocks, udpQueue>>

(* A signal interrupts select.  The descriptor sets are as they were       *)
(* filled, the stop pipe's bit included, and the loop ends.                *)
UdpSelectInterrupted ==
    /\ udpThread = "select"
    /\ udpThread' = "done"
    /\ UNCHANGED <<udpCall, udpRun, udpPipe, udpByte, udpSocks, udpQueue, udpReady>>

(* RespondBinary: one datagram from one ready socket, answered or not. *)
UdpRespond(a) ==
    /\ udpThread = "serve"
    /\ a \in udpReady
    /\ udpQueue[a] > 0
    /\ udpQueue' = [udpQueue EXCEPT ![a] = @ - 1]
    /\ udpReady' = udpReady \ {a}
    /\ UNCHANGED <<udpCall, udpRun, udpPipe, udpByte, udpThread, udpSocks>>

UdpServed ==
    /\ udpThread = "serve"
    /\ udpReady = {}
    /\ udpThread' = "check"
    /\ UNCHANGED <<udpCall, udpRun, udpPipe, udpByte, udpSocks, udpQueue, udpReady>>

(* A datagram reaches a socket; a full buffer drops it. *)
UdpArrive(a) ==
    /\ a \in udpSocks
    /\ udpQueue[a] < UdpLimit
    /\ udpQueue' = [udpQueue EXCEPT ![a] = @ + 1]
    /\ UNCHANGED <<udpCall, udpRun, udpPipe, udpByte, udpThread, udpSocks, udpReady>>

UdpStep == UdpLoop \/ UdpSelect \/ UdpServed \/ \E a \in Addrs : UdpRespond(a)
=============================================================================
