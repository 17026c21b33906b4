----------------------------- MODULE DnsServer -----------------------------
(***************************************************************************)
(* The DnsServer object of mccurtaind: Start and Stop, called by the main  *)
(* thread, and the thread that runs DnsServer::Run, woken through a pipe.  *)
(* A datagram is only counted: what the answer holds is left to the lookup *)
(* modules.  Daemon composes this module with the main thread.             *)
(***************************************************************************)
EXTENDS Naturals

CONSTANT DnsLimit   \* datagrams the socket's receive buffer holds

VARIABLES
    dnsCall,    \* how far the main thread's calls of Start and Stop are
    dnsRun,     \* _shouldRun
    dnsPipe,    \* _stopfds: "none", "open" or "closed"
    dnsByte,    \* the stop byte is in the pipe
    dnsThread,  \* where Run() is
    dnsSock,    \* _v4fd is a bound socket
    dnsQueue,   \* datagrams waiting in it
    dnsReady    \* what the last select found ready

dnsVars == <<dnsCall, dnsRun, dnsPipe, dnsByte, dnsThread, dnsSock, dnsQueue, dnsReady>>

(* "none" and "joined" are not joinable. *)
DnsLive == {"open", "check", "select", "dispatch", "close"}

DnsTypeOK ==
    /\ dnsCall \in {"new", "started", "stopping", "stopped"}
    /\ dnsRun \in BOOLEAN
    /\ dnsPipe \in {"none", "open", "closed"}
    /\ dnsByte \in BOOLEAN
    /\ dnsThread \in DnsLive \cup {"none", "done", "joined"}
    /\ dnsSock \in BOOLEAN
    /\ dnsQueue \in 0 .. DnsLimit
    /\ dnsReady \subseteq {"sock", "stop"}

DnsInit ==
    /\ dnsCall = "new"
    /\ dnsRun = FALSE
    /\ dnsPipe = "none"
    /\ dnsByte = FALSE
    /\ dnsThread = "none"
    /\ dnsSock = FALSE
    /\ dnsQueue = 0
    /\ dnsReady = {}

-----------------------------------------------------------------------------
(* Called by the main thread.                                              *)

(* Start: without a pipe there is no thread, and the caller ignores that.  *)
DnsStart ==
    /\ dnsCall = "new"
    /\ dnsCall' = "started"
    /\ dnsRun' = TRUE
    /\ \/ dnsPipe' = "open" /\ dnsThread' = "open"
       \/ UNCHANGED <<dnsPipe, dnsThread>>
    /\ UNCHANGED <<dnsByte, dnsSock, dnsQueue, dnsReady>>

(* Stop up to its join; without a pipe the write fails and nobody looks.   *)
DnsStopRequest ==
    /\ dnsCall = "started"
    /\ dnsCall' = "stopping"
    /\ dnsRun' = FALSE
    /\ dnsByte' = (dnsPipe = "open")
    /\ UNCHANGED <<dnsPipe, dnsThread, dnsSock, dnsQueue, dnsReady>>

\* Mutant: the pipe is closed without waiting for the thread.
DnsStopJoin_NoJoin ==
    /\ dnsCall = "stopping"
    /\ dnsCall' = "stopped"
    /\ IF dnsThread = "none"
       THEN UNCHANGED <<dnsPipe, dnsByte>>
       ELSE dnsPipe' = "closed" /\ dnsByte' = FALSE
    /\ UNCHANGED <<dnsRun, dnsThread, dnsSock, dnsQueue, dnsReady>>

(* The join, and the pipe closed after it.  The destructor's second Stop   *)
(* finds nothing to join and changes nothing.                              *)
DnsStopJoin ==
    /\ dnsCall = "stopping"
    /\ dnsCall' = "stopped"
    /\ \/ /\ dnsThread = "done"
          /\ dnsThread' = "joined"
          /\ dnsPipe' = "closed"
          /\ dnsByte' = FALSE
       \/ /\ dnsThread = "none"
          /\ UNCHANGED <<dnsThread, dnsPipe, dnsByte>>
    /\ UNCHANGED <<dnsRun, dnsSock, dnsQueue, dnsReady>>

-----------------------------------------------------------------------------
(* DnsServer::Run.                                                         *)

DnsOpen ==
    /\ dnsThread = "open"
    /\ \/ dnsThread' = "check" /\ dnsSock' = TRUE
       \/ dnsThread' = "done" /\ UNCHANGED dnsSock
    /\ UNCHANGED <<dnsCall, dnsRun, dnsPipe, dnsByte, dnsQueue, dnsReady>>

DnsLoop ==
    /\ dnsThread = "check"
    /\ dnsThread' = IF dnsRun THEN "select" ELSE "close"
    /\ UNCHANGED <<dnsCall, dnsRun, dnsPipe, dnsByte, dnsSock, dnsQueue, dnsReady>>

(* select blocks until a descriptor is ready. *)
DnsSelect ==
    /\ dnsThread = "select"
    /\ dnsReady' = {r \in {"sock", "stop"} : \/ r = "sock" /\ dnsQueue > 0
                                             \/ r = "stop" /\ dnsByte}
    /\ dnsReady' # {}
    /\ dnsThread' = "dispatch"
    /\ UNCHANGED <<dnsCall, dnsRun, dnsPipe, dnsByte, dnsSock, dnsQueue>>

(* A signal interrupts select: -1, and the loop starts over. *)
DnsSelectInterrupted ==
    /\ dnsThread = "select"
    /\ dnsThread' = "check"
    /\ UNCHANGED <<dnsCall, dnsRun, dnsPipe, dnsByte, dnsSock, dnsQueue, dnsReady>>

\* Mutant: the socket is read whether or not select found it ready.
DnsDispatch_Unchecked ==
    /\ dnsThread = "dispatch"
    /\ dnsQueue' = dnsQueue - 1
    /\ dnsThread' = "check"
    /\ dnsReady' = {}
    /\ UNCHANGED <<dnsCall, dnsRun, dnsPipe, dnsByte, dnsSock>>

(* A waiting datagram comes before the stop byte: it is received and, when *)
(* it is an ORIGIN question with an answer, answered from the trie.        *)
DnsDispatch ==
    /\ dnsThread = "dispatch"
    /\ IF "sock" \in dnsReady
       THEN dnsQueue' = dnsQueue - 1 /\ dnsThread' = "check"
       ELSE UNCHANGED dnsQueue /\ dnsThread' = "close"
    /\ dnsReady' = {}
    /\ UNCHANGED <<dnsCall, dnsRun, dnsPipe, dnsByte, dnsSock>>

DnsClose ==
    /\ dnsThread = "close"
    /\ dnsSock' = FALSE
    /\ dnsQueue' = 0
    /\ dnsThread' = "done"
    /\ UNCHANGED <<dnsCall, dnsRun, dnsPipe, dnsByte, dnsReady>>

(* A datagram reaches the socket; a full buffer drops it. *)
DnsArrive ==
    /\ dnsSock
    /\ dnsQueue < DnsLimit
    /\ dnsQueue' = dnsQueue + 1
    /\ UNCHANGED <<dnsCall, dnsRun, dnsPipe, dnsByte, dnsThread, dnsSock, dnsReady>>

DnsStep == DnsOpen \/ DnsLoop \/ DnsSelect \/ DnsDispatch \/ DnsClose
=============================================================================
