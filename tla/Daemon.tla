------------------------------- MODULE Daemon -------------------------------
(***************************************************************************)
(* The whole mccurtaind process: the main thread and the responder threads *)
(* (TcpServer) with the DNS and the UDP thread (DnsServer, UdpServer).     *)
(* The Server constructor starts the two services before it opens its      *)
(* acceptors, and Server::Stop stops them one after the other, each time   *)
(* waiting for the thread.                                                 *)
(***************************************************************************)
EXTENDS Naturals

CONSTANTS Conns, Allowed, Acceptors, Endpoint, None,   \* as in TcpServer
          DnsLimit,                                    \* as in DnsServer
          Addrs, UdpLimit                              \* as in UdpServer

ASSUME DaemonAssumption ==
    /\ Allowed \subseteq Conns
    /\ Endpoint \in [Conns -> Acceptors]
    /\ None \notin Conns
    /\ DnsLimit \in Nat \ {0}
    /\ UdpLimit \in Nat \ {0}

VARIABLES
    main, conn, todo, armed, backlog, client, responders, thread, running,
    termPending, gotSigTerm, pidFile,
    dnsCall, dnsRun, dnsPipe, dnsByte, dnsThread, dnsSock, dnsQueue, dnsReady,
    udpCall, udpRun, udpPipe, udpByte, udpThread, udpSocks, udpQueue, udpReady

Tcp == INSTANCE TcpServer
Dns == INSTANCE DnsServer
Udp == INSTANCE UdpServer

tcpVars == <<main, conn, todo, armed, backlog, client, responders, thread,
             running, termPending, gotSigTerm, pidFile>>
dnsVars == <<dnsCall, dnsRun, dnsPipe, dnsByte, dnsThread, dnsSock, dnsQueue, dnsReady>>
udpVars == <<udpCall, udpRun, udpPipe, udpByte, udpThread, udpSocks, udpQueue, udpReady>>
allVars == <<tcpVars, dnsVars, udpVars>>

DaemonTypeOK == Tcp!TypeOK /\ Dns!DnsTypeOK /\ Udp!UdpTypeOK

DaemonInit == Tcp!Init /\ Dns!DnsInit /\ Udp!UdpInit

-----------------------------------------------------------------------------
(* The main thread.                                                        *)

\* Mutant: main() constructs the Server before it saves the PID.
StartDns_BeforePid ==
    /\ main \in {"boot", "constructing"}
    /\ Dns!DnsStart
    /\ UNCHANGED <<tcpVars, udpVars>>

(* The Server constructor: the DNS server, the UDP server, the acceptors.  *)
(* The results of the two Start calls are ignored.                         *)
StartDns ==
    /\ main = "constructing"
    /\ Dns!DnsStart
    /\ UNCHANGED <<tcpVars, udpVars>>

\* Mutant: the constructor returns when the UDP server has not started.
StartUdp_EarlyReturn ==
    /\ main = "constructing" /\ dnsCall = "started"
    /\ Udp!UdpStart
    /\ main' = CASE udpCall' = "crashed" -> "aborted"
                 [] udpThread' = "none" -> "running"
                 [] OTHER -> main
    /\ UNCHANGED <<conn, todo, armed, backlog, client, responders, thread,
                   running, termPending, gotSigTerm, pidFile, dnsVars>>

StartUdp ==
    /\ main = "constructing" /\ dnsCall = "started"
    /\ Udp!UdpStart
    /\ main' = IF udpCall' = "crashed" THEN "aborted" ELSE main
    /\ UNCHANGED <<conn, todo, armed, backlog, client, responders, thread,
                   running, termPending, gotSigTerm, pidFile, dnsVars>>

StartAcceptors ==
    /\ udpCall = "started"
    /\ Tcp!ConstructServer
    /\ UNCHANGED <<dnsVars, udpVars>>

(* SIGTERM handlers, the accept handlers, polling, destruction. *)
RunMain ==
    /\ \/ Tcp!SavePID \/ Tcp!WatchSigTerm
       \/ \E c \in Conns : Tcp!AcceptHandler(c) \/ Tcp!CleanupResponders(c)
       \/ Tcp!CleanupDone \/ Tcp!Dispatch
       \/ Tcp!PeerAcceptFails \/ Tcp!PeerAccepts \/ Tcp!MarkRunning
       \/ Tcp!BoostSignalHandler \/ Tcp!PollSigTerm \/ Tcp!RemovePID
       \/ \E c \in Conns : Tcp!DestroyResponder(c)
       \/ Tcp!DestroyServer \/ Tcp!Exit
    /\ UNCHANGED <<dnsVars, udpVars>>

(* Server::Stop. *)
StopDns ==
    /\ main = "stopping"
    /\ Dns!DnsStopRequest \/ Dns!DnsStopJoin
    /\ UNCHANGED <<tcpVars, udpVars>>

StopUdp ==
    /\ main = "stopping" /\ dnsCall = "stopped"
    /\ Udp!UdpStopRequest \/ Udp!UdpStopJoin
    /\ UNCHANGED <<tcpVars, dnsVars>>

StopReturns ==
    /\ dnsCall = "stopped" /\ udpCall = "stopped"
    /\ Tcp!StopReturns
    /\ UNCHANGED <<dnsVars, udpVars>>

DaemonMain == StartDns \/ StartUdp \/ StartAcceptors \/ RunMain \/ StopDns \/ StopUdp \/ StopReturns

-----------------------------------------------------------------------------
(* The other threads, while the process exists.                            *)

Responder(c) == Tcp!ThreadStep(c) /\ UNCHANGED <<dnsVars, udpVars>>

DnsThread == Tcp!Alive /\ Dns!DnsStep /\ UNCHANGED <<tcpVars, udpVars>>

UdpThread == Tcp!Alive /\ Udp!UdpStep /\ UNCHANGED <<tcpVars, dnsVars>>

-----------------------------------------------------------------------------
(* The environment.                                                        *)

TcpEnvironment ==
    /\ \/ \E c \in Conns : Tcp!Connect(c) \/ Tcp!Vanish(c)
       \/ \E a \in Acceptors : Tcp!AcceptHandlerError(a)
       \/ Tcp!Kill \/ Tcp!SigTermHandler
    /\ UNCHANGED <<dnsVars, udpVars>>

Datagram ==
    /\ Tcp!Alive
    /\ \/ Dns!DnsArrive /\ UNCHANGED udpVars
       \/ \E a \in Addrs : Udp!UdpArrive(a) /\ UNCHANGED dnsVars
    /\ UNCHANGED tcpVars

\* Mutant: a signal of no consequence interrupts the threads too.
Interrupt_Any ==
    /\ Tcp!Alive
    /\ \/ Dns!DnsSelectInterrupted /\ UNCHANGED udpVars
       \/ Udp!UdpSelectInterrupted /\ UNCHANGED dnsVars
    /\ UNCHANGED tcpVars

(* SIGTERM is the one signal with a handler: its delivery to a service     *)
(* thread interrupts that thread's select.                                 *)
Interrupt ==
    /\ Tcp!Alive
    /\ termPending \/ gotSigTerm
    /\ \/ Dns!DnsSelectInterrupted /\ UNCHANGED udpVars
       \/ Udp!UdpSelectInterrupted /\ UNCHANGED dnsVars
    /\ UNCHANGED tcpVars

DaemonNext ==
    \/ DaemonMain
    \/ \E c \in Conns : Responder(c)
    \/ DnsThread \/ UdpThread
    \/ TcpEnvironment \/ Datagram \/ Interrupt

(* As in TcpServer; the service threads wait for nobody but the kernel.    *)
DaemonFairness ==
    /\ WF_allVars(DaemonMain)
    /\ \A c \in Conns : WF_allVars(Tcp!Unblocked(c) /\ UNCHANGED <<dnsVars, udpVars>>)
    /\ WF_allVars(DnsThread)
    /\ WF_allVars(UdpThread)

DaemonSpec == DaemonInit /\ [][DaemonNext]_allVars

FairDaemonSpec == DaemonSpec /\ DaemonFairness

-----------------------------------------------------------------------------
(* No service thread polls or reads a descriptor the main thread has       *)
(* closed: pipes and sockets are closed after the join.                    *)
DescriptorsOutliveThreads ==
    /\ dnsThread \in Dns!DnsLive => dnsPipe = "open"
    /\ udpThread \in Udp!UdpLive => udpPipe = "open" /\ udpSocks = Addrs

(* When the members of the Server are destroyed, no thread of any of the   *)
(* three kinds is left to look up an address in them.                      *)
DataOutlivesThreads ==
    main = "teardown" =>
        /\ \A c \in Conns : thread[c] \notin Tcp!Joinable
        /\ dnsThread \notin Dns!DnsLive
        /\ udpThread \notin Udp!UdpLive

(* Before the PID file is written and after it is removed the process      *)
(* answers no datagram: whoever finds no PID file may start another daemon.*)
PidFileCoversService ==
    Tcp!Alive /\ pidFile = "absent" => dnsThread \notin Dns!DnsLive /\ udpThread \notin Udp!UdpLive

(* The UDP thread, once started, ends only because of a SIGTERM.           *)
UdpServesUntilTerm ==
    udpThread \in {"done", "joined"} => termPending \/ gotSigTerm

(* A SIGTERM ends the process although datagrams keep coming and clients   *)
(* stay connected.                                                         *)
DaemonTermEndsProcess == (termPending \/ gotSigTerm) ~> ~Tcp!Alive

(* The composition adds waiting to TcpServer and no behaviour.             *)
ImplementsTcpServer == Tcp!Spec
=============================================================================
