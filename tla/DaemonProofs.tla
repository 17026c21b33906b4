---------------------------- MODULE DaemonProofs ----------------------------
(***************************************************************************)
(* Proofs, for any connections, acceptors and UDP addresses and any size   *)
(* of the sockets' buffers, that the composition Daemon implements         *)
(* TcpServer, and of its safety properties.  The inductive invariant says  *)
(* how far the calls of the two services can be at each point of the main  *)
(* thread, and which thread, pipe and sockets go with which call.          *)
(***************************************************************************)
EXTENDS Daemon, TLAPS

TcpP == INSTANCE TcpServerProofs

Before == {"boot", "saved"}
After == {"stopped", "unwinding", "teardown", "exited"}

(* The calls of Start and Stop follow the main thread. *)
CallsInv ==
    /\ main \in Before => dnsCall = "new"
    /\ dnsCall = "new" => udpCall = "new"
    /\ main \notin Before \cup {"constructing", "aborted"} => udpCall # "new"
    /\ udpCall = "crashed" => main = "aborted"
    /\ main \notin {"stopping", "aborted"} \cup After =>
           dnsCall \in {"new", "started"} /\ udpCall \in {"new", "started"}
    /\ main \in After => dnsCall = "stopped" /\ udpCall = "stopped"

(* A thread that was not joined has its pipe, and has not been told to     *)
(* stop before Stop was called.                                            *)
DnsInv ==
    /\ dnsThread \in Dns!DnsLive \cup {"done"} =>
           dnsPipe = "open" /\ dnsCall \in {"started", "stopping"}
    /\ dnsThread = "dispatch" /\ "sock" \in dnsReady => dnsQueue > 0

UdpInv ==
    /\ udpThread \in Udp!UdpLive \cup {"done"} =>
           udpPipe = "open" /\ udpSocks = Addrs /\ udpCall \in {"started", "stopping"}
    /\ udpThread \in Udp!UdpLive /\ udpCall = "started" => udpRun
    /\ udpByte => udpCall \notin {"new", "started"}

(* Stop is called because of a SIGTERM. *)
TermInv ==
    /\ main \in {"stopping"} \cup After => gotSigTerm
    /\ udpCall \in {"stopping", "stopped"} => gotSigTerm

PidInv == pidFile = "absent" => main \in {"boot", "aborted", "unwinding", "teardown", "exited"}

DInv ==
    /\ Dns!DnsTypeOK /\ Udp!UdpTypeOK
    /\ CallsInv /\ DnsInv /\ UdpInv /\ TermInv /\ PidInv
    /\ UdpServesUntilTerm

-----------------------------------------------------------------------------
(* The composition implements TcpServer.                                   *)

LEMMA InitRefines == DaemonInit => Tcp!Init
BY DEF DaemonInit

(* The crash of UdpStart is one of the ways in which the constructor fails.*)
LEMMA StepRefines == [DaemonNext]_allVars => [Tcp!Next]_(Tcp!vars)
<1> SUFFICES ASSUME [DaemonNext]_allVars PROVE [Tcp!Next]_(Tcp!vars)
  OBVIOUS
<1> USE DEF Tcp!Next, Tcp!MainStep, Tcp!Environment
<1>1. CASE StartDns \/ StopDns \/ StopUdp
  BY <1>1 DEF StartDns, StopDns, StopUdp, tcpVars, Tcp!vars
<1>2. CASE StartUdp
  <2>1. CASE udpCall' = "crashed"
    BY <1>2, <2>1 DEF StartUdp, Tcp!ConstructServer, Tcp!threadVars, Tcp!signalVars
  <2>2. CASE udpCall' # "crashed"
    BY <1>2, <2>2 DEF StartUdp, Tcp!vars
  <2> QED
    BY <2>1, <2>2
<1>3. CASE StartAcceptors \/ StopReturns
  BY <1>3 DEF StartAcceptors, StopReturns
<1>4. CASE RunMain
  BY <1>4 DEF RunMain
<1>5. ASSUME NEW c \in Conns, Responder(c) PROVE [Tcp!Next]_(Tcp!vars)
  BY <1>5 DEF Responder
<1>6. CASE TcpEnvironment
  BY <1>6 DEF TcpEnvironment
<1>7. CASE DnsThread \/ UdpThread \/ Datagram \/ Interrupt
  BY <1>7 DEF DnsThread, UdpThread, Datagram, Interrupt, tcpVars, Tcp!vars
<1>8. CASE UNCHANGED allVars
  BY <1>8 DEF allVars, tcpVars, Tcp!vars
<1> QED
  BY <1>1, <1>2, <1>3, <1>4, <1>5, <1>6, <1>7, <1>8 DEF DaemonNext, DaemonMain

(* Whatever the service threads and the datagrams do, and however their    *)
(* starts fail, the main thread and the responders behave as in TcpServer: *)
(* the composition only adds points at which the main thread waits.        *)
THEOREM DaemonImplementsTcp == DaemonSpec => ImplementsTcpServer
BY InitRefines, StepRefines, PTL DEF DaemonSpec, ImplementsTcpServer, Tcp!Spec

-----------------------------------------------------------------------------
(* What TcpServerProofs says of TcpServer holds here.                      *)

LEMMA SameSpec == Tcp!Spec => TcpP!Spec
<1>1. Tcp!Init => TcpP!Init
  BY DEF Tcp!Init, TcpP!Init
<1>2. [Tcp!Next]_(Tcp!vars) => [TcpP!Next]_(TcpP!vars)
  BY Zenon
     DEF Tcp!vars, TcpP!vars, Tcp!Alive, TcpP!Alive, Tcp!Ended, TcpP!Ended,
         Tcp!Booting, TcpP!Booting, Tcp!Joinable, TcpP!Joinable,
         Tcp!Serving, TcpP!Serving, Tcp!threadVars, TcpP!threadVars,
         Tcp!signalVars, TcpP!signalVars, Tcp!Next, TcpP!Next, Tcp!MainStep,
         TcpP!MainStep, Tcp!Environment, TcpP!Environment, Tcp!ThreadStep,
         TcpP!ThreadStep, Tcp!Connect, TcpP!Connect, Tcp!Vanish,
         TcpP!Vanish, Tcp!Kill, TcpP!Kill, Tcp!SigTermHandler,
         TcpP!SigTermHandler, Tcp!SavePID, TcpP!SavePID, Tcp!WatchSigTerm,
         TcpP!WatchSigTerm, Tcp!ConstructServer, TcpP!ConstructServer,
         Tcp!AcceptHandler, TcpP!AcceptHandler, Tcp!AcceptHandlerError,
         TcpP!AcceptHandlerError, Tcp!JoinReturnsTrue, TcpP!JoinReturnsTrue,
         Tcp!JoinReturnsFalse, TcpP!JoinReturnsFalse, Tcp!Reap, TcpP!Reap,
         Tcp!CleanupResponders, TcpP!CleanupResponders, Tcp!CleanupDone,
         TcpP!CleanupDone, Tcp!AdmitsClient, TcpP!AdmitsClient,
         Tcp!Dispatch, TcpP!Dispatch, Tcp!PeerAcceptFails,
         TcpP!PeerAcceptFails, Tcp!PeerAccepts, TcpP!PeerAccepts,
         Tcp!MarkRunning, TcpP!MarkRunning, Tcp!BoostSignalHandler,
         TcpP!BoostSignalHandler, Tcp!PollSigTerm, TcpP!PollSigTerm,
         Tcp!StopReturns, TcpP!StopReturns, Tcp!RemovePID, TcpP!RemovePID,
         Tcp!DestroyResponder, TcpP!DestroyResponder, Tcp!DestroyServer,
         TcpP!DestroyServer, Tcp!Exit, TcpP!Exit, Tcp!Goes, TcpP!Goes,
         Tcp!Authenticates, TcpP!Authenticates, Tcp!AuthenticationFails,
         TcpP!AuthenticationFails, Tcp!ReceiveRequest, TcpP!ReceiveRequest,
         Tcp!ReceiveFails, TcpP!ReceiveFails, Tcp!HandleRequest,
         TcpP!HandleRequest, Tcp!HandleRequestFails,
         TcpP!HandleRequestFails, Tcp!ClearRunning, TcpP!ClearRunning,
         Tcp!RunReturns, TcpP!RunReturns
<1> QED
  BY <1>1, <1>2, PTL DEF Tcp!Spec, TcpP!Spec

LEMMA TcpAssumed == TcpP!TcpAssumption
BY DaemonAssumption DEF TcpP!TcpAssumption

LEMMA TcpHolds ==
    DaemonSpec => []TcpP!TypeOK /\ []TcpP!NoThreadAfterTeardown
BY DaemonImplementsTcp, SameSpec, TcpAssumed, TcpP!TcpTypeCorrect, TcpP!TcpNoThreadAfterTeardown, PTL
   DEF ImplementsTcpServer

-----------------------------------------------------------------------------
(* The inductive invariant.                                                *)

LEMMA Limits == DnsLimit \in Nat /\ UdpLimit \in Nat
BY DaemonAssumption

LEMMA InitDInv == DaemonInit => DInv
<1> SUFFICES ASSUME DaemonInit PROVE DInv
  OBVIOUS
<1>1. Dns!DnsTypeOK
  <2>1. dnsQueue \in 0 .. DnsLimit
    BY Limits DEF DaemonInit, Dns!DnsInit
  <2> QED
    BY <2>1 DEF DaemonInit, Dns!DnsInit, Dns!DnsTypeOK
<1>2. Udp!UdpTypeOK
  <2>1. udpQueue \in [Addrs -> 0 .. UdpLimit]
    BY Limits DEF DaemonInit, Udp!UdpInit
  <2> QED
    BY <2>1 DEF DaemonInit, Udp!UdpInit, Udp!UdpTypeOK
<1>3. CallsInv /\ DnsInv /\ UdpInv /\ TermInv /\ PidInv /\ UdpServesUntilTerm
  BY DEF DaemonInit, Tcp!Init, Dns!DnsInit, Udp!UdpInit, CallsInv, DnsInv, UdpInv, TermInv, PidInv,
         UdpServesUntilTerm, Before, After, Dns!DnsLive, Udp!UdpLive
<1> QED
  BY <1>1, <1>2, <1>3 DEF DInv

InHandler == {"running", "cleanup", "dispatch", "accept", "spawned"}

(* Where the steps of TcpServer that the services take no part in lead.    *)
MainMoves ==
    \/ main' = main /\ pidFile' = pidFile
    \/ main = "boot" /\ main' = "saved" /\ pidFile' # "absent"
    \/ /\ pidFile' = pidFile
       /\ \/ main = "saved" /\ main' = "constructing"
          \/ main \in InHandler /\ main' \in InHandler \cup {"aborted"}
          \/ main = "running" /\ main' = "returned" /\ gotSigTerm'
          \/ main = "returned" /\ main' = "stopping" /\ gotSigTerm
          \/ main = "unwinding" /\ main' \in {"aborted", "teardown"}
          \/ main = "teardown" /\ main' = "exited"
    \/ main = "stopped" /\ main' = "unwinding"

SignalsStay ==
    /\ gotSigTerm => gotSigTerm'
    /\ termPending => termPending'

LEMMA RunMainMoves ==
    ASSUME RunMain
    PROVE  MainMoves /\ SignalsStay /\ UNCHANGED <<dnsVars, udpVars>>
<1> USE DEF MainMoves, SignalsStay, InHandler, Tcp!signalVars
<1>1. UNCHANGED <<dnsVars, udpVars>>
  BY DEF RunMain
<1>2. CASE Tcp!SavePID \/ Tcp!WatchSigTerm
  BY <1>1, <1>2 DEF Tcp!SavePID, Tcp!WatchSigTerm
<1>3. ASSUME NEW c \in Conns, Tcp!AcceptHandler(c) \/ Tcp!CleanupResponders(c)
      PROVE  MainMoves /\ SignalsStay
  BY <1>3 DEF Tcp!AcceptHandler, Tcp!CleanupResponders
<1>4. CASE Tcp!CleanupDone \/ Tcp!Dispatch
  BY <1>1, <1>4 DEF Tcp!CleanupDone, Tcp!Dispatch
<1>5. CASE Tcp!PeerAcceptFails \/ Tcp!PeerAccepts \/ Tcp!MarkRunning
  BY <1>1, <1>5 DEF Tcp!PeerAcceptFails, Tcp!PeerAccepts, Tcp!MarkRunning
<1>6. CASE Tcp!BoostSignalHandler \/ Tcp!PollSigTerm \/ Tcp!RemovePID
  BY <1>1, <1>6 DEF Tcp!BoostSignalHandler, Tcp!PollSigTerm, Tcp!RemovePID
<1>7. ASSUME NEW c \in Conns, Tcp!DestroyResponder(c) PROVE MainMoves /\ SignalsStay
  BY <1>7 DEF Tcp!DestroyResponder
<1>8. CASE Tcp!DestroyServer \/ Tcp!Exit
  BY <1>1, <1>8 DEF Tcp!DestroyServer, Tcp!Exit
<1> QED
  BY <1>1, <1>2, <1>3, <1>4, <1>5, <1>6, <1>7, <1>8 DEF RunMain

LEMMA EnvironmentMoves ==
    ASSUME TcpEnvironment
    PROVE  MainMoves /\ SignalsStay /\ UNCHANGED <<dnsVars, udpVars>>
<1> USE DEF MainMoves, SignalsStay, InHandler, Tcp!signalVars
<1>1. UNCHANGED <<dnsVars, udpVars>>
  BY DEF TcpEnvironment
<1>2. ASSUME NEW c \in Conns, Tcp!Connect(c) \/ Tcp!Vanish(c) PROVE MainMoves /\ SignalsStay
  BY <1>2 DEF Tcp!Connect, Tcp!Vanish
<1>3. ASSUME NEW a \in Acceptors, Tcp!AcceptHandlerError(a) PROVE MainMoves /\ SignalsStay
  BY <1>3 DEF Tcp!AcceptHandlerError
<1>4. CASE Tcp!Kill \/ Tcp!SigTermHandler
  BY <1>1, <1>4 DEF Tcp!Kill, Tcp!SigTermHandler
<1> QED
  BY <1>1, <1>2, <1>3, <1>4 DEF TcpEnvironment

LEMMA ResponderMoves ==
    ASSUME NEW c \in Conns, Responder(c)
    PROVE  MainMoves /\ SignalsStay /\ UNCHANGED <<dnsVars, udpVars>>
BY DEF Responder, Tcp!ThreadStep, Tcp!Goes, Tcp!Authenticates, Tcp!AuthenticationFails,
       Tcp!ReceiveRequest, Tcp!ReceiveFails, Tcp!HandleRequest, Tcp!HandleRequestFails,
       Tcp!ClearRunning, Tcp!RunReturns, MainMoves, SignalsStay, Tcp!signalVars

LEMMA NextDnsTypeOK ==
    ASSUME Dns!DnsTypeOK, DnsInv, [DaemonNext]_allVars
    PROVE  Dns!DnsTypeOK'
<1> USE Limits DEF Dns!DnsTypeOK, Dns!DnsLive
<1>1. CASE UNCHANGED dnsVars
  BY <1>1 DEF dnsVars
<1>2. CASE Dns!DnsStart \/ Dns!DnsStopRequest \/ Dns!DnsStopJoin
  BY <1>2 DEF Dns!DnsStart, Dns!DnsStopRequest, Dns!DnsStopJoin
<1>3. CASE Dns!DnsOpen \/ Dns!DnsLoop \/ Dns!DnsSelect
  BY <1>3 DEF Dns!DnsOpen, Dns!DnsLoop, Dns!DnsSelect
<1>4. CASE Dns!DnsDispatch
  BY <1>4 DEF Dns!DnsDispatch, DnsInv
<1>5. CASE Dns!DnsClose
  <2>1. dnsQueue' \in 0 .. DnsLimit
    BY <1>5 DEF Dns!DnsClose
  <2>2. dnsSock' \in BOOLEAN /\ dnsThread' \in {"done"}
    BY <1>5 DEF Dns!DnsClose
  <2> QED
    BY <1>5, <2>1, <2>2 DEF Dns!DnsClose
<1>6. CASE Dns!DnsArrive
  BY <1>6 DEF Dns!DnsArrive
<1>7. CASE Dns!DnsSelectInterrupted
  BY <1>7 DEF Dns!DnsSelectInterrupted
<1> QED
  BY <1>1, <1>2, <1>3, <1>4, <1>5, <1>6, <1>7
     DEF DaemonNext, DaemonMain, StartDns, StartUdp, StartAcceptors, RunMain, StopDns, StopUdp,
         StopReturns, Responder, DnsThread, UdpThread, Dns!DnsStep, TcpEnvironment, Datagram,
         Interrupt, allVars

LEMMA NextUdpTypeOK ==
    ASSUME Udp!UdpTypeOK, [DaemonNext]_allVars
    PROVE  Udp!UdpTypeOK'
<1> USE Limits DEF Udp!UdpTypeOK, Udp!UdpLive
<1>1. CASE UNCHANGED udpVars
  BY <1>1 DEF udpVars
<1>2. CASE Udp!UdpStart \/ Udp!UdpStopRequest
  BY <1>2 DEF Udp!UdpStart, Udp!UdpStopRequest
<1>5. CASE Udp!UdpStopJoin
  <2>1. udpQueue' \in [Addrs -> 0 .. UdpLimit]
    BY <1>5 DEF Udp!UdpStopJoin
  <2> QED
    BY <1>5, <2>1 DEF Udp!UdpStopJoin
<1>3. CASE Udp!UdpLoop \/ Udp!UdpSelect \/ Udp!UdpServed \/ Udp!UdpSelectInterrupted
  BY <1>3 DEF Udp!UdpLoop, Udp!UdpSelect, Udp!UdpServed, Udp!UdpSelectInterrupted
<1>4. ASSUME NEW a \in Addrs, Udp!UdpRespond(a) \/ Udp!UdpArrive(a) PROVE Udp!UdpTypeOK'
  BY <1>4 DEF Udp!UdpRespond, Udp!UdpArrive
<1> QED
  BY <1>1, <1>2, <1>3, <1>4, <1>5
     DEF DaemonNext, DaemonMain, StartDns, StartUdp, StartAcceptors, RunMain, StopDns, StopUdp,
         StopReturns, Responder, DnsThread, UdpThread, Udp!UdpStep, TcpEnvironment, Datagram,
         Interrupt, allVars

Orders == CallsInv /\ DnsInv /\ UdpInv /\ TermInv /\ PidInv /\ UdpServesUntilTerm

(* A step of the services' threads leaves the main thread where it is.     *)
LEMMA NextDInv ==
    ASSUME DInv, [DaemonNext]_allVars
    PROVE  DInv'
<1>types. Dns!DnsTypeOK' /\ Udp!UdpTypeOK'
  BY NextDnsTypeOK, NextUdpTypeOK DEF DInv
<1> SUFFICES Orders'
  BY <1>types DEF DInv, Orders
<1> Dns!DnsTypeOK /\ Udp!UdpTypeOK /\ Orders
  BY DEF DInv, Orders
<1> USE DEF Orders, CallsInv, DnsInv, UdpInv, TermInv, PidInv,
        UdpServesUntilTerm, Before, After, Dns!DnsLive, Udp!UdpLive,
        tcpVars, dnsVars, udpVars
<1>1. CASE MainMoves /\ SignalsStay /\ UNCHANGED <<dnsVars, udpVars>>
  BY <1>1 DEF MainMoves, SignalsStay, InHandler
<1>2. CASE StartDns
  BY <1>2 DEF StartDns, Dns!DnsStart
<1>3. CASE StartUdp
  <2>1. /\ main = "constructing" /\ dnsCall = "started" /\ udpCall = "new"
        /\ UNCHANGED <<termPending, gotSigTerm, pidFile, dnsVars, udpByte>>
    BY <1>3 DEF StartUdp, Udp!UdpStart
  <2>2. ~udpByte /\ udpThread \in {"none", "joined"}
    BY <2>1 DEF Udp!UdpTypeOK
  <2>3. CASE udpCall' = "crashed" /\ main' = "aborted" /\ udpThread' = udpThread
    BY <2>1, <2>2, <2>3
  <2>4. CASE /\ udpCall' = "started" /\ main' = main
             /\ udpThread' = "check" /\ udpPipe' = "open" /\ udpSocks' = Addrs /\ udpRun'
    BY <2>1, <2>2, <2>4
  <2>5. CASE udpCall' = "started" /\ main' = main /\ udpThread' = udpThread
    BY <2>1, <2>2, <2>5
  <2> QED
    BY <1>3, <2>3, <2>4, <2>5 DEF StartUdp, Udp!UdpStart
<1>4. CASE StartAcceptors
  BY <1>4 DEF StartAcceptors, Tcp!ConstructServer, Tcp!signalVars
<1>5. CASE StopDns
  BY <1>5 DEF StopDns, Dns!DnsStopRequest, Dns!DnsStopJoin
<1>6. CASE StopUdp
  BY <1>6 DEF StopUdp, Udp!UdpStopRequest, Udp!UdpStopJoin
<1>7. CASE StopReturns
  BY <1>7 DEF StopReturns, Tcp!StopReturns, Tcp!signalVars
<1>8. CASE DnsThread
  BY <1>8 DEF DnsThread, Dns!DnsStep, Dns!DnsOpen, Dns!DnsLoop, Dns!DnsSelect, Dns!DnsDispatch,
     Dns!DnsClose
<1>9. CASE UdpThread
  BY <1>9 DEF UdpThread, Udp!UdpStep, Udp!UdpLoop, Udp!UdpSelect, Udp!UdpServed, Udp!UdpRespond
<1>10. CASE Datagram
  BY <1>10 DEF Datagram, Dns!DnsArrive, Udp!UdpArrive, Dns!DnsTypeOK
<1>11. CASE Interrupt
  BY <1>11 DEF Interrupt, Dns!DnsSelectInterrupted, Udp!UdpSelectInterrupted
<1>12. CASE UNCHANGED allVars
  BY <1>12 DEF allVars
<1> QED
  BY <1>1, <1>2, <1>3, <1>4, <1>5, <1>6, <1>7, <1>8, <1>9, <1>10, <1>11, <1>12,
     RunMainMoves, EnvironmentMoves, ResponderMoves DEF DaemonNext, DaemonMain

LEMMA DInvInvariant == DaemonSpec => []DInv
<1>1. DInv /\ [DaemonNext]_allVars => DInv'
  BY NextDInv
<1> QED
  BY <1>1, InitDInv, PTL DEF DaemonSpec

-----------------------------------------------------------------------------
(* Main thread, responders, services, pipes and buffers keep their types.  *)
THEOREM DaemonTypeCorrect == DaemonSpec => []DaemonTypeOK
<1>1. DInv /\ TcpP!TypeOK => DaemonTypeOK
  BY DEF DInv, DaemonTypeOK, Tcp!TypeOK, TcpP!TypeOK, Tcp!MainStates, TcpP!MainStates,
         Tcp!Booting, TcpP!Booting, Tcp!Ended, TcpP!Ended, Tcp!ThreadStates, TcpP!ThreadStates,
         Tcp!Joinable, TcpP!Joinable, Tcp!Serving, TcpP!Serving
<1> QED
  BY <1>1, DInvInvariant, TcpHolds, PTL

(* No service thread uses a pipe or a socket that the main thread has      *)
(* closed, however the starts fail and whenever the SIGTERM comes.         *)
THEOREM DaemonDescriptorsOutlive == DaemonSpec => []DescriptorsOutliveThreads
<1>1. DInv => DescriptorsOutliveThreads
  BY DEF DInv, DnsInv, UdpInv, DescriptorsOutliveThreads
<1> QED
  BY <1>1, DInvInvariant, PTL

(* When the tries and the names are destroyed no thread is left that reads *)
(* them.                                                                   *)
THEOREM DaemonDataOutlives == DaemonSpec => []DataOutlivesThreads
<1>1. DInv /\ TcpP!NoThreadAfterTeardown => DataOutlivesThreads
  BY DEF DInv, CallsInv, DnsInv, UdpInv, After, DataOutlivesThreads, TcpP!NoThreadAfterTeardown,
         Tcp!Joinable, TcpP!Joinable, Tcp!Serving, TcpP!Serving, Dns!DnsLive, Udp!UdpLive
<1> QED
  BY <1>1, DInvInvariant, TcpHolds, PTL

(* Nothing answers a datagram while there is no PID file.                  *)
THEOREM DaemonPidFileCovers == DaemonSpec => []PidFileCoversService
<1>1. DInv => PidFileCoversService
  BY DEF DInv, CallsInv, DnsInv, UdpInv, PidInv, Before, After, PidFileCoversService,
         Tcp!Alive, Tcp!Ended, Dns!DnsLive, Udp!UdpLive
<1> QED
  BY <1>1, DInvInvariant, PTL

(* The UDP thread serves until a SIGTERM.                                  *)
THEOREM DaemonUdpServes == DaemonSpec => []UdpServesUntilTerm
<1>1. DInv => UdpServesUntilTerm
  BY DEF DInv
<1> QED
  BY <1>1, DInvInvariant, PTL
=============================================================================
