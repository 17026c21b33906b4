-------------------------- MODULE TcpServerProofs --------------------------
(***************************************************************************)
(* Proofs, for any connections, acceptors and allowed addresses, of the    *)
(* safety properties of TcpServer.  The inductive invariant adds to the    *)
(* properties where a connection can be: in the backlog, in the handler    *)
(* that is executing, or behind a Responder, and never in two places; and  *)
(* that the walk over _responders that destroys them misses none.          *)
(***************************************************************************)
EXTENDS TcpServer, TLAPS

Handling == {"dispatch", "accept", "spawned"}

(* A connection not accepted yet has no thread and no Responder. *)
BacklogInv ==
    \A c \in backlog : thread[c] = "none" /\ c \notin responders /\ client[c] # "out"

(* A connection never made is nowhere else. *)
OutInv ==
    \A c \in Conns : client[c] = "out" =>
        thread[c] = "none" /\ c \notin backlog /\ c \notin responders

(* The connection of the executing handler. *)
HandlerInv ==
    /\ main \in Handling => conn \in Conns
    /\ main \in {"accept", "spawned"} => conn \in Allowed
    /\ main \in Handling \cup {"cleanup"} /\ conn # None =>
           /\ conn \notin backlog
           /\ conn \notin responders
           /\ client[conn] # "out"
           /\ main # "spawned" => thread[conn] = "none"

(* The walks over the list. *)
WalkInv ==
    /\ main = "unwinding" => todo = responders
    /\ main \in {"teardown", "exited"} => responders = {}

IInv ==
    /\ TypeOK
    /\ ThreadsOwned
    /\ OnlyAllowedServed
    /\ JoinNeverWaitsForClient
    /\ BacklogInv
    /\ OutInv
    /\ HandlerInv
    /\ WalkInv

-----------------------------------------------------------------------------
(* The type invariant.                                                     *)

LEMMA InitTypeOK == Init => TypeOK
BY DEF Init, TypeOK, MainStates, Booting, Ended, ThreadStates, Joinable, Serving

LEMMA NextTypeOK ==
    ASSUME TypeOK, HandlerInv, [Next]_vars
    PROVE  TypeOK'
<1> USE TcpAssumption DEF HandlerInv, Handling, TypeOK, MainStates, Booting, Ended, ThreadStates, Joinable, Serving,
        threadVars, signalVars
<1>1. CASE SavePID \/ WatchSigTerm \/ ConstructServer
  BY <1>1 DEF SavePID, WatchSigTerm, ConstructServer
<1>2. ASSUME NEW c \in Conns, AcceptHandler(c) PROVE TypeOK'
  BY <1>2 DEF AcceptHandler
<1>3. ASSUME NEW r \in Conns, CleanupResponders(r) PROVE TypeOK'
  BY <1>3 DEF CleanupResponders, Reap, JoinReturnsTrue, JoinReturnsFalse
<1>4. CASE CleanupDone \/ Dispatch
  BY <1>4 DEF CleanupDone, Dispatch, AdmitsClient
<1>5. CASE PeerAcceptFails \/ PeerAccepts \/ MarkRunning
  BY <1>5 DEF PeerAcceptFails, PeerAccepts, MarkRunning
<1>6. CASE BoostSignalHandler \/ PollSigTerm \/ StopReturns \/ RemovePID
  BY <1>6 DEF BoostSignalHandler, PollSigTerm, StopReturns, RemovePID
<1>7. ASSUME NEW r \in Conns, DestroyResponder(r) PROVE TypeOK'
  BY <1>7 DEF DestroyResponder, JoinReturnsTrue, JoinReturnsFalse
<1>8. CASE DestroyServer \/ Exit
  BY <1>8 DEF DestroyServer, Exit
<1>9. ASSUME NEW c \in Conns, ThreadStep(c) PROVE TypeOK'
  BY <1>9 DEF ThreadStep, Goes, Authenticates, AuthenticationFails, ReceiveRequest,
     ReceiveFails, HandleRequest, HandleRequestFails, ClearRunning, RunReturns
<1>10. ASSUME NEW c \in Conns, Connect(c) \/ Vanish(c) PROVE TypeOK'
  BY <1>10 DEF Connect, Vanish
<1>11. ASSUME NEW a \in Acceptors, AcceptHandlerError(a) PROVE TypeOK'
  BY <1>11 DEF AcceptHandlerError
<1>12. CASE Kill \/ SigTermHandler
  BY <1>12 DEF Kill, SigTermHandler
<1>13. CASE UNCHANGED vars
  BY <1>13 DEF vars
<1> QED
  BY <1>1, <1>2, <1>3, <1>4, <1>5, <1>6, <1>7, <1>8, <1>9, <1>10, <1>11, <1>12, <1>13
     DEF Next, MainStep, Environment

-----------------------------------------------------------------------------
(* The inductive invariant.                                                *)

LEMMA InitIInv == Init => IInv
BY InitTypeOK, TcpAssumption
   DEF Init, IInv, ThreadsOwned, OnlyAllowedServed, JoinNeverWaitsForClient,
       BacklogInv, OutInv, HandlerInv, WalkInv, Handling, Joinable, Serving

(* What RemovePID does besides the file. *)
LEMMA RemovePIDFrame ==
    ASSUME RemovePID
    PROVE  /\ main = "stopped" /\ main' = "unwinding" /\ todo' = responders
           /\ conn' = conn /\ backlog' = backlog /\ client' = client
           /\ responders' = responders /\ thread' = thread /\ running' = running
BY DEF RemovePID, threadVars

LEMMA NextIInv ==
    ASSUME IInv, [Next]_vars
    PROVE  IInv'
<1> USE TcpAssumption
    DEF IInv, TypeOK, ThreadsOwned, OnlyAllowedServed, JoinNeverWaitsForClient,
        BacklogInv, OutInv, HandlerInv, WalkInv, Handling,
        Joinable, Serving, threadVars, signalVars
<1>0. TypeOK'
  BY NextTypeOK
<1>1. CASE SavePID \/ WatchSigTerm \/ ConstructServer
  BY <1>0, <1>1 DEF SavePID, WatchSigTerm, ConstructServer
<1>2. ASSUME NEW c \in Conns, AcceptHandler(c) PROVE IInv'
  BY <1>0, <1>2 DEF AcceptHandler
<1>3. ASSUME NEW r \in Conns, CleanupResponders(r) PROVE IInv'
  BY <1>0, <1>3 DEF CleanupResponders, Reap, JoinReturnsTrue, JoinReturnsFalse
<1>4. CASE CleanupDone \/ Dispatch
  BY <1>0, <1>4 DEF CleanupDone, Dispatch, AdmitsClient
<1>5. CASE PeerAcceptFails \/ PeerAccepts \/ MarkRunning
  BY <1>0, <1>5 DEF PeerAcceptFails, PeerAccepts, MarkRunning
<1>6. CASE BoostSignalHandler \/ PollSigTerm \/ StopReturns
  BY <1>0, <1>6 DEF BoostSignalHandler, PollSigTerm, StopReturns
<1>14. CASE RemovePID
  BY <1>0, <1>14, RemovePIDFrame
<1>7. ASSUME NEW r \in Conns, DestroyResponder(r) PROVE IInv'
  BY <1>0, <1>7 DEF DestroyResponder, JoinReturnsTrue, JoinReturnsFalse
<1>8. CASE DestroyServer \/ Exit
  BY <1>0, <1>8 DEF DestroyServer, Exit
<1>9. ASSUME NEW c \in Conns, ThreadStep(c) PROVE IInv'
  <2> USE <1>0 DEF Goes
  <2>1. CASE Authenticates(c) \/ AuthenticationFails(c)
    BY <2>1 DEF Authenticates, AuthenticationFails
  <2>2. CASE ReceiveRequest(c) \/ ReceiveFails(c)
    BY <2>2 DEF ReceiveRequest, ReceiveFails
  <2>3. CASE HandleRequest(c) \/ HandleRequestFails(c)
    BY <2>3 DEF HandleRequest, HandleRequestFails
  <2>4. CASE ClearRunning(c) \/ RunReturns(c)
    BY <2>4 DEF ClearRunning, RunReturns
  <2> QED
    BY <1>9, <2>1, <2>2, <2>3, <2>4 DEF ThreadStep
<1>10. ASSUME NEW c \in Conns, Connect(c) \/ Vanish(c) PROVE IInv'
  BY <1>0, <1>10 DEF Connect, Vanish, Booting, Alive
<1>11. ASSUME NEW a \in Acceptors, AcceptHandlerError(a) PROVE IInv'
  BY <1>0, <1>11 DEF AcceptHandlerError
<1>12. CASE Kill \/ SigTermHandler
  BY <1>0, <1>12 DEF Kill, SigTermHandler
<1>13. CASE UNCHANGED vars
  BY <1>13 DEF vars
<1> QED
  BY <1>1, <1>2, <1>3, <1>4, <1>5, <1>6, <1>7, <1>8, <1>9, <1>10, <1>11, <1>12, <1>13, <1>14
     DEF Next, MainStep, Environment

LEMMA IInvInvariant == Spec => []IInv
<1>1. IInv /\ [Next]_vars => IInv'
  BY NextIInv
<1> QED
  BY <1>1, InitIInv, PTL DEF Spec

-----------------------------------------------------------------------------
(* Every variable keeps its type for every set of connections. *)
THEOREM TcpTypeCorrect == Spec => []TypeOK
<1>1. IInv => TypeOK
  BY DEF IInv
<1> QED
  BY <1>1, IInvInvariant, PTL

(* No thread outlives the Responder object it runs in. *)
THEOREM TcpThreadsOwned == Spec => []ThreadsOwned
<1>1. IInv => ThreadsOwned
  BY DEF IInv
<1> QED
  BY <1>1, IInvInvariant, PTL

(* Only admitted connections get a thread. *)
THEOREM TcpOnlyAllowedServed == Spec => []OnlyAllowedServed
<1>1. IInv => OnlyAllowedServed
  BY DEF IInv
<1> QED
  BY <1>1, IInvInvariant, PTL

(* The io thread joins only threads that wait for nobody. *)
THEOREM TcpJoinNeverWaits == Spec => []JoinNeverWaitsForClient
<1>1. IInv => JoinNeverWaitsForClient
  BY DEF IInv
<1> QED
  BY <1>1, IInvInvariant, PTL

(* No responder thread is left when the Server's data is destroyed. *)
THEOREM TcpNoThreadAfterTeardown == Spec => []NoThreadAfterTeardown
<1>1. IInv => NoThreadAfterTeardown
  BY DEF IInv, ThreadsOwned, WalkInv, NoThreadAfterTeardown
<1> QED
  BY <1>1, IInvInvariant, PTL
=============================================================================
