----------------------------- MODULE TcpServer -----------------------------
(***************************************************************************)
(* The main thread of mccurtaind and the TCP side of its Server object:    *)
(* the io_context that runs the accept handlers, the Responder object and  *)
(* thread made for each admitted connection, SIGTERM, Server::Stop and the *)
(* destruction of the Server when main() returns.                          *)
(*                                                                         *)
(* The main thread is a program counter `main'; a responder thread is one  *)
(* entry of `thread'.  Every action is one stretch of code that touches no *)
(* state another thread reads half way.  Credence (key exchange,           *)
(* authentication, framing) is external: a call to it succeeds or fails.   *)
(***************************************************************************)
EXTENDS Naturals, FiniteSets

CONSTANTS Conns,      \* the TCP connections clients open, in some order
          Allowed,    \* those whose address Server::ClientAllowed admits
          Acceptors,  \* one per configured TCP address
          Endpoint,   \* the acceptor each connection is made to
          None        \* no connection is being handled

ASSUME TcpAssumption ==
    /\ Allowed \subseteq Conns
    /\ Endpoint \in [Conns -> Acceptors]
    /\ None \notin Conns

VARIABLES
    main,        \* where the main thread is
    conn,        \* the connection whose accept handler is executing
    todo,        \* the responders a walk over _responders has still to visit
    armed,       \* the acceptors with an async_accept outstanding
    backlog,     \* connections the kernel completed and nobody accepted yet
    client,      \* the remote end of each connection
    responders,  \* Server::_responders
    thread,      \* each Responder's std::thread, and where its Run() is
    running,     \* each Responder's _running
    termPending, \* SIGTERM was delivered to boost's signal_set
    gotSigTerm,  \* g_gotSigTerm
    pidFile      \* the PID file: "absent", "present", or it cannot be written

threadVars == <<thread, running>>
signalVars == <<termPending, gotSigTerm>>
vars == <<main, conn, todo, armed, backlog, client, responders, thread,
          running, termPending, gotSigTerm, pidFile>>

-----------------------------------------------------------------------------
(* "boot": before SavePID.  "saved": before the signal_set.                *)
(* "constructing": in the Server constructor.  "running": in               *)
(* io_context::run, between two handlers.  "cleanup", "dispatch",          *)
(* "accept", "spawned": in an accept handler.  "returned": run() came      *)
(* back.  "stopping": in Server::Stop.  "stopped": Stop has returned.      *)
(* "unwinding": destroying _responders.  "teardown": the rest of the       *)
(* Server is gone too.                                                     *)
Ended == {"exited", "aborted"}
Booting == {"boot", "saved", "constructing"}
MainStates == Booting \cup {"running", "cleanup", "dispatch", "accept", "spawned", "returned",
               "stopping", "stopped", "unwinding", "teardown"} \cup Ended

(* "none": the std::thread is not joinable because it never ran, "joined": *)
(* because it was joined.  The others are joinable.  "returning": Run()    *)
(* has stored false in _running and has only to return, "done": it has.    *)
Serving == {"auth", "receive", "handle", "closing"}
Joinable == Serving \cup {"returning", "done"}
ThreadStates == Joinable \cup {"none", "joined"}

Alive == main \notin Ended

TypeOK ==
    /\ main \in MainStates
    /\ conn \in Conns \cup {None}
    /\ todo \subseteq Conns
    /\ armed \subseteq Acceptors
    /\ backlog \subseteq Conns
    /\ client \in [Conns -> {"out", "in", "gone"}]
    /\ responders \subseteq Conns
    /\ thread \in [Conns -> ThreadStates]
    /\ running \in [Conns -> BOOLEAN]
    /\ termPending \in BOOLEAN
    /\ gotSigTerm \in BOOLEAN
    /\ pidFile \in {"absent", "present", "unwritable"}

Init ==
    /\ main = "boot"
    /\ conn = None
    /\ todo = {}
    /\ armed = {}
    /\ backlog = {}
    /\ client = [c \in Conns |-> "out"]
    /\ responders = {}
    /\ thread = [c \in Conns |-> "none"]
    /\ running = [c \in Conns |-> FALSE]
    /\ termPending = FALSE
    /\ gotSigTerm = FALSE
    /\ pidFile = "absent"

-----------------------------------------------------------------------------
(* The environment: clients, and whoever sends SIGTERM.                    *)

(* The kernel completes connections while the listening socket is open,    *)
(* whether or not the accept loop still runs.                              *)
Connect(c) ==
    /\ client[c] = "out"
    /\ Alive /\ main \notin Booting \cup {"teardown"}
    /\ client' = [client EXCEPT ![c] = "in"]
    /\ backlog' = backlog \cup {c}
    /\ UNCHANGED <<main, conn, todo, armed, responders, threadVars, signalVars, pidFile>>

Vanish(c) ==
    /\ client[c] = "in"
    /\ client' = [client EXCEPT ![c] = "gone"]
    /\ UNCHANGED <<main, conn, todo, armed, backlog, responders, threadVars,
                   signalVars, pidFile>>

(* Once the signal_set exists, its sigaction has replaced SigTermHandler's *)
(* and a SIGTERM waits for the io_context to run BoostSignalHandler.       *)
Kill ==
    /\ Alive /\ main \notin {"boot", "saved"}
    /\ ~termPending
    /\ termPending' = TRUE
    /\ UNCHANGED <<main, conn, todo, armed, backlog, client, responders,
                   threadVars, gotSigTerm, pidFile>>

-----------------------------------------------------------------------------
(* The main thread: start-up.                                              *)

(* SigTermHandler runs inside the signal; the stop() it does makes the run *)
(* that has not begun yet return at once.                                  *)
SigTermHandler ==
    /\ main \in {"boot", "saved"}
    /\ ~gotSigTerm
    /\ gotSigTerm' = TRUE
    /\ UNCHANGED <<main, conn, todo, armed, backlog, client, responders,
                   threadVars, termPending, pidFile>>

(* A file that cannot be opened is ignored. *)
SavePID ==
    /\ main = "boot"
    /\ main' = "saved"
    /\ pidFile' \in {"present", "unwritable"}
    /\ UNCHANGED <<conn, todo, armed, backlog, client, responders, threadVars, signalVars>>

WatchSigTerm ==
    /\ main = "saved"
    /\ main' = "constructing"
    /\ UNCHANGED <<conn, todo, armed, backlog, client, responders, threadVars,
                   signalVars, pidFile>>

(* The Server constructor.  open, set_option, bind and listen throw, and   *)
(* nothing in main() catches.                                              *)
ConstructServer ==
    /\ main = "constructing"
    /\ \/ /\ main' = IF gotSigTerm THEN "returned" ELSE "running"
          /\ armed' = Acceptors
       \/ main' = "aborted" /\ UNCHANGED armed
    /\ UNCHANGED <<conn, todo, backlog, client, responders, threadVars,
                   signalVars, pidFile>>

-----------------------------------------------------------------------------
(* The main thread: accept handlers, which run one at a time.              *)

(* An async_accept completes.  AcceptLoop arms the acceptor again at the   *)
(* end of the handler; only this thread looks at it in between.            *)
AcceptHandler(c) ==
    /\ main = "running"
    /\ c \in backlog
    /\ Endpoint[c] \in armed
    /\ main' = "cleanup"
    /\ conn' = c
    /\ todo' = responders
    /\ backlog' = backlog \ {c}
    /\ UNCHANGED <<armed, client, responders, threadVars, signalVars, pidFile>>

(* An async_accept fails (out of descriptors, a reset connection, ...):    *)
(* the handler cleans up and does not arm the acceptor again.              *)
AcceptHandlerError(a) ==
    /\ main = "running"
    /\ a \in armed
    /\ main' = "cleanup"
    /\ conn' = None
    /\ todo' = responders
    /\ armed' = armed \ {a}
    /\ UNCHANGED <<backlog, client, responders, threadVars, signalVars, pidFile>>

(* Responder::Join.  It returns at once unless _running is false and the   *)
(* thread is joinable; then it waits for the thread to return.  _running   *)
(* of a listed responder never goes back to true, so reading it and        *)
(* joining are one step.                                                   *)
JoinReturnsTrue(r) ==
    /\ ~running[r]
    /\ thread[r] = "done"
    /\ thread' = [thread EXCEPT ![r] = "joined"]

JoinReturnsFalse(r) ==
    /\ running[r] \/ thread[r] \notin Joinable
    /\ UNCHANGED thread

\* Mutant: Join forgets to return true after joining.
Reap_Never(r) == FALSE

\* Mutant: the responder is erased because Run() is over, without a join.
Reap_NoJoin(r) ==
    /\ ~running[r]
    /\ UNCHANGED thread
    /\ responders' = responders \ {r}

(* The branch of CleanupResponders that erases.                            *)
Reap(r) ==
    /\ JoinReturnsTrue(r)
    /\ responders' = responders \ {r}

(* CleanupResponders visits the responders in list order; any order is     *)
(* allowed here.                                                           *)
CleanupResponders(r) ==
    /\ main = "cleanup"
    /\ r \in todo
    /\ todo' = todo \ {r}
    /\ \/ Reap(r)
       \/ JoinReturnsFalse(r) /\ UNCHANGED responders
    /\ UNCHANGED <<main, conn, armed, backlog, client, running, signalVars, pidFile>>

\* Mutant: a handler that failed goes on to make a Responder.
CleanupDone_IgnoresError ==
    /\ main = "cleanup"
    /\ todo = {}
    /\ main' = IF conn = None THEN "accept" ELSE "dispatch"
    /\ UNCHANGED <<conn, todo, armed, backlog, client, responders, threadVars,
                   signalVars, pidFile>>

CleanupDone ==
    /\ main = "cleanup"
    /\ todo = {}
    /\ main' = IF conn = None THEN "running" ELSE "dispatch"
    /\ UNCHANGED <<conn, todo, armed, backlog, client, responders, threadVars,
                   signalVars, pidFile>>

\* Mutant: the allowedClients check is dropped.
AdmitsClient_All(c) == TRUE

AdmitsClient(c) == c \in Allowed

(* The rest of the handler: remote_endpoint() throws when the connection   *)
(* was reset meanwhile, an address not allowed is closed, and the others   *)
(* get a Responder, whose constructor calls _peer.Accept.                  *)
Dispatch ==
    /\ main = "dispatch"
    /\ \/ (client[conn] = "gone" /\ main' = "aborted" /\ UNCHANGED conn)
       \/ (~AdmitsClient(conn) /\ main' = "running" /\ conn' = None)
       \/ (AdmitsClient(conn) /\ main' = "accept" /\ UNCHANGED conn)
    /\ UNCHANGED <<todo, armed, backlog, client, responders, threadVars,
                   signalVars, pidFile>>

(* _peer.Accept fails, or gives up after its two 2000 ms timeouts: the     *)
(* responder is listed although it never gets a thread.                    *)
PeerAcceptFails ==
    /\ main = "accept"
    /\ main' = "running"
    /\ responders' = responders \cup {conn}
    /\ conn' = None
    /\ UNCHANGED <<todo, armed, backlog, client, threadVars, signalVars, pidFile>>

(* _peer.Accept succeeds and the constructor starts the thread ...         *)
PeerAccepts ==
    /\ main = "accept"
    /\ main' = "spawned"
    /\ thread' = [thread EXCEPT ![conn] = "auth"]
    /\ UNCHANGED <<conn, todo, armed, backlog, client, responders, running,
                   signalVars, pidFile>>

\* Mutant: the constructor does not set _running.
MarkRunning_Forgotten ==
    /\ main = "spawned"
    /\ main' = "running"
    /\ responders' = responders \cup {conn}
    /\ conn' = None
    /\ UNCHANGED <<todo, armed, backlog, client, threadVars, signalVars, pidFile>>

(* ... and only then stores true in _running, whatever the thread has done *)
(* by now; the responder is pushed on the list.                            *)
MarkRunning ==
    /\ main = "spawned"
    /\ main' = "running"
    /\ running' = [running EXCEPT ![conn] = TRUE]
    /\ responders' = responders \cup {conn}
    /\ conn' = None
    /\ UNCHANGED <<todo, armed, backlog, client, thread, signalVars, pidFile>>

-----------------------------------------------------------------------------
(* The main thread: SIGTERM, Server::Stop, return from main().             *)

\* Mutant: the handler stops the io_context and forgets g_gotSigTerm.
BoostSignalHandler_NoFlag ==
    /\ main = "running"
    /\ termPending
    /\ main' = "returned"
    /\ UNCHANGED <<conn, todo, armed, backlog, client, responders, threadVars,
                   signalVars, pidFile>>

BoostSignalHandler ==
    /\ main = "running"
    /\ termPending
    /\ gotSigTerm' = TRUE
    /\ main' = "returned"
    /\ UNCHANGED <<conn, todo, armed, backlog, client, responders, threadVars,
                   termPending, pidFile>>

(* main()'s loop polls g_gotSigTerm and calls Server::Stop, which cancels  *)
(* the acceptors; the io_context no longer runs their handlers.            *)
PollSigTerm ==
    /\ main = "returned"
    /\ gotSigTerm
    /\ main' = "stopping"
    /\ armed' = {}
    /\ UNCHANGED <<conn, todo, backlog, client, responders, threadVars,
                   signalVars, pidFile>>

(* Server::Stop stops the DNS and UDP servers and returns.                 *)
StopReturns ==
    /\ main = "stopping"
    /\ main' = "stopped"
    /\ UNCHANGED <<conn, todo, armed, backlog, client, responders, threadVars,
                   signalVars, pidFile>>

(* RemovePID, and main() leaves the block that holds the Server.           *)
RemovePID ==
    /\ main = "stopped"
    /\ pidFile' = IF pidFile = "present" THEN "absent" ELSE pidFile
    /\ main' = "unwinding"
    /\ todo' = responders
    /\ UNCHANGED <<conn, armed, backlog, client, responders, threadVars, signalVars>>

\* Mutant: ~Responder detaches a thread it could not join.
DestroyResponder_Detach(r) ==
    /\ main = "unwinding"
    /\ r \in todo
    /\ todo' = todo \ {r}
    /\ responders' = responders \ {r}
    /\ JoinReturnsTrue(r) \/ JoinReturnsFalse(r)
    /\ UNCHANGED <<main, conn, armed, backlog, client, running, signalVars, pidFile>>

(* ~Responder joins if it can.  ~thread() calls std::terminate when the    *)
(* thread is still joinable.  _responders is the last member of Server, so *)
(* this comes before any other member is destroyed.                        *)
DestroyResponder(r) ==
    /\ main = "unwinding"
    /\ r \in todo
    /\ \/ /\ JoinReturnsTrue(r) \/ (JoinReturnsFalse(r) /\ thread[r] \notin Joinable)
          /\ todo' = todo \ {r}
          /\ responders' = responders \ {r}
          /\ UNCHANGED main
       \/ /\ JoinReturnsFalse(r) /\ thread[r] \in Joinable
          /\ main' = "aborted"
          /\ UNCHANGED <<todo, responders>>
    /\ UNCHANGED <<conn, armed, backlog, client, running, signalVars, pidFile>>

(* The remaining members of the Server: the tries, the AS maps, the keys.  *)
DestroyServer ==
    /\ main = "unwinding"
    /\ todo = {}
    /\ main' = "teardown"
    /\ UNCHANGED <<conn, todo, armed, backlog, client, responders, threadVars,
                   signalVars, pidFile>>

Exit ==
    /\ main = "teardown"
    /\ main' = "exited"
    /\ UNCHANGED <<conn, todo, armed, backlog, client, responders, threadVars,
                   signalVars, pidFile>>

-----------------------------------------------------------------------------
(* A responder thread: Responder::Run.  What a client sent before it left  *)
(* can still be received.                                                  *)

Goes(c, from, to) ==
    /\ Alive
    /\ thread[c] = from
    /\ thread' = [thread EXCEPT ![c] = to]
    /\ UNCHANGED <<main, conn, todo, armed, backlog, client, responders,
                   signalVars, pidFile>>

Authenticates(c) == Goes(c, "auth", "receive") /\ UNCHANGED running

AuthenticationFails(c) == Goes(c, "auth", "closing") /\ UNCHANGED running

ReceiveRequest(c) == Goes(c, "receive", "handle") /\ UNCHANGED running

\* Mutant: Run() goes on receiving after a failed Receive.
ReceiveFails_Retry(c) == Goes(c, "receive", "receive") /\ UNCHANGED running

ReceiveFails(c) == Goes(c, "receive", "closing") /\ UNCHANGED running

(* HandleRequest looks up the answer in the Server and sends it.           *)
HandleRequest(c) == Goes(c, "handle", "receive") /\ UNCHANGED running

HandleRequestFails(c) == Goes(c, "handle", "closing") /\ UNCHANGED running

(* Disconnect, then the last thing Run() does with the Responder.          *)
ClearRunning(c) ==
    /\ Goes(c, "closing", "returning")
    /\ running' = [running EXCEPT ![c] = FALSE]

RunReturns(c) == Goes(c, "returning", "done") /\ UNCHANGED running

-----------------------------------------------------------------------------
MainStep ==
    \/ SavePID \/ WatchSigTerm \/ ConstructServer
    \/ \E c \in Conns : AcceptHandler(c)
    \/ \E r \in Conns : CleanupResponders(r)
    \/ CleanupDone \/ Dispatch \/ PeerAcceptFails \/ PeerAccepts \/ MarkRunning
    \/ BoostSignalHandler \/ PollSigTerm \/ StopReturns \/ RemovePID
    \/ \E r \in Conns : DestroyResponder(r)
    \/ DestroyServer \/ Exit

ThreadStep(c) ==
    \/ Authenticates(c) \/ AuthenticationFails(c)
    \/ ReceiveRequest(c) \/ ReceiveFails(c)
    \/ HandleRequest(c) \/ HandleRequestFails(c)
    \/ ClearRunning(c) \/ RunReturns(c)

Environment ==
    \/ \E c \in Conns : Connect(c) \/ Vanish(c)
    \/ \E a \in Acceptors : AcceptHandlerError(a)
    \/ Kill \/ SigTermHandler

Next == MainStep \/ Environment \/ \E c \in Conns : ThreadStep(c)

(* What a thread does without waiting for its client.  Authenticate,       *)
(* Receive and Send may wait for a client for ever; they fail once it has  *)
(* gone and what it had sent is used up.                                   *)
Unblocked(c) ==
    \/ ClearRunning(c) \/ RunReturns(c)
    \/ /\ client[c] = "gone"
       /\ AuthenticationFails(c) \/ ReceiveFails(c) \/ HandleRequestFails(c)

(* The scheduler runs the main thread and every thread that can go on;     *)
(* _peer.Accept has timeouts.  Nothing is assumed of clients or signals.   *)
Fairness == WF_vars(MainStep) /\ \A c \in Conns : WF_vars(Unblocked(c))

Spec == Init /\ [][Next]_vars

FairSpec == Spec /\ Fairness

-----------------------------------------------------------------------------
(* No thread outlives its Responder: Run() uses _peer and _running of an   *)
(* object that the list, or the constructor still running, keeps alive.    *)
ThreadsOwned ==
    \A c \in Conns : thread[c] \in Joinable =>
        \/ c \in responders
        \/ main = "spawned" /\ c = conn

(* By the time the tries, the AS maps and the keys are destroyed no        *)
(* responder thread is left that could use them.                           *)
NoThreadAfterTeardown ==
    main = "teardown" => \A c \in Conns : thread[c] \notin Joinable

(* Only a connection admitted by ClientAllowed ever gets a thread, and it  *)
(* gets it after it left the backlog.                                      *)
OnlyAllowedServed ==
    \A c \in Conns : thread[c] # "none" => c \in Allowed /\ c \notin backlog

(* Join waits only for threads that are past their last blocking call: a   *)
(* listed responder whose _running is false is at most about to return.    *)
JoinNeverWaitsForClient ==
    \A c \in responders : ~running[c] => thread[c] \notin Serving

(* A responder that has finished and says so is erased by the walk that    *)
(* finds it.                                                               *)
FinishedIsErased ==
    \A c \in Conns :
        (/\ main = "cleanup" /\ c \in todo /\ c \in responders
         /\ thread[c] = "done" /\ ~running[c])
        ~> c \notin responders

(* A thread whose client has gone ends, without help from the main thread. *)
GoneClientEndsThread ==
    \A c \in Conns :
        client[c] = "gone" ~> (thread[c] \notin Serving \/ main \in Ended)

(* After SIGTERM the process ends, whatever the clients do.                *)
TermEndsProcess == (termPending \/ gotSigTerm) ~> main \in Ended

(* What Responder.hh says of Join: a thread that is joinable and done is   *)
(* joined by the visit.                                                    *)
JoinReapsDone ==
    [][\A r \in Conns :
          (/\ main = "cleanup" /\ r \in todo /\ r \notin todo'
           /\ thread[r] = "done")
          => thread'[r] = "joined"]_vars
=============================================================================
