---------------------------- MODULE OriginClient ----------------------------
(***************************************************************************)
(* Origin lookups over UDP: the OriginServer objects of one client         *)
(* process, each used by a thread of its own, and the RespondBinary of     *)
(* mccurtaind that answers them.  All the objects draw the ids of their    *)
(* requests from one counter, OriginServer::_msgid.                        *)
(*                                                                         *)
(* A response repeats the address it answers, which stands for the whole   *)
(* OriginResponse.  The number `n' of a datagram is in no packet: it names *)
(* the call of GetOrigin the datagram belongs to, for the properties.      *)
(***************************************************************************)
EXTENDS Naturals, Sequences

CONSTANTS Clients,    \* the OriginServer objects
          Addrs,      \* the addresses they ask for
          Answered,   \* those find_matches finds a prefix for
          IdMod,      \* ids are 0 .. IdMod - 1: IdMod is 2^16 in the code
          MaxCalls,   \* bound: the calls of GetOrigin in a behaviour
          BufLimit,   \* datagrams a socket's receive buffer holds
          Nothing     \* GetOrigin has returned false, or not at all

Datagram == [client : Clients, n : Nat, id : 0 .. IdMod - 1, addr : Addrs]

ASSUME OriginAssumption ==
    /\ Answered \subseteq Addrs
    /\ IdMod \in Nat \ {0}
    /\ MaxCalls \in Nat
    /\ BufLimit \in Nat
    /\ Nothing \notin Datagram

VARIABLES
    msgid,      \* OriginServer::_msgid
    calls,      \* calls of GetOrigin made so far
    pc,         \* how far the call of each object is
    request,    \* the request each object built last
    requests,   \* datagrams sent to the server
    replies,    \* datagrams sent to the clients
    buffer,     \* datagrams in each object's socket
    result      \* the response each object's last call stored in its result

vars == <<msgid, calls, pc, request, requests, replies, buffer, result>>

TypeOK ==
    /\ msgid \in 0 .. IdMod - 1
    /\ calls \in 0 .. MaxCalls
    /\ pc \in [Clients -> {"idle", "send", "select", "read"}]
    /\ request \in [Clients -> Datagram \cup {Nothing}]
    /\ requests \subseteq Datagram
    /\ replies \subseteq Datagram
    /\ buffer \in [Clients -> Seq(Datagram)]
    /\ \A c \in Clients : Len(buffer[c]) <= BufLimit
    /\ result \in [Clients -> Datagram \cup {Nothing}]

Init ==
    /\ msgid = 0
    /\ calls = 0
    /\ pc = [c \in Clients |-> "idle"]
    /\ request = [c \in Clients |-> Nothing]
    /\ requests = {}
    /\ replies = {}
    /\ buffer = [c \in Clients |-> <<>>]
    /\ result = [c \in Clients |-> Nothing]

-----------------------------------------------------------------------------
(* OriginServer::GetOrigin.                                                *)

\* Mutant: the counter is read and not advanced.
GetOrigin_StuckId(c, a) ==
    /\ pc[c] = "idle"
    /\ calls < MaxCalls
    /\ request' = [request EXCEPT ![c] = [client |-> c, n |-> calls, id |-> msgid, addr |-> a]]
    /\ calls' = calls + 1
    /\ pc' = [pc EXCEPT ![c] = "send"]
    /\ result' = [result EXCEPT ![c] = Nothing]
    /\ UNCHANGED <<msgid, requests, replies, buffer>>

\* Mutant: the counter does not wrap.
GetOrigin_NoWrap(c, a) ==
    /\ pc[c] = "idle"
    /\ calls < MaxCalls
    /\ request' = [request EXCEPT ![c] = [client |-> c, n |-> calls, id |-> msgid, addr |-> a]]
    /\ msgid' = msgid + 1
    /\ calls' = calls + 1
    /\ pc' = [pc EXCEPT ![c] = "send"]
    /\ result' = [result EXCEPT ![c] = Nothing]
    /\ UNCHANGED <<requests, replies, buffer>>

(* The call draws its id: one atomic increment of a uint16_t. *)
GetOrigin(c, a) ==
    /\ pc[c] = "idle"
    /\ calls < MaxCalls
    /\ request' = [request EXCEPT ![c] = [client |-> c, n |-> calls, id |-> msgid, addr |-> a]]
    /\ msgid' = (msgid + 1) % IdMod
    /\ calls' = calls + 1
    /\ pc' = [pc EXCEPT ![c] = "send"]
    /\ result' = [result EXCEPT ![c] = Nothing]
    /\ UNCHANGED <<requests, replies, buffer>>

(* SendRequest turns SendTo's -1 into true: a request that could not be    *)
(* sent is waited for like one that was.                                   *)
SendRequest(c) ==
    /\ pc[c] = "send"
    /\ requests' \in {requests, requests \cup {request[c]}}
    /\ pc' = [pc EXCEPT ![c] = "select"]
    /\ UNCHANGED <<msgid, calls, request, replies, buffer, result>>

\* Mutant: select is given no timeout.
SelectFails_Never(c) == FALSE

(* RecvResponse: select runs into its 2 seconds, or is interrupted. *)
SelectFails(c) ==
    /\ pc[c] = "select"
    /\ pc' = [pc EXCEPT ![c] = "idle"]
    /\ UNCHANGED <<msgid, calls, request, requests, replies, buffer, result>>

SelectReady(c) ==
    /\ pc[c] = "select"
    /\ buffer[c] # <<>>
    /\ pc' = [pc EXCEPT ![c] = "read"]
    /\ UNCHANGED <<msgid, calls, request, requests, replies, buffer, result>>

\* Mutant: the id of the response is not looked at.
RecvFrom_AnyId(c) ==
    /\ pc[c] = "read"
    /\ result' = [result EXCEPT ![c] = Head(buffer[c])]
    /\ buffer' = [buffer EXCEPT ![c] = Tail(@)]
    /\ pc' = [pc EXCEPT ![c] = "idle"]
    /\ UNCHANGED <<msgid, calls, request, requests, replies>>

(* One datagram is read, and no other: GetOrigin returns true when it has  *)
(* the id of the request, false when it has not.  Nothing else is compared.*)
RecvFrom(c) ==
    /\ pc[c] = "read"
    /\ result' = [result EXCEPT ![c] = IF Head(buffer[c]).id = request[c].id
                                       THEN Head(buffer[c]) ELSE Nothing]
    /\ buffer' = [buffer EXCEPT ![c] = Tail(@)]
    /\ pc' = [pc EXCEPT ![c] = "idle"]
    /\ UNCHANGED <<msgid, calls, request, requests, replies>>

-----------------------------------------------------------------------------
(* UdpServer::RespondBinary and the network, which delivers a datagram any *)
(* number of times, at any time, or never.                                 *)

(* The response keeps the header of the request it answers; there is none  *)
(* for an address without a prefix.                                        *)
RespondBinary(m) ==
    /\ m \in requests
    /\ m.addr \in Answered
    /\ replies' = replies \cup {m}
    /\ UNCHANGED <<msgid, calls, pc, request, requests, buffer, result>>

(* A full receive buffer drops what arrives. *)
Deliver(m) ==
    /\ m \in replies
    /\ Len(buffer[m.client]) < BufLimit
    /\ buffer' = [buffer EXCEPT ![m.client] = Append(@, m)]
    /\ UNCHANGED <<msgid, calls, pc, request, requests, replies, result>>

-----------------------------------------------------------------------------
ClientStep(c) == SendRequest(c) \/ SelectFails(c) \/ SelectReady(c) \/ RecvFrom(c)

Next ==
    \/ \E c \in Clients, a \in Addrs : GetOrigin(c, a)
    \/ \E c \in Clients : ClientStep(c)
    \/ \E m \in requests : RespondBinary(m)
    \/ \E m \in replies : Deliver(m)

Spec == Init /\ [][Next]_vars

(* A thread in a call runs on, and the kernel ends its select; nothing is  *)
(* assumed of the network and the server.                                  *)
FairSpec == Spec /\ \A c \in Clients : WF_vars(ClientStep(c))

-----------------------------------------------------------------------------
(* Two calls under way in different threads use different ids unless they  *)
(* are a multiple of IdMod calls apart.                                    *)
ConcurrentIdsDiffer ==
    \A c, d \in Clients :
        (/\ c # d /\ pc[c] # "idle" /\ pc[d] # "idle"
         /\ request[c].id = request[d].id)
        => /\ request[c].n # request[d].n
           /\ request[c].n % IdMod = request[d].n % IdMod

(* GetOrigin returns true only with a response to a request of the same    *)
(* object, and, whatever the network does, to an earlier request only when *)
(* the ids have gone round since.                                          *)
StaleAnswerNeedsWrap ==
    \A c \in Clients : result[c] # Nothing =>
        /\ result[c].client = c
        /\ \/ result[c] = request[c]
           \/ request[c].n >= result[c].n + IdMod

(* GetOrigin always returns, without help from the server.                 *)
GetOriginReturns == \A c \in Clients : pc[c] # "idle" ~> pc[c] = "idle"
=============================================================================
