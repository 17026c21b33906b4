------------------------- MODULE OriginClientProofs -------------------------
(***************************************************************************)
(* What GetOrigin accepts, for any number of objects, calls and ids and    *)
(* any behaviour of the network.  The datagrams about are genuine: their   *)
(* id is the number of their call modulo IdMod, and none belongs to a call *)
(* its object has yet to make.                                             *)
(***************************************************************************)
EXTENDS OriginClient, Integers, TLAPS

-----------------------------------------------------------------------------
(* Arithmetic modulo M.                                                    *)

(* What % and \div mean. *)
LEMMA DivMod ==
    ASSUME NEW M \in Nat \ {0}, NEW a \in Nat
    PROVE  a = M * (a \div M) + (a % M) /\ a \div M \in Nat /\ a % M \in 0 .. M - 1
BY SMTT(30)

(* Multiples of M are at least M apart. *)
LEMMA MultiplesApart ==
    ASSUME NEW M \in Nat \ {0}, NEW p \in Nat, NEW q \in Nat, p < q
    PROVE  M * p + M <= M * q
<1>1. PICK k \in Nat : q = p + 1 + k
  BY q - p - 1 \in Nat
<1>2. M * q = M * p + M + M * k
  BY <1>1
<1>3. M * k \in Nat /\ M * p \in Nat
  OBVIOUS
<1> QED
  BY <1>2, <1>3

(* The remainder is determined by the number. *)
LEMMA RemainderUnique ==
    ASSUME NEW M \in Nat \ {0}, NEW p \in Nat, NEW q \in Nat,
           NEW r \in 0 .. M - 1, NEW s \in 0 .. M - 1, M * p + r = M * q + s
    PROVE  r = s
<1>1. M * p \in Nat /\ M * q \in Nat
  OBVIOUS
<1>2. CASE p < q
  <2>1. M * p + M <= M * q
    BY <1>2, MultiplesApart
  <2> QED
    BY <1>1, <2>1
<1>3. CASE q < p
  <2>1. M * q + M <= M * p
    BY <1>3, MultiplesApart
  <2> QED
    BY <1>1, <2>1
<1>4. CASE p = q
  <2>1. M * p = M * q
    BY <1>4
  <2> QED
    BY <1>1, <2>1
<1> QED
  BY <1>2, <1>3, <1>4

(* Two numbers with the same remainder are at least M apart. *)
LEMMA SameRemainderApart ==
    ASSUME NEW M \in Nat \ {0}, NEW a \in Nat, NEW b \in Nat, a % M = b % M, a < b
    PROVE  b >= a + M
<1> DEFINE p == a \div M
           q == b \div M
           r == a % M
<1>1. a = M * p + r /\ p \in Nat /\ r \in 0 .. M - 1
  BY DivMod
<1>2. b = M * q + r /\ q \in Nat
  BY DivMod
<1> HIDE DEF p, q, r
<1>3. M * p \in Nat /\ M * q \in Nat
  BY <1>1, <1>2
<1>4. p < q
  <2>1. CASE q < p
    <3>1. M * q + M <= M * p
      BY <2>1, <1>1, <1>2, MultiplesApart
    <3> QED
      BY <3>1, <1>1, <1>2, <1>3
  <2>2. CASE p = q
    BY <2>2, <1>1, <1>2
  <2> QED
    BY <2>1, <2>2, <1>1, <1>2
<1>5. M * p + M <= M * q
  BY <1>4, <1>1, <1>2, MultiplesApart
<1> QED
  BY <1>5, <1>1, <1>2, <1>3

(* A counter that wraps keeps the remainder of an unbounded one. *)
LEMMA CounterWraps ==
    ASSUME NEW M \in Nat \ {0}, NEW a \in Nat
    PROVE  (a + 1) % M = ((a % M) + 1) % M
<1> DEFINE p == a \div M
           r == a % M
           q == (a + 1) \div M
           s == (a + 1) % M
           u == (r + 1) \div M
           v == (r + 1) % M
<1>1. a = M * p + r /\ p \in Nat /\ r \in 0 .. M - 1
  BY DivMod
<1>2. a + 1 \in Nat /\ r + 1 \in Nat
  BY <1>1
<1>3. a + 1 = M * q + s /\ q \in Nat /\ s \in 0 .. M - 1
  BY <1>2, DivMod
<1>4. r + 1 = M * u + v /\ u \in Nat /\ v \in 0 .. M - 1
  <2> HIDE DEF r
  <2> QED
    BY <1>2, DivMod
<1> SUFFICES s = v
  OBVIOUS
<1> HIDE DEF p, q, r, s, u, v
<1>5. M * p \in Nat /\ M * q \in Nat /\ M * u \in Nat
  BY <1>1, <1>3, <1>4
<1>6. M * (p + u) = M * p + M * u
  BY <1>1, <1>4
<1>7. M * q + s = M * (p + u) + v
  BY <1>1, <1>3, <1>4, <1>5, <1>6
<1> QED
  BY <1>7, <1>1, <1>3, <1>4, RemainderUnique

-----------------------------------------------------------------------------
(* The inductive invariant.                                                *)

(* A datagram of a call its object has made: either the last one, and then *)
(* it repeats that request, or an earlier one.                             *)
Genuine(m) ==
    /\ m \in Datagram
    /\ m.id = m.n % IdMod
    /\ request[m.client] \in Datagram
    /\ m.n <= request[m.client].n
    /\ m.n = request[m.client].n => m = request[m.client]

RequestsNumbered ==
    \A c \in Clients : request[c] \in Datagram =>
        /\ request[c].client = c
        /\ request[c].n < calls
        /\ request[c].id = request[c].n % IdMod

NumbersDiffer ==
    \A c, d \in Clients :
        c # d /\ request[c] \in Datagram /\ request[d] \in Datagram
        => request[c].n # request[d].n

InCall ==
    \A c \in Clients :
        /\ pc[c] # "idle" => request[c] \in Datagram
        /\ pc[c] = "read" => buffer[c] # <<>>

GenuineTo(c) == {m \in Datagram : Genuine(m) /\ m.client = c}

BuffersGenuine == \A c \in Clients : buffer[c] \in Seq(GenuineTo(c))

IInv ==
    /\ TypeOK
    /\ msgid = calls % IdMod
    /\ RequestsNumbered
    /\ NumbersDiffer
    /\ InCall
    /\ \A m \in requests \cup replies : Genuine(m)
    /\ BuffersGenuine
    /\ StaleAnswerNeedsWrap

USE OriginAssumption

LEMMA InitIInv == Init => IInv
<1> SUFFICES ASSUME Init PROVE IInv
  OBVIOUS
<1> USE DEF Init
<1>1. 0 % IdMod = 0
  <2>1. 0 = IdMod * (0 \div IdMod) + (0 % IdMod) /\ 0 \div IdMod \in Nat /\ 0 % IdMod \in 0 .. IdMod - 1
    BY DivMod
  <2>2. 0 = IdMod * 0 + 0 /\ 0 \in 0 .. IdMod - 1
    OBVIOUS
  <2> QED
    BY <2>1, <2>2, RemainderUnique
<1>2. TypeOK
  BY DEF TypeOK
<1>3. \A c \in Clients : request[c] = Nothing /\ buffer[c] = <<>> /\ pc[c] = "idle" /\ result[c] = Nothing
  OBVIOUS
<1> QED
  BY <1>1, <1>2, <1>3
     DEF IInv, RequestsNumbered, NumbersDiffer, InCall, BuffersGenuine, StaleAnswerNeedsWrap

(* Genuine datagrams stay so while no object makes a request. *)
LEMMA StillGenuine ==
    ASSUME NEW m, Genuine(m), UNCHANGED request
    PROVE  Genuine(m)'
BY DEF Genuine

LEMMA SameGenuineTo ==
    ASSUME NEW c \in Clients, UNCHANGED request
    PROVE  GenuineTo(c)' = GenuineTo(c)
BY DEF GenuineTo, Genuine

(* A new request is numbered after every datagram about. *)
LEMMA NewRequest ==
    ASSUME IInv, NEW c \in Clients, NEW a \in Addrs, GetOrigin(c, a)
    PROVE  /\ request'[c] = [client |-> c, n |-> calls, id |-> msgid, addr |-> a]
           /\ request'[c] \in Datagram
           /\ \A d \in Clients \ {c} : request'[d] = request[d]
           /\ calls \in Nat /\ calls' = calls + 1 /\ calls' \in 0 .. MaxCalls
           /\ msgid' = calls' % IdMod /\ msgid' \in 0 .. IdMod - 1
           /\ \A m : Genuine(m) => m.n < calls /\ Genuine(m)'
<1> DEFINE r == [client |-> c, n |-> calls, id |-> msgid, addr |-> a]
<1>1. calls \in Nat /\ calls < MaxCalls /\ msgid \in 0 .. IdMod - 1 /\ request \in [Clients -> Datagram \cup {Nothing}]
  BY DEF IInv, TypeOK, GetOrigin
<1>2. request' = [request EXCEPT ![c] = r] /\ calls' = calls + 1 /\ msgid' = (msgid + 1) % IdMod
  BY DEF GetOrigin
<1>3. r \in Datagram
  BY <1>1 DEF Datagram
<1>4. msgid' = calls' % IdMod
  BY <1>1, <1>2, CounterWraps DEF IInv
<1>5. msgid' \in 0 .. IdMod - 1
  <2>1. msgid + 1 \in Nat
    BY <1>1
  <2> QED
    BY <2>1, <1>2, DivMod
<1>6. ASSUME NEW m, Genuine(m) PROVE m.n < calls /\ Genuine(m)'
  <2>1. m \in Datagram /\ m.client \in Clients /\ m.n \in Nat /\ request[m.client] \in Datagram
    BY <1>6 DEF Genuine, Datagram
  <2>2. request[m.client].n \in Nat /\ request[m.client].n < calls
    BY <2>1 DEF Datagram, IInv, RequestsNumbered
  <2>3. m.n < calls
    BY <1>6, <1>1, <2>1, <2>2 DEF Genuine
  <2>4. CASE m.client = c
    <3>1. request'[m.client] = r
      BY <2>4, <1>1, <1>2
    <3>2. r.n = calls
      OBVIOUS
    <3>3. m.id = m.n % IdMod
      BY <1>6 DEF Genuine
    <3> HIDE DEF r
    <3>4. request'[m.client] \in Datagram /\ request'[m.client].n = calls
      BY <3>1, <3>2, <1>3
    <3>5. m.n <= request'[m.client].n /\ m.n # request'[m.client].n
      BY <3>4, <2>1, <2>3, <1>1
    <3> QED
      BY <3>3, <3>4, <3>5, <2>1, <2>3 DEF Genuine
  <2>5. CASE m.client # c
    <3>1. request'[m.client] = request[m.client]
      BY <2>5, <2>1, <1>1, <1>2
    <3> QED
      BY <3>1, <2>3, <1>6 DEF Genuine
  <2> QED
    BY <2>3, <2>4, <2>5
<1> QED
  BY <1>1, <1>2, <1>3, <1>4, <1>5, <1>6

LEMMA GetOriginIInv ==
    ASSUME IInv, NEW c \in Clients, NEW a \in Addrs, GetOrigin(c, a)
    PROVE  IInv'
<1>1. /\ request'[c] = [client |-> c, n |-> calls, id |-> msgid, addr |-> a]
      /\ request'[c] \in Datagram
      /\ \A d \in Clients \ {c} : request'[d] = request[d]
      /\ calls \in Nat /\ calls' = calls + 1 /\ calls' \in 0 .. MaxCalls
      /\ msgid' = calls' % IdMod /\ msgid' \in 0 .. IdMod - 1
      /\ \A m : Genuine(m) => m.n < calls /\ Genuine(m)'
  BY NewRequest
<1>2. /\ UNCHANGED <<requests, replies, buffer>>
      /\ pc' = [pc EXCEPT ![c] = "send"]
      /\ result' = [result EXCEPT ![c] = Nothing]
      /\ request' = [request EXCEPT ![c] = request'[c]]
  BY <1>1 DEF GetOrigin
<1>3. TypeOK'
  BY <1>1, <1>2 DEF TypeOK, IInv
<1>4. \A d \in Clients : request[d] \in Datagram => request[d].n \in Nat /\ request[d].n < calls
  BY DEF IInv, RequestsNumbered, Datagram
<1>5. RequestsNumbered'
  <2>1. ASSUME NEW d \in Clients, request'[d] \in Datagram
        PROVE  request'[d].client = d /\ request'[d].n < calls' /\ request'[d].id = request'[d].n % IdMod
    <3>1. CASE d = c
      BY <3>1, <1>1 DEF IInv
    <3>2. CASE d # c
      BY <3>2, <2>1, <1>1, <1>4 DEF IInv, RequestsNumbered
    <3> QED
      BY <3>1, <3>2
  <2> QED
    BY <2>1 DEF RequestsNumbered
<1>6. NumbersDiffer'
  <2>1. request'[c].n = calls
    BY <1>1
  <2>2. \A d \in Clients \ {c} : request'[d] \in Datagram => request'[d].n # calls
    BY <1>1, <1>4
  <2>3. \A d, e \in Clients \ {c} : d # e /\ request'[d] \in Datagram /\ request'[e] \in Datagram
                                   => request'[d].n # request'[e].n
    BY <1>1 DEF IInv, NumbersDiffer
  <2> QED
    BY <2>1, <2>2, <2>3 DEF NumbersDiffer
<1>7. InCall'
  <2>1. ASSUME NEW d \in Clients
        PROVE  (pc'[d] # "idle" => request'[d] \in Datagram) /\ (pc'[d] = "read" => buffer'[d] # <<>>)
    <3>1. CASE d = c
      BY <3>1, <1>1, <1>2 DEF IInv, TypeOK
    <3>2. CASE d # c
      BY <3>2, <1>1, <1>2 DEF IInv, TypeOK, InCall
    <3> QED
      BY <3>1, <3>2
  <2> QED
    BY <2>1 DEF InCall
<1>8. (\A m \in requests \cup replies : Genuine(m))'
  BY <1>1, <1>2 DEF IInv
<1>9. BuffersGenuine'
  <2>1. ASSUME NEW d \in Clients PROVE buffer[d] \in Seq(GenuineTo(d)')
    <3>1. GenuineTo(d) \subseteq GenuineTo(d)'
      BY <1>1 DEF GenuineTo
    <3>2. buffer[d] \in Seq(GenuineTo(d))
      BY DEF IInv, BuffersGenuine
    <3> QED
      BY <3>1, <3>2
  <2> QED
    BY <2>1, <1>2 DEF BuffersGenuine
<1>10. StaleAnswerNeedsWrap'
  <2>1. ASSUME NEW d \in Clients, result'[d] # Nothing
        PROVE  d # c /\ result'[d] = result[d] /\ request'[d] = request[d]
    BY <2>1, <1>1, <1>2 DEF IInv, TypeOK
  <2> QED
    BY <2>1 DEF IInv, StaleAnswerNeedsWrap
<1> QED
  BY <1>1, <1>3, <1>5, <1>6, <1>7, <1>8, <1>9, <1>10 DEF IInv

(* What the client reads is a response to it, of this call or of one at    *)
(* least IdMod calls ago if the id is the one it waits for.                *)
LEMMA RecvFromIInv ==
    ASSUME IInv, NEW c \in Clients, RecvFrom(c)
    PROVE  IInv'
<1> DEFINE m == Head(buffer[c])
<1>1. /\ UNCHANGED <<msgid, calls, request, requests, replies>>
      /\ pc' = [pc EXCEPT ![c] = "idle"]
      /\ buffer' = [buffer EXCEPT ![c] = Tail(@)]
      /\ result' = [result EXCEPT ![c] = IF m.id = request[c].id THEN m ELSE Nothing]
  BY DEF RecvFrom
<1>2. buffer[c] \in Seq(Datagram) /\ buffer[c] # <<>> /\ request[c] \in Datagram
  BY DEF RecvFrom, IInv, TypeOK, InCall
<1>3. /\ m \in Datagram
      /\ Tail(buffer[c]) \in Seq(Datagram) /\ Len(Tail(buffer[c])) = Len(buffer[c]) - 1
  BY <1>2
<1>4. Genuine(m) /\ m.client = c
  <2>1. buffer[c] \in Seq(GenuineTo(c))
    BY DEF IInv, BuffersGenuine
  <2>2. m \in GenuineTo(c)
    BY <2>1, <1>2
  <2> QED
    BY <2>2 DEF GenuineTo
<1> HIDE DEF m
<1>5. TypeOK'
  <2>1. result' \in [Clients -> Datagram \cup {Nothing}]
    BY <1>1, <1>3 DEF IInv, TypeOK
  <2>2. buffer' \in [Clients -> Seq(Datagram)] /\ \A d \in Clients : Len(buffer'[d]) <= BufLimit
    <3>1. Len(buffer[c]) \in Nat
      BY <1>2
    <3>2. Len(buffer[c]) - 1 <= BufLimit
      BY <3>1 DEF IInv, TypeOK
    <3> QED
      BY <3>2, <1>1, <1>3 DEF IInv, TypeOK
  <2>3. pc' \in [Clients -> {"idle", "send", "select", "read"}]
    BY <1>1 DEF IInv, TypeOK
  <2> QED
    BY <2>1, <2>2, <2>3, <1>1 DEF IInv, TypeOK
<1>6. RequestsNumbered' /\ NumbersDiffer'
  BY <1>1 DEF IInv, RequestsNumbered, NumbersDiffer
<1>7. InCall'
  BY <1>1, <1>2 DEF IInv, InCall, TypeOK
<1>8. (\A k \in requests \cup replies : Genuine(k))'
  BY <1>1, StillGenuine DEF IInv
<1>9. BuffersGenuine'
  <2>1. Tail(buffer[c]) \in Seq(GenuineTo(c))
    BY <1>2 DEF IInv, BuffersGenuine
  <2>2. \A d \in Clients : buffer'[d] \in Seq(GenuineTo(d))
    BY <2>1, <1>1 DEF IInv, TypeOK, BuffersGenuine
  <2> QED
    BY <2>2, <1>1, SameGenuineTo DEF BuffersGenuine
<1>10. StaleAnswerNeedsWrap'
  <2>1. ASSUME m.id = request[c].id
        PROVE  m = request[c] \/ request[c].n >= m.n + IdMod
    <3>1. m.n \in Nat /\ request[c].n \in Nat
      BY <1>2, <1>3 DEF Datagram
    <3>2. m.id = m.n % IdMod /\ m.n <= request[c].n /\ (m.n = request[c].n => m = request[c])
      BY <1>4 DEF Genuine
    <3>3. request[c].id = request[c].n % IdMod
      BY <1>2 DEF IInv, RequestsNumbered
    <3>4. CASE m.n < request[c].n
      BY <3>1, <3>2, <3>3, <3>4, <2>1, SameRemainderApart
    <3> QED
      BY <3>1, <3>2, <3>4
  <2>2. ASSUME NEW d \in Clients, result'[d] # Nothing
        PROVE  /\ result'[d].client = d
               /\ result'[d] = request'[d] \/ request'[d].n >= result'[d].n + IdMod
    <3>1. CASE d = c
      <4>1. result'[d] = m /\ m.id = request[c].id
        BY <3>1, <2>2, <1>1 DEF IInv, TypeOK
      <4> QED
        BY <4>1, <3>1, <2>1, <1>1, <1>4
    <3>2. CASE d # c
      BY <3>2, <2>2, <1>1 DEF IInv, TypeOK, StaleAnswerNeedsWrap
    <3> QED
      BY <3>1, <3>2
  <2> QED
    BY <2>2 DEF StaleAnswerNeedsWrap
<1> QED
  BY <1>1, <1>5, <1>6, <1>7, <1>8, <1>9, <1>10 DEF IInv

\* Appending one element to a sequence.
LEMMA AppendFacts ==
    ASSUME NEW S, NEW q \in Seq(S), NEW e \in S
    PROVE  /\ Append(q, e) \in Seq(S)
           /\ Append(q, e) # <<>>
           /\ Len(Append(q, e)) = Len(q) + 1
           /\ Len(q) \in Nat
<1>1. Len(q) \in Nat
  OBVIOUS
<1>2. Append(q, e) \in Seq(S)
  OBVIOUS
<1>3. Len(Append(q, e)) = Len(q) + 1
  OBVIOUS
<1>4. Append(q, e) # <<>>
  BY <1>1, <1>3
<1> QED
  BY <1>1, <1>2, <1>3, <1>4

LEMMA DeliverIInv ==
    ASSUME IInv, NEW m \in replies, Deliver(m)
    PROVE  IInv'
<1>1. Genuine(m) /\ m \in Datagram /\ m.client \in Clients
  BY DEF IInv, TypeOK, Datagram
<1>2. /\ UNCHANGED <<msgid, calls, pc, request, requests, replies, result>>
      /\ buffer' = [buffer EXCEPT ![m.client] = Append(@, m)]
      /\ Len(buffer[m.client]) < BufLimit
  BY DEF Deliver
<1>3. buffer[m.client] \in Seq(Datagram)
  BY <1>1 DEF IInv, TypeOK
<1>4. /\ Append(buffer[m.client], m) \in Seq(Datagram) /\ Append(buffer[m.client], m) # <<>>
      /\ Len(Append(buffer[m.client], m)) = Len(buffer[m.client]) + 1 /\ Len(buffer[m.client]) \in Nat
  BY <1>1, <1>3, AppendFacts
<1>5. TypeOK'
  <2>1. Len(buffer[m.client]) + 1 <= BufLimit
    BY <1>2, <1>4
  <2> QED
    BY <2>1, <1>1, <1>2, <1>4 DEF IInv, TypeOK
<1>6. RequestsNumbered' /\ NumbersDiffer' /\ StaleAnswerNeedsWrap'
  BY <1>2 DEF IInv, RequestsNumbered, NumbersDiffer, StaleAnswerNeedsWrap
<1>7. InCall'
  BY <1>1, <1>2, <1>4 DEF IInv, InCall, TypeOK
<1>8. (\A k \in requests \cup replies : Genuine(k))'
  BY <1>2, StillGenuine DEF IInv
<1>9. BuffersGenuine'
  <2>1. Append(buffer[m.client], m) \in Seq(GenuineTo(m.client))
    <3>1. buffer[m.client] \in Seq(GenuineTo(m.client))
      BY <1>1 DEF IInv, BuffersGenuine
    <3>2. m \in GenuineTo(m.client)
      BY <1>1 DEF GenuineTo
    <3> QED
      BY <3>1, <3>2
  <2>2. \A d \in Clients : buffer'[d] \in Seq(GenuineTo(d))
    BY <2>1, <1>1, <1>2 DEF IInv, TypeOK, BuffersGenuine
  <2> QED
    BY <2>2, <1>2, SameGenuineTo DEF BuffersGenuine
<1> QED
  BY <1>2, <1>5, <1>6, <1>7, <1>8, <1>9 DEF IInv

LEMMA RespondIInv ==
    ASSUME IInv, NEW m \in requests, RespondBinary(m)
    PROVE  IInv'
<1>1. /\ UNCHANGED <<msgid, calls, pc, request, requests, buffer, result>>
      /\ replies' = replies \cup {m}
  BY DEF RespondBinary
<1>2. (\A k \in requests \cup replies : Genuine(k))'
  BY <1>1, StillGenuine DEF IInv
<1>3. BuffersGenuine'
  BY <1>1, SameGenuineTo DEF IInv, BuffersGenuine
<1> QED
  BY <1>1, <1>2, <1>3 DEF IInv, TypeOK, RequestsNumbered, NumbersDiffer, InCall, StaleAnswerNeedsWrap

LEMMA SendRequestIInv ==
    ASSUME IInv, NEW c \in Clients, SendRequest(c)
    PROVE  IInv'
<1>1. /\ UNCHANGED <<msgid, calls, request, replies, buffer, result>>
      /\ requests' \subseteq requests \cup {request[c]}
      /\ pc' = [pc EXCEPT ![c] = "select"]
  BY DEF SendRequest
<1>2. request[c] \in Datagram /\ request[c].n \in Nat /\ request[c].client = c /\ request[c].id = request[c].n % IdMod
  BY DEF SendRequest, IInv, InCall, RequestsNumbered, Datagram
<1>3. Genuine(request[c])
  BY <1>2 DEF Genuine
<1>4. (\A k \in requests \cup replies : Genuine(k))'
  BY <1>1, <1>3, StillGenuine DEF IInv
<1>5. BuffersGenuine'
  BY <1>1, SameGenuineTo DEF IInv, BuffersGenuine
<1>6. TypeOK'
  BY <1>1, <1>2 DEF IInv, TypeOK
<1>7. InCall'
  BY <1>1, <1>2 DEF IInv, InCall, TypeOK
<1> QED
  BY <1>1, <1>4, <1>5, <1>6, <1>7 DEF IInv, RequestsNumbered, NumbersDiffer, StaleAnswerNeedsWrap

LEMMA SelectIInv ==
    ASSUME IInv, NEW c \in Clients, SelectFails(c) \/ SelectReady(c)
    PROVE  IInv'
<1>1. /\ UNCHANGED <<msgid, calls, request, requests, replies, buffer, result>>
      /\ pc[c] # "idle"
      /\ \/ pc' = [pc EXCEPT ![c] = "idle"]
         \/ buffer[c] # <<>> /\ pc' = [pc EXCEPT ![c] = "read"]
  BY DEF SelectFails, SelectReady
<1>2. TypeOK' /\ InCall'
  BY <1>1 DEF IInv, TypeOK, InCall
<1>3. (\A k \in requests \cup replies : Genuine(k))'
  BY <1>1, StillGenuine DEF IInv
<1>4. BuffersGenuine'
  BY <1>1, SameGenuineTo DEF IInv, BuffersGenuine
<1> QED
  BY <1>1, <1>2, <1>3, <1>4 DEF IInv, RequestsNumbered, NumbersDiffer, StaleAnswerNeedsWrap

LEMMA StutterIInv == IInv /\ UNCHANGED vars => IInv'
<1> SUFFICES ASSUME IInv, UNCHANGED vars PROVE IInv'
  OBVIOUS
<1>1. (\A k \in requests \cup replies : Genuine(k))'
  BY StillGenuine DEF IInv, vars
<1>2. BuffersGenuine'
  BY SameGenuineTo DEF IInv, BuffersGenuine, vars
<1> QED
  BY <1>1, <1>2 DEF vars, IInv, TypeOK, RequestsNumbered, NumbersDiffer, InCall, StaleAnswerNeedsWrap

LEMMA IInvInvariant == Spec => []IInv
<1>1. IInv /\ [Next]_vars => IInv'
  <2> SUFFICES ASSUME IInv, [Next]_vars PROVE IInv'
    OBVIOUS
  <2>1. CASE \E c \in Clients, a \in Addrs : GetOrigin(c, a)
    BY <2>1, GetOriginIInv
  <2>2. CASE \E c \in Clients : ClientStep(c)
    BY <2>2, SendRequestIInv, SelectIInv, RecvFromIInv DEF ClientStep
  <2>3. CASE \E m \in requests : RespondBinary(m)
    BY <2>3, RespondIInv
  <2>4. CASE \E m \in replies : Deliver(m)
    BY <2>4, DeliverIInv
  <2>5. CASE UNCHANGED vars
    BY <2>5, StutterIInv
  <2> QED
    BY <2>1, <2>2, <2>3, <2>4, <2>5 DEF Next
<1> QED
  BY <1>1, InitIInv, PTL DEF Spec

(* The state of the clients and of the network is as declared: the shared  *)
(* counter stays an id, no receive buffer overflows.                       *)
THEOREM OriginTypeCorrect == Spec => []TypeOK
BY IInvInvariant, PTL DEF IInv

(* Whatever the network loses, repeats, delays or reorders, GetOrigin      *)
(* returns true only with a response to this object, and to an earlier     *)
(* call of it only when IdMod calls or more have been made since.          *)
THEOREM OriginStaleNeedsWrap == Spec => []StaleAnswerNeedsWrap
BY IInvInvariant, PTL DEF IInv

(* Calls under way in different threads never share an id unless the ids   *)
(* have gone round between them.                                           *)
THEOREM OriginIdsDiffer == Spec => []ConcurrentIdsDiffer
<1>1. IInv => ConcurrentIdsDiffer
  BY DEF IInv, InCall, RequestsNumbered, NumbersDiffer, ConcurrentIdsDiffer
<1> QED
  BY <1>1, IInvInvariant, PTL
=============================================================================
