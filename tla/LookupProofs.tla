----------------------------- MODULE LookupProofs -----------------------------
(***************************************************************************)
(* Theorems about Lookup, from a question to what the user reads: what the *)
(* definitions that call themselves compute (the loads, asn.txt, messages  *)
(* written and read), what an answer holds, and the inductive invariant.   *)
(***************************************************************************)
EXTENDS Lookup, PrefixTrieLemmas

-----------------------------------------------------------------------------
(* The definitions that call themselves: what each computes at x when f is *)
(* what it computes elsewhere.                                             *)
Picked(S) == CHOOSE e \in S : TRUE

LoadStep(f, S) ==
    IF S = {} THEN EmptyTrie
    ELSE AddOrigins(f[S \ {Picked(S)}], Picked(S)[1], {Picked(S)[2]})

NamesStep(lines, f, k) ==
    IF k = 0 THEN [names |-> NoNames, status |-> "good"] ELSE LoadLine(f[k - 1], lines[k])

WriteStep(cells, f, i) == IF i > Len(cells) THEN <<>> ELSE cells[i] \o f[i + 1]

ReadOne(name, s) == IF name = "ases" THEN M!ReadAS(s) ELSE M!ReadPrefix(s)
TakeStep(name, s, f, k) ==
    IF k = 0 THEN M!Read(<<>>, s)
    ELSE LET one == ReadOne(name, f[k - 1].rest)
         IN  M!Read(Append(f[k - 1].value, one.value), one.rest)

Computed(name, a, f, x) ==
    IF name = "load" THEN LoadStep(f, x)
    ELSE IF name = "names" THEN NamesStep(a, f, x)
    ELSE IF name = "write" THEN WriteStep(a, f, x)
    ELSE TakeStep(name, a, f, x)

(* f is the recursive function.                                            *)
Computes(name, a, S, f) == f = [x \in S |-> Computed(name, a, f, x)]

(* What is computed at x depends only on what is computed at smaller ones. *)
Founded(name, a, S, m) ==
    \A f, g : \A x \in S :
        (\A y \in S : m[y] < m[x] => f[y] = g[y]) => Computed(name, a, f, x) = Computed(name, a, g, x)

(* Such a definition has a value on a finite measure.                      *)
LEMMA ComputesSome ==
    ASSUME NEW name, NEW a, NEW S, NEW m \in [S -> Nat], NEW N \in Nat,
           \A x \in S : m[x] < N, Founded(name, a, S, m)
    PROVE  \E f : Computes(name, a, S, f)
<1> DEFINE Agrees(f, k) == \A n \in S : m[n] < k => f[n] = Computed(name, a, f, n)
           T == {k \in Nat : \E f : DOMAIN f = S /\ Agrees(f, k)}
<1>1. 0 \in T
  <2> DEFINE f == [n \in S |-> n]
  <2>1. DOMAIN f = S /\ Agrees(f, 0)
    OBVIOUS
  <2> HIDE DEF f, Agrees
  <2> QED
    BY <2>1
<1>2. ASSUME NEW k \in Nat, k \in T PROVE k + 1 \in T
  <2>1. PICK f : DOMAIN f = S /\ Agrees(f, k)
    BY <1>2
  <2> DEFINE g == [n \in S |-> Computed(name, a, f, n)]
  <2>2. \A n \in S : m[n] < k => f[n] = g[n]
    BY <2>1
  <2>3. ASSUME NEW n \in S, m[n] < k + 1 PROVE g[n] = Computed(name, a, g, n)
    <3>1. g[n] = Computed(name, a, f, n)
      OBVIOUS
    <3> HIDE DEF g
    <3>2. \A y \in S : m[y] < m[n] => f[y] = g[y]
      BY <2>2, <2>3
    <3> QED
      BY <3>1, <3>2 DEF Founded
  <2>4. DOMAIN g = S
    OBVIOUS
  <2> HIDE DEF g
  <2>5. Agrees(g, k + 1)
    BY <2>3
  <2> HIDE DEF Agrees
  <2> QED
    BY <2>4, <2>5
<1> HIDE DEF T
<1>3. N \in T
  BY <1>1, <1>2, SetInduction
<1>4. PICK f : DOMAIN f = S /\ Agrees(f, N)
  BY <1>3 DEF T
<1> DEFINE g == [x \in S |-> Computed(name, a, f, x)]
<1>5. \A x \in S : f[x] = g[x]
  BY <1>4
<1>6. \A x \in S : Computed(name, a, f, x) = Computed(name, a, g, x)
  <2> HIDE DEF g
  <2> QED
    BY <1>5 DEF Founded
<1>7. Computes(name, a, S, g)
  BY <1>6 DEF Computes
<1> HIDE DEF g
<1> QED
  BY <1>7

(* A loop of so many rounds has a value for each.                          *)
LEMMA LoopComputes ==
    ASSUME NEW name, NEW a, NEW N \in Nat,
           \A f, g : \A k \in 0 .. N :
               (k > 0 => f[k - 1] = g[k - 1]) => Computed(name, a, f, k) = Computed(name, a, g, k)
    PROVE  \E f : Computes(name, a, 0 .. N, f)
<1> DEFINE S == 0 .. N
           m == [k \in S |-> k]
<1>1. m \in [S -> Nat] /\ (\A k \in S : m[k] < N + 1) /\ N + 1 \in Nat
  OBVIOUS
<1>2. Founded(name, a, S, m)
  <2> SUFFICES ASSUME NEW f, NEW g, NEW k \in S, \A y \in S : m[y] < m[k] => f[y] = g[y]
               PROVE  Computed(name, a, f, k) = Computed(name, a, g, k)
    BY DEF Founded
  <2>1. k > 0 => k - 1 \in S /\ m[k - 1] < m[k]
    OBVIOUS
  <2>2. k > 0 => f[k - 1] = g[k - 1]
    BY <2>1
  <2> QED
    BY <2>2
<1> HIDE DEF S, m
<1> DEFINE K == N + 1
<1>3. K \in Nat /\ \A k \in S : m[k] < K
  BY <1>1
<1> HIDE DEF K
<1>4. \E f : Computes(name, a, S, f)
  BY <1>1, <1>2, <1>3, ComputesSome
<1> QED
  BY <1>4 DEF S

-----------------------------------------------------------------------------
(* Loading.  What a trie says after it was loaded.                         *)
OriginsIn(pairs, p) == {as \in ASes : <<p, as>> \in pairs}

Tells(t, pairs) ==
    /\ Healthy(t)
    /\ \A p : p \in ValueNodes(t.node) <=> \E e \in pairs : e[1] = p
    /\ \A p \in ValueNodes(t.node) : t.node[p].value = OriginsIn(pairs, p)

(* An empty object tells nothing.                                          *)
LEMMA EmptyTells == Tells(EmptyTrie, {})
<1>1. ValueNodes(EmptyTrie.node) = {}
  BY DEF EmptyTrie, ValueNodes
<1> QED
  BY <1>1, EmptyHealthy DEF Tells

(* With one pair more.                                                     *)
LEMMA OneMoreTells ==
    ASSUME NEW t, NEW pairs, Tells(t, pairs), NEW e \in Prefixes \X ASes
    PROVE  Tells(AddOrigins(t, e[1], {e[2]}), pairs \cup {e})
<1> DEFINE p == e[1]
           v == {e[2]}
           u == AddOrigins(t, p, v)
<1>1. p \in Prefixes /\ v \in SUBSET ASes /\ e = <<p, e[2]>> /\ Healthy(t)
  BY DEF Tells
<1> HIDE DEF v, p
<1>2. /\ Keeps(t, u) /\ ValueNodes(u.node) = ValueNodes(t.node) \cup {p}
      /\ SameValues(t, u, p) /\ ValueIs(u.node, p, Joined(t, p, v))
  BY <1>1, AddOriginsKeeps, AddOriginsValues
<1> HIDE DEF u
<1>3. \A q : q \in ValueNodes(u.node) <=> \E d \in pairs \cup {e} : d[1] = q
  BY <1>2 DEF Tells, p
<1>4. u.node[p].value = OriginsIn(pairs \cup {e}, p)
  <2>1. OriginsIn(pairs \cup {e}, p) = v \cup OriginsIn(pairs, p)
    BY <1>1 DEF OriginsIn, v
  <2>2. CASE p \in ValueNodes(t.node)
    BY <1>2, <2>1, <2>2 DEF Tells, ValueIs, Joined
  <2>3. CASE p \notin ValueNodes(t.node)
    <3>1. OriginsIn(pairs, p) = {}
      BY <2>3 DEF Tells, OriginsIn
    <3> QED
      BY <1>2, <2>1, <2>3, <3>1 DEF ValueIs, Joined
  <2> QED
    BY <2>2, <2>3
<1>5. ASSUME NEW q \in ValueNodes(t.node), q # p
      PROVE  u.node[q].value = OriginsIn(pairs \cup {e}, q)
  <2>1. OriginsIn(pairs \cup {e}, q) = OriginsIn(pairs, q)
    BY <1>5, <1>1 DEF OriginsIn
  <2> QED
    BY <1>2, <1>5, <2>1 DEF Tells, SameValues
<1>6. \A q \in ValueNodes(u.node) : u.node[q].value = OriginsIn(pairs \cup {e}, q)
  BY <1>2, <1>4, <1>5
<1>7. Tells(u, pairs \cup {e})
  BY <1>2, <1>3, <1>6 DEF Tells, Keeps
<1> QED
  BY <1>7 DEF u, p, v

(* The loads insert every pair.                                            *)
LEMMA LoadTells ==
    ASSUME NEW pairs, pairs \subseteq Prefixes \X ASes, IsFiniteSet(pairs)
    PROVE  Tells(LoadPairs(pairs), pairs)
<1> DEFINE S == SUBSET pairs
           m == [x \in S |-> Cardinality(x)]
           E(f) == [x \in S |-> LoadStep(f, x)]
           d == CHOOSE f : f = E(f)
           T == {x \in S : Tells(d[x], x)}
           N == Cardinality(pairs) + 1
<1>1. LoadPairs(pairs) = d[pairs]
  BY DEF LoadPairs, LoadStep, Picked
<1>2. ASSUME NEW x \in S
      PROVE  /\ IsFiniteSet(x) /\ Cardinality(x) \in Nat
             /\ x # {} => /\ Picked(x) \in x
                          /\ x \ {Picked(x)} \in S
                          /\ Cardinality(x \ {Picked(x)}) < Cardinality(x)
  <2>1. IsFiniteSet(x) /\ Cardinality(x) \in Nat
    BY FS_Subset, FS_CardinalityType
  <2>2. x # {} => Picked(x) \in x
    BY DEF Picked
  <2>3. x # {} => Cardinality(x \ {Picked(x)}) = Cardinality(x) - 1
    BY <2>1, <2>2, FS_RemoveElement
  <2>4. x \ {Picked(x)} \in S
    OBVIOUS
  <2>5. \A n, k \in Nat : k = n - 1 => k < n
    OBVIOUS
  <2>6. Cardinality(x \ {Picked(x)}) \in Nat
    BY <2>1, FS_RemoveElement, FS_CardinalityType
  <2>7. x # {} => Cardinality(x \ {Picked(x)}) < Cardinality(x)
    BY <2>1, <2>3, <2>5, <2>6
  <2> QED
    BY <2>1, <2>2, <2>4, <2>7
<1>3. N \in Nat /\ Cardinality(pairs) \in Nat
  BY FS_CardinalityType
<1>4. \A x \in S : Cardinality(x) <= Cardinality(pairs)
  BY FS_Subset
<1>5. m \in [S -> Nat] /\ \A x \in S : m[x] = Cardinality(x)
  BY <1>2
<1> HIDE DEF m, S
<1>6. \A x \in S : m[x] < N
  BY <1>3, <1>4, <1>5
<1> HIDE DEF N
<1>7. \A f, x : Computed("load", pairs, f, x) = LoadStep(f, x)
  BY DEF Computed
<1>8. Founded("load", pairs, S, m)
  <2> SUFFICES ASSUME NEW f, NEW g, NEW x \in S, \A y \in S : m[y] < m[x] => f[y] = g[y]
               PROVE  LoadStep(f, x) = LoadStep(g, x)
    BY <1>7 DEF Founded
  <2>1. x # {} => f[x \ {Picked(x)}] = g[x \ {Picked(x)}]
    BY <1>2, <1>5
  <2> QED
    BY <2>1 DEF LoadStep
<1>9. \E f : Computes("load", pairs, S, f)
  BY <1>3, <1>5, <1>6, <1>8, ComputesSome DEF N
<1>10. \E f : f = E(f)
  BY <1>7, <1>9 DEF Computes
<1>11. d = E(d)
  BY <1>10
<1>12. \A x \in S : d[x] = LoadStep(d, x)
  BY <1>11
<1> HIDE DEF d
<1>13. ASSUME NEW x \in S, \A y \in S : m[y] < m[x] => y \in T PROVE x \in T
  <2>1. CASE x = {}
    BY <1>12, <2>1, EmptyTells DEF LoadStep
  <2>2. CASE x # {}
    <3> DEFINE e == Picked(x)
               y == x \ {Picked(x)}
    <3>1. e \in x /\ y \in S /\ m[y] < m[x] /\ x = y \cup {e}
      BY <1>2, <1>5, <2>2
    <3>2. Tells(d[y], y) /\ e \in Prefixes \X ASes
      BY <1>13, <3>1 DEF S
    <3>3. d[x] = AddOrigins(d[y], e[1], {e[2]})
      BY <1>12, <2>2 DEF LoadStep
    <3> HIDE DEF e, y
    <3>4. Tells(AddOrigins(d[y], e[1], {e[2]}), y \cup {e})
      BY <3>2, OneMoreTells
    <3> QED
      BY <3>1, <3>3, <3>4
  <2> QED
    BY <2>1, <2>2
<1> HIDE DEF T
<1>14. S \subseteq T
  BY <1>5, <1>13, MeasureInduction
<1>15. pairs \in S
  BY DEF S
<1> QED
  BY <1>1, <1>14, <1>15 DEF T

-----------------------------------------------------------------------------
(* The AS numbers of a prefix, in their order.                             *)
Ascends(s, S) ==
    /\ s \in [1 .. Cardinality(S) -> S]
    /\ \A i, j \in DOMAIN s : i < j => s[i] < s[j]

(* Finitely many numbers can be put in order.                              *)
LEMMA AscendsSome ==
    ASSUME NEW S \in SUBSET Nat, IsFiniteSet(S)
    PROVE  \E s : Ascends(s, S)
<1> DEFINE T == {n \in Nat : \A R0 \in SUBSET Nat :
                     IsFiniteSet(R0) /\ Cardinality(R0) = n => \E s : Ascends(s, R0)}
<1>1. 0 \in T
  <2> SUFFICES ASSUME NEW U \in SUBSET Nat, IsFiniteSet(U), Cardinality(U) = 0
               PROVE  \E s : Ascends(s, U)
    OBVIOUS
  <2>1. 1 .. 0 = {} /\ <<>> \in [1 .. 0 -> U] /\ DOMAIN <<>> = {}
    OBVIOUS
  <2>2. Ascends(<<>>, U)
    BY <2>1 DEF Ascends
  <2> QED
    BY <2>2
<1>2. ASSUME NEW n \in Nat, n \in T PROVE n + 1 \in T
  <2> SUFFICES ASSUME NEW U \in SUBSET Nat, IsFiniteSet(U), Cardinality(U) = n + 1
               PROVE  \E s : Ascends(s, U)
    OBVIOUS
  <2>1. U # {}
    BY FS_EmptySet
  <2>2. PICK least \in U : \A k \in U : least <= k
    BY <2>1, LeastElement
  <2> DEFINE W == U \ {least}
  <2>3. IsFiniteSet(W) /\ Cardinality(W) = Cardinality(U) - 1
    BY <2>2, FS_RemoveElement
  <2>4. Cardinality(W) = n /\ W \in SUBSET Nat
    BY <2>3
  <2>5. PICK s : Ascends(s, W)
    BY <1>2, <2>3, <2>4
  <2> DEFINE r == [i \in 1 .. n + 1 |-> IF i = 1 THEN least ELSE s[i - 1]]
  <2>6. s \in [1 .. n -> W] /\ \A i, j \in 1 .. n : i < j => s[i] < s[j]
    BY <2>4, <2>5 DEF Ascends
  <2>7. ASSUME NEW k \in W PROVE k \in U /\ least < k
    <3>1. k \in Nat /\ least \in Nat /\ least <= k /\ k # least
      BY <2>2
    <3> QED
      BY <3>1
  <2> HIDE DEF W
  <2>8. \A i \in 1 .. n + 1 : i = 1 \/ (i - 1 \in 1 .. n /\ s[i - 1] \in W)
    BY <2>6
  <2>9. r \in [1 .. n + 1 -> U]
    BY <2>2, <2>7, <2>8
  <2>10. ASSUME NEW i \in 1 .. n + 1, NEW j \in 1 .. n + 1, i < j PROVE r[i] < r[j]
    <3>1. j # 1 /\ j - 1 \in 1 .. n /\ r[j] = s[j - 1] /\ s[j - 1] \in W
      BY <2>8, <2>10
    <3>2. CASE i = 1
      BY <2>7, <3>1, <3>2
    <3>3. CASE i # 1
      BY <2>6, <2>8, <2>10, <3>1, <3>3
    <3> QED
      BY <3>2, <3>3
  <2>11. Ascends(r, U)
    BY <2>9, <2>10 DEF Ascends
  <2> QED
    BY <2>11
<1> HIDE DEF T
<1>3. Cardinality(S) \in T
  BY <1>1, <1>2, SetInduction, FS_CardinalityType
<1> QED
  BY <1>3 DEF T

(* Each of them once.                                                      *)
LEMMA AscendingIs ==
    ASSUME NEW S \in SUBSET Nat, IsFiniteSet(S)
    PROVE  /\ Ascending(S) \in Seq(S) /\ Len(Ascending(S)) \in Nat
           /\ \A i, j \in 1 .. Len(Ascending(S)) : i < j => Ascending(S)[i] < Ascending(S)[j]
           /\ \A x \in S : \E i \in 1 .. Len(Ascending(S)) : Ascending(S)[i] = x
<1> DEFINE s == Ascending(S)
           n == Cardinality(S)
<1>1. Ascends(s, S)
  <2>1. s = CHOOSE x \in [1 .. Cardinality(S) -> S] : \A i, j \in DOMAIN x : i < j => x[i] < x[j]
    BY DEF Ascending
  <2> HIDE DEF s
  <2>2. \E x \in [1 .. Cardinality(S) -> S] : \A i, j \in DOMAIN x : i < j => x[i] < x[j]
    BY AscendsSome DEF Ascends
  <2> QED
    BY <2>1, <2>2 DEF Ascends
<1>2. n \in Nat
  BY FS_CardinalityType
<1> HIDE DEF s
<1>3. s \in [1 .. n -> S] /\ \A i, j \in 1 .. n : i < j => s[i] < s[j]
  BY <1>1 DEF Ascends
<1>4. Cardinality(1 .. n) = n
  <2>1. 1 \in Int /\ n \in Int /\ Cardinality(1 .. n) = IF 1 > n THEN 0 ELSE n - 1 + 1
    BY <1>2, FS_Interval
  <2> HIDE DEF n
  <2> QED
    BY <1>2, <2>1
<1> HIDE DEF n
<1>5. s \in Injection(1 .. n, S)
  <2>1. ASSUME NEW i \in 1 .. n, NEW j \in 1 .. n, s[i] = s[j] PROVE i = j
    <3>1. s[i] \in S
      BY <1>3
    <3>2. s[i] \in Nat
      BY <3>1
    <3>3. i \in Int /\ j \in Int
      OBVIOUS
    <3> QED
      BY <1>3, <2>1, <3>2, <3>3
  <2> QED
    BY <1>3, <2>1 DEF Injection, IsInjective
<1>6. s \in Surjection(1 .. n, S)
  BY <1>4, <1>5, FS_Injection DEF n
<1>7. s \in Seq(S) /\ Len(s) = n
  BY <1>2, <1>3
<1> QED
  BY <1>2, <1>3, <1>6, <1>7 DEF Surjection, s

-----------------------------------------------------------------------------
(* What an answer about an address says.                                   *)
ASEntries == [countryCode : Countries, name : Nat]
NoCountry == {"", "--"}
ASRecords == [number : ASes, countryCode : Countries \cup NoCountry, name : Nat]
PrefixRecords == [prefix : Prefixes, ases : Seq(ASRecords)]

(* The table of asn.txt. *)
IsNames(names) == DOMAIN names \subseteq ASes /\ \A as \in DOMAIN names : names[as] \in ASEntries

(* An AS with its name, of which a datagram has a part.                    *)
Kept(n, cut) == IF cut THEN n % Byte ELSE n

NamedBy(as, names, cut) ==
    /\ as.number \in DOMAIN names => as.countryCode = names[as.number].countryCode
    /\ as.name = Kept(IF as.number \in DOMAIN names THEN names[as.number].name ELSE 0, cut)

(* Each AS of S once. *)
Lists(ases, S, names, cut) ==
    /\ ases \in Seq(ASRecords)
    /\ \A j, k \in 1 .. Len(ases) : j < k => ases[j].number < ases[k].number
    /\ \A x : x \in S <=> \E j \in 1 .. Len(ases) : ases[j].number = x
    /\ \A j \in 1 .. Len(ases) : NamedBy(ases[j], names, cut)

(* Each prefix of the pairs that covers address a, the widest first.       *)
Answers(entries, a, pairs, names, cut) ==
    /\ entries \in Seq(PrefixRecords)
    /\ \A i, j \in 1 .. Len(entries) : i < j => Len(entries[i].prefix) < Len(entries[j].prefix)
    /\ \A p : (\E i \in 1 .. Len(entries) : entries[i].prefix = p)
                  <=> (\E e \in pairs : e[1] = p) /\ Contains(p, a)
    /\ \A i \in 1 .. Len(entries) :
          Lists(entries[i].ases, OriginsIn(pairs, entries[i].prefix), names, cut)

(* What is said of an AS that asn.txt does not name.                       *)
Blank(unknown) == unknown.name = 0 /\ unknown.countryCode \in NoCountry

(* The server and the clients say nothing else of it.                      *)
LEMMA Blanks == Blank(Unnamed) /\ Blank(Dashes)
<1>1. Unnamed.name = 0 /\ Dashes.name = 0
  BY DEF Unnamed, Dashes
<1>2. Unnamed.countryCode \in NoCountry
  BY DEF Unnamed, NoCountry
<1>3. Dashes.countryCode \in NoCountry
  BY DEF Dashes, NoCountry
<1> QED
  BY <1>1, <1>2, <1>3 DEF Blank

(* An AS with its name.                                                    *)
LEMMA NamedIs ==
    ASSUME NEW as \in ASes, NEW names, IsNames(names), NEW unknown, Blank(unknown)
    PROVE  /\ Named(names, as, unknown) \in ASRecords
           /\ Named(names, as, unknown).number = as
           /\ NamedBy(Named(names, as, unknown), names, FALSE)
<1> DEFINE entry == IF as \in DOMAIN names THEN names[as] ELSE unknown
           r == Named(names, as, unknown)
<1>1. r = [number |-> as, countryCode |-> entry.countryCode, name |-> entry.name]
  BY DEF Named
<1>2. /\ as \in DOMAIN names => names[as].countryCode \in Countries /\ names[as].name \in Nat
  <2>1. as \in DOMAIN names => names[as] \in ASEntries
    BY DEF IsNames
  <2> QED
    BY <2>1 DEF ASEntries
<1> HIDE DEF r
<1>3. CASE as \in DOMAIN names
  <2>1. entry = names[as]
    BY <1>3
  <2>2. entry.countryCode \in Countries \cup NoCountry /\ entry.name \in Nat
    BY <1>2, <1>3, <2>1
  <2> HIDE DEF entry
  <2>3. r \in ASRecords /\ r.number = as /\ r.countryCode = entry.countryCode /\ r.name = entry.name
    BY <1>1, <2>2 DEF ASRecords
  <2>4. NamedBy(r, names, FALSE)
    BY <1>3, <2>1, <2>3 DEF NamedBy, Kept
  <2> QED
    BY <2>3, <2>4 DEF r
<1>4. CASE as \notin DOMAIN names
  <2>1. entry = unknown
    BY <1>4
  <2>2. entry.countryCode \in NoCountry /\ entry.name = 0
    BY <2>1 DEF Blank
  <2> HIDE DEF entry
  <2>5. entry.countryCode \in Countries \cup NoCountry
    BY <2>2
  <2>6. entry.name \in Nat
    BY <2>2
  <2>3. r \in ASRecords /\ r.number = as /\ r.name = entry.name
    BY <1>1, <2>5, <2>6 DEF ASRecords
  <2>4. NamedBy(r, names, FALSE)
    BY <1>4, <2>2, <2>3 DEF NamedBy, Kept
  <2> QED
    BY <2>3, <2>4 DEF r
<1> QED
  BY <1>3, <1>4

(* A function on the first numbers is a sequence.                          *)
LEMMA FunctionIsSeq ==
    ASSUME NEW S, NEW n \in Nat, NEW f \in [1 .. n -> S]
    PROVE  f \in Seq(S) /\ Len(f) = n
OBVIOUS

(* The ASes of one prefix.                                                 *)
LEMMA MatchLists ==
    ASSUME NEW t, NEW pairs, Tells(t, pairs), NEW p \in ValueNodes(t.node),
           NEW names, IsNames(names), NEW unknown, Blank(unknown)
    PROVE  /\ Match(t, p, names, unknown) \in PrefixRecords
           /\ Match(t, p, names, unknown).prefix = p
           /\ Lists(Match(t, p, names, unknown).ases, OriginsIn(pairs, p), names, FALSE)
<1> DEFINE S == OriginsIn(pairs, p)
           s == Ascending(S)
           ases == [i \in DOMAIN s |-> Named(names, s[i], unknown)]
           r == Match(t, p, names, unknown)
<1>1. t.node[p].value = S /\ p \in Prefixes
  BY ValueNodeFacts DEF Tells, Healthy
<1>2. r = [prefix |-> p, ases |-> ases]
  BY <1>1 DEF Match
<1>3. S \in SUBSET ASes /\ S \in SUBSET Nat /\ IsFiniteSet(S)
  <2>1. S \subseteq ASes
    BY DEF OriginsIn
  <2> HIDE DEF S
  <2>2. ASes \subseteq Nat /\ IsFiniteSet(ASes)
    BY LookupAssumption
  <2>3. IsFiniteSet(S)
    BY <2>1, <2>2, FS_Subset
  <2> QED
    BY <2>1, <2>2, <2>3
<1> HIDE DEF S
<1>4. /\ s \in Seq(S) /\ Len(s) \in Nat
      /\ \A i, j \in 1 .. Len(s) : i < j => s[i] < s[j]
      /\ \A x \in S : \E i \in 1 .. Len(s) : s[i] = x
  BY <1>3, AscendingIs
<1> HIDE DEF s
<1>5. DOMAIN s = 1 .. Len(s) /\ \A i \in 1 .. Len(s) : s[i] \in S /\ s[i] \in ASes
  <2>1. DOMAIN s = 1 .. Len(s)
    BY <1>4
  <2>2. ASSUME NEW i \in 1 .. Len(s) PROVE s[i] \in S
    BY <1>4, ElementOfSeq
  <2>3. \A x \in S : x \in ASes
    BY <1>3
  <2> QED
    BY <2>1, <2>2, <2>3
<1>6. ASSUME NEW i \in 1 .. Len(s)
      PROVE  ases[i] \in ASRecords /\ ases[i].number = s[i] /\ NamedBy(ases[i], names, FALSE)
  <2>1. ases[i] = Named(names, s[i], unknown)
    BY <1>5
  <2> QED
    BY <1>5, <2>1, NamedIs
<1>7. ases \in Seq(ASRecords) /\ Len(ases) = Len(s)
  <2>1. ases = [i \in 1 .. Len(s) |-> ases[i]]
    BY <1>5
  <2> HIDE DEF ases
  <2>2. \A i \in 1 .. Len(s) : ases[i] \in ASRecords
    BY <1>6
  <2>3. ases \in [1 .. Len(s) -> ASRecords]
    BY <2>1, <2>2
  <2>4. Len(s) \in Nat
    BY <1>4
  <2> QED
    BY <2>3, <2>4, FunctionIsSeq
<1> HIDE DEF ases
<1>8. Lists(ases, S, names, FALSE)
  <2>1. ASSUME NEW j \in 1 .. Len(ases), NEW k \in 1 .. Len(ases), j < k
        PROVE  ases[j].number < ases[k].number
    <3>1. j \in 1 .. Len(s) /\ k \in 1 .. Len(s)
      BY <1>7
    <3>2. ases[j].number = s[j] /\ ases[k].number = s[k]
      BY <1>6, <3>1
    <3>3. s[j] < s[k]
      BY <1>4, <2>1, <3>1
    <3> QED
      BY <3>2, <3>3
  <2>2. \A x : x \in S <=> \E j \in 1 .. Len(ases) : ases[j].number = x
    BY <1>4, <1>5, <1>6, <1>7
  <2>3. \A j \in 1 .. Len(ases) : NamedBy(ases[j], names, FALSE)
    BY <1>6, <1>7
  <2> QED
    BY <1>7, <2>1, <2>2, <2>3 DEF Lists
<1>9. r \in PrefixRecords /\ r.prefix = p /\ r.ases = ases
  BY <1>1, <1>2, <1>7 DEF PrefixRecords
<1> QED
  BY <1>8, <1>9 DEF S

(* What a loaded trie answers.                                             *)
LEMMA MatchesAnswer ==
    ASSUME NEW t, NEW pairs, Tells(t, pairs), NEW a \in Prefixes,
           NEW names, IsNames(names), NEW unknown, Blank(unknown)
    PROVE  Answers(MatchesOf(t, a, names, unknown), a, pairs, names, FALSE)
<1> DEFINE found == FindMatches(t, a)
           entries == MatchesOf(t, a, names, unknown)
<1>1. Rising(found, Covering(t, a))
  BY MatchesFound DEF FindMatches, Tells, Healthy
<1>2. entries = [i \in DOMAIN found |-> Match(t, found[i], names, unknown)]
  BY DEF MatchesOf
<1> HIDE DEF found, entries
<1>3. found \in Seq(Prefixes) /\ DOMAIN found = 1 .. Len(found) /\ Len(found) \in Nat
  BY <1>1, LenProperties DEF Rising
<1>4. \A p : (\E i \in 1 .. Len(found) : found[i] = p) <=> p \in ValueNodes(t.node) /\ Contains(p, a)
  BY <1>1 DEF Rising, Covering
<1>5. ASSUME NEW i \in 1 .. Len(found)
      PROVE  /\ entries[i] \in PrefixRecords /\ entries[i].prefix = found[i]
             /\ Lists(entries[i].ases, OriginsIn(pairs, found[i]), names, FALSE)
  <2>1. found[i] \in ValueNodes(t.node)
    BY <1>4
  <2>2. entries[i] = Match(t, found[i], names, unknown)
    BY <1>2, <1>3
  <2> DEFINE q == found[i]
  <2>3. q \in ValueNodes(t.node)
    BY <2>1
  <2> HIDE DEF q
  <2>4. /\ Match(t, q, names, unknown) \in PrefixRecords
        /\ Match(t, q, names, unknown).prefix = q
        /\ Lists(Match(t, q, names, unknown).ases, OriginsIn(pairs, q), names, FALSE)
    BY <2>3, MatchLists
  <2> QED
    BY <2>2, <2>4 DEF q
<1>6. entries \in Seq(PrefixRecords) /\ Len(entries) = Len(found)
  <2>1. entries = [i \in 1 .. Len(found) |-> entries[i]]
    BY <1>2, <1>3
  <2>2. \A i \in 1 .. Len(found) : entries[i] \in PrefixRecords
    BY <1>5
  <2>3. entries \in [1 .. Len(found) -> PrefixRecords]
    BY <2>1, <2>2
  <2>4. Len(found) \in Nat
    BY <1>3
  <2> QED
    BY <2>3, <2>4, FunctionIsSeq
<1>10. \A i \in 1 .. Len(found) : entries[i].prefix = found[i]
  BY <1>5
<1>7. ASSUME NEW i \in 1 .. Len(entries), NEW j \in 1 .. Len(entries), i < j
      PROVE  Len(entries[i].prefix) < Len(entries[j].prefix)
  <2>1. i \in 1 .. Len(found) /\ j \in 1 .. Len(found)
    BY <1>6
  <2>2. Len(found[i]) < Len(found[j])
    BY <1>1, <1>3, <1>7, <2>1 DEF Rising
  <2> QED
    BY <1>10, <2>1, <2>2
<1>8. ASSUME NEW p
      PROVE  (\E i \in 1 .. Len(entries) : entries[i].prefix = p)
                 <=> (\E e \in pairs : e[1] = p) /\ Contains(p, a)
  <2>1. (\E i \in 1 .. Len(entries) : entries[i].prefix = p) <=> (\E i \in 1 .. Len(found) : found[i] = p)
    BY <1>6, <1>10
  <2>2. p \in ValueNodes(t.node) <=> \E e \in pairs : e[1] = p
    BY DEF Tells
  <2> QED
    BY <1>4, <2>1, <2>2
<1>9. \A i \in 1 .. Len(entries) : Lists(entries[i].ases, OriginsIn(pairs, entries[i].prefix), names, FALSE)
  BY <1>5, <1>6
<1> QED
  BY <1>6, <1>7, <1>8, <1>9 DEF Answers, entries

(* The pairs of an answer.                                                 *)
LEMMA AnswerPairs ==
    ASSUME NEW entries, NEW a, NEW pairs, pairs \subseteq Prefixes \X ASes, NEW names, NEW cut,
           Answers(entries, a, pairs, names, cut)
    PROVE  OutPairs(entries) = {e \in pairs : Contains(e[1], a)}
<1>1. DOMAIN entries = 1 .. Len(entries)
  BY DEF Answers
<1>2. ASSUME NEW i \in 1 .. Len(entries)
      PROVE  /\ DOMAIN entries[i].ases = 1 .. Len(entries[i].ases)
             /\ \A x : (x \in ASes /\ <<entries[i].prefix, x>> \in pairs)
                           <=> \E j \in DOMAIN entries[i].ases : entries[i].ases[j].number = x
  BY DEF Answers, Lists, OriginsIn
<1>3. ASSUME NEW d \in OutPairs(entries) PROVE d \in pairs /\ Contains(d[1], a)
  <2>1. PICK i \in DOMAIN entries : d \in {<<entries[i].prefix, entries[i].ases[j].number>> :
                                               j \in DOMAIN entries[i].ases}
    BY <1>3 DEF OutPairs
  <2>2. PICK j \in DOMAIN entries[i].ases : d = <<entries[i].prefix, entries[i].ases[j].number>>
    BY <2>1
  <2>3. <<entries[i].prefix, entries[i].ases[j].number>> \in pairs
    BY <1>1, <1>2
  <2>4. Contains(entries[i].prefix, a)
    BY <1>1 DEF Answers
  <2> QED
    BY <2>2, <2>3, <2>4
<1>4. ASSUME NEW d \in pairs, Contains(d[1], a) PROVE d \in OutPairs(entries)
  <2>1. d = <<d[1], d[2]>> /\ d[2] \in ASes
    OBVIOUS
  <2>2. PICK i \in 1 .. Len(entries) : entries[i].prefix = d[1]
    BY <1>4 DEF Answers
  <2>3. PICK j \in DOMAIN entries[i].ases : entries[i].ases[j].number = d[2]
    BY <1>2, <2>1, <2>2
  <2>4. d = <<entries[i].prefix, entries[i].ases[j].number>>
    BY <2>1, <2>2, <2>3
  <2> QED
    BY <1>1, <2>4 DEF OutPairs
<1> QED
  BY <1>3, <1>4

-----------------------------------------------------------------------------
(* Messages.  What is read is what was written, but for the ends of long   *)
(* names.                                                                  *)
Cells == Nat \cup Countries \cup NoCountry \cup {"char"} \cup Prefixes \cup (Families \X Addresses)

CutAS(as) == [number |-> as.number, countryCode |-> as.countryCode, name |-> as.name % Byte]
CutASes(ases) == [j \in 1 .. Len(ases) |-> CutAS(ases[j])]
CutPrefix(pfx) == [prefix |-> pfx.prefix, ases |-> CutASes(pfx.ases)]
CutPrefixes(pfxs) == [i \in 1 .. Len(pfxs) |-> CutPrefix(pfxs[i])]

(* Reading goes on behind what was read.                                   *)
LEMMA SkipWritten ==
    ASSUME NEW x \in Seq(Cells), NEW y \in Seq(Cells)
    PROVE  M!Skip(x \o y, Len(x)) = y
<1> DEFINE s == x \o y
           n == Len(x)
           r == SubSeq(s, n + 1, Len(s))
<1>1. /\ n \in Nat /\ Len(y) \in Nat /\ Len(s) = n + Len(y) /\ s \in Seq(Cells)
      /\ \A i \in 1 .. n + Len(y) : s[i] = IF i <= n THEN x[i] ELSE y[i - n]
  BY ConcatProperties, LenProperties
<1> HIDE DEF s
<1>2. r = [i \in 1 .. Len(y) |-> s[i + n]]
  <2>1. Len(s) - (n + 1) + 1 = Len(y) /\ \A i \in 1 .. Len(y) : n + 1 + i - 1 = i + n
    BY <1>1
  <2> QED
    BY <1>1, <2>1, SubSeqProperties
<1>3. \A i \in 1 .. Len(y) : i + n \in 1 .. n + Len(y) /\ ~(i + n <= n) /\ (i + n) - n = i
  BY <1>1
<1>4. \A i \in 1 .. Len(y) : s[i + n] = y[i]
  BY <1>1, <1>3
<1>5. y = [i \in 1 .. Len(y) |-> y[i]]
  BY LenProperties
<1>6. r = y
  BY <1>2, <1>4, <1>5
<1> QED
  BY <1>6 DEF M!Skip, s

(* The beginning of what was written.                                      *)
LEMMA ReadWritten ==
    ASSUME NEW x \in Seq(Cells), NEW y \in Seq(Cells), NEW i \in 1 .. Len(x)
    PROVE  (x \o y)[i] = x[i]
<1>1. Len(x) \in Nat /\ Len(y) \in Nat /\ i \in 1 .. Len(x) + Len(y)
  BY LenProperties
<1> QED
  BY <1>1, ConcatProperties

(* A byte counts at least the prefixes of one address.                     *)
LEMMA ByteIs == Byte \in Nat /\ Width \in Nat /\ Byte > Width + 1 /\ Byte > 0
<1>1. Byte \in Nat /\ Byte > Width + 1
  BY LookupAssumption
<1>2. Width \in Nat
  BY TrieAssumption
<1> QED
  BY <1>1, <1>2

(* What a count wraps to.                                                  *)
LEMMA ModIs ==
    ASSUME NEW n \in Nat, NEW k \in Nat, k > 0
    PROVE  n % k \in Nat /\ (n < k => n % k = n)
OBVIOUS

(* An AS with a part of its name.                                          *)
LEMMA ASRecordIs ==
    ASSUME NEW as \in ASes, NEW cc \in Countries \cup NoCountry, NEW n \in Nat
    PROVE  [number |-> as, countryCode |-> cc, name |-> n] \in ASRecords
BY DEF ASRecords

(* It does not matter in how many steps a stream was written.              *)
LEMMA Associates ==
    ASSUME NEW x \in Seq(Cells), NEW y \in Seq(Cells), NEW z \in Seq(Cells)
    PROVE  (x \o y) \o z = x \o (y \o z)
BY ConcatAssociative

(* Three cells.                                                            *)
LEMMA ThreeCells ==
    ASSUME NEW x \in Cells, NEW y \in Cells, NEW z \in Cells
    PROVE  /\ <<x, y, z>> \in Seq(Cells) /\ Len(<<x, y, z>>) = 3
           /\ <<x, y, z>>[1] = x /\ <<x, y, z>>[2] = y /\ <<x, y, z>>[3] = z
OBVIOUS

(* An AS.                                                                  *)
LEMMA ReadWrittenAS ==
    ASSUME NEW as \in ASRecords, NEW tail \in Seq(Cells)
    PROVE  /\ M!WriteAS(as) \in Seq(Cells)
           /\ M!ReadAS(M!WriteAS(as) \o tail) = M!Read(CutAS(as), tail)
           /\ CutAS(as) \in ASRecords
<1> DEFINE n == as.name % Byte
           head == <<as.number, as.countryCode, n>>
           chars == M!Chars(n)
           x == M!WriteAS(as)
           s == x \o tail
<1>1. as.number \in ASes /\ as.countryCode \in Countries \cup NoCountry /\ as.name \in Nat
  BY DEF ASRecords
<1>2. n \in Nat
  BY <1>1, ByteIs, ModIs
<1>3. x = head \o chars
  BY DEF M!WriteAS
<1> HIDE DEF n
<1>4. as.number \in Cells /\ as.countryCode \in Cells /\ n \in Cells
  <2>1. ASes \subseteq Nat
    BY LookupAssumption
  <2>2. as.number \in Nat
    BY <1>1, <2>1
  <2> QED
    BY <1>1, <1>2, <2>2 DEF Cells
<1>14. "char" \in Cells
  BY DEF Cells
<1>5. chars \in Seq(Cells) /\ Len(chars) = n
  <2> DEFINE c == "char"
  <2>1. chars = [i \in 1 .. n |-> c]
    BY DEF M!Chars
  <2>2. c \in Cells
    BY <1>14
  <2> HIDE DEF c, chars
  <2>3. chars \in [1 .. n -> Cells]
    BY <2>1, <2>2
  <2> QED
    BY <1>2, <2>3, FunctionIsSeq
<1>6. head \in Seq(Cells) /\ Len(head) = 3 /\ head[1] = as.number /\ head[2] = as.countryCode /\ head[3] = n
  BY <1>4, ThreeCells
<1> HIDE DEF head, chars, x
<1>7. x \in Seq(Cells) /\ Len(x) = 3 + n /\ \A i \in 1 .. 3 : x[i] = head[i]
  <2>1. x \in Seq(Cells) /\ Len(x) = 3 + n
    <3>1. head \o chars \in Seq(Cells) /\ Len(head \o chars) = Len(head) + Len(chars)
      BY <1>5, <1>6, ConcatProperties
    <3> QED
      BY <1>3, <1>5, <1>6, <3>1
  <2>2. \A i \in 1 .. 3 : (head \o chars)[i] = head[i]
    BY <1>5, <1>6, ReadWritten
  <2> QED
    BY <1>3, <2>1, <2>2
<1>8. \A i \in 1 .. 3 : i \in 1 .. Len(x) /\ s[i] = x[i]
  <2>1. \A i \in 1 .. 3 : i \in 1 .. Len(x)
    BY <1>2, <1>7
  <2> QED
    BY <1>7, <2>1, ReadWritten
<1>9. s[1] = as.number /\ s[2] = as.countryCode /\ s[3] = n
  <2>1. 1 \in 1 .. 3 /\ 2 \in 1 .. 3 /\ 3 \in 1 .. 3
    OBVIOUS
  <2>2. \A i \in 1 .. 3 : s[i] = head[i]
    BY <1>7, <1>8
  <2> HIDE DEF s
  <2>3. s[1] = head[1] /\ s[2] = head[2] /\ s[3] = head[3]
    BY <2>1, <2>2
  <2> QED
    BY <1>6, <2>3
<1>10. M!Skip(s, 3 + n) = tail
  BY <1>7, SkipWritten
<1> HIDE DEF s
<1>11. M!ReadAS(s) = M!Read([number |-> as.number, countryCode |-> as.countryCode, name |-> n], tail)
  BY <1>9, <1>10 DEF M!ReadAS
<1>12. CutAS(as) = [number |-> as.number, countryCode |-> as.countryCode, name |-> n]
  BY DEF CutAS, n
<1>13. CutAS(as) \in ASRecords
  BY <1>1, <1>2, <1>12, ASRecordIs
<1> QED
  BY <1>7, <1>11, <1>12, <1>13 DEF x, s

(* A value that was read, and the cells behind it.                         *)
LEMMA ReadFields ==
    ASSUME NEW v, NEW r
    PROVE  M!Read(v, r).value = v /\ M!Read(v, r).rest = r
BY DEF M!Read

Behind(cells, w) == Computes("write", cells, 1 .. Len(cells) + 1, w)

(* A list is written from its end.                                         *)
LEMMA WrittenSome ==
    ASSUME NEW cells \in Seq(Seq(Cells))
    PROVE  \E w : Behind(cells, w)
<1> DEFINE n == Len(cells)
           S == 1 .. n + 1
           m == [i \in S |-> n + 1 - i]
           N == n + 1
<1>1. n \in Nat /\ N \in Nat
  BY LenProperties
<1> HIDE DEF n
<1>2. m \in [S -> Nat] /\ \A i \in S : m[i] < N
  BY <1>1
<1>3. Founded("write", cells, S, m)
  <2> SUFFICES ASSUME NEW f, NEW g, NEW i \in S, \A y \in S : m[y] < m[i] => f[y] = g[y]
               PROVE  Computed("write", cells, f, i) = Computed("write", cells, g, i)
    BY DEF Founded
  <2>1. \A h : Computed("write", cells, h, i) = WriteStep(cells, h, i)
    BY DEF Computed
  <2>2. ~(i > n) => i + 1 \in S /\ m[i + 1] < m[i]
    BY <1>1
  <2>3. ~(i > n) => f[i + 1] = g[i + 1]
    BY <2>2
  <2> HIDE DEF m, S
  <2>4. WriteStep(cells, f, i) = WriteStep(cells, g, i)
    BY <2>3 DEF WriteStep, n
  <2> QED
    BY <2>1, <2>4
<1> HIDE DEF S, m, N
<1>4. \E w : Computes("write", cells, S, w)
  BY <1>1, <1>2, <1>3, ComputesSome
<1> QED
  BY <1>4 DEF Behind, S, n

(* One after the other.                                                    *)
LEMMA WrittenIs ==
    ASSUME NEW cells \in Seq(Seq(Cells)), NEW w, Behind(cells, w)
    PROVE  /\ w[Len(cells) + 1] = <<>>
           /\ \A i \in 1 .. Len(cells) : w[i] = cells[i] \o w[i + 1]
           /\ \A i \in 1 .. Len(cells) + 1 : w[i] \in Seq(Cells)
<1> DEFINE n == Len(cells)
           T == {k \in Nat : k <= n => w[n + 1 - k] \in Seq(Cells)}
<1>1. n \in Nat /\ \A i \in 1 .. n : cells[i] \in Seq(Cells)
  BY LenProperties, ElementOfSeq
<1> HIDE DEF n
<1>2. \A i \in 1 .. n + 1 : w[i] = WriteStep(cells, w, i)
  BY DEF Behind, Computes, Computed, n
<1>3. n + 1 \in 1 .. n + 1 /\ n + 1 > n /\ \A i \in 1 .. n : i \in 1 .. n + 1 /\ ~(i > n)
  BY <1>1
<1>4. w[n + 1] = <<>>
  BY <1>2, <1>3 DEF WriteStep, n
<1>5. ASSUME NEW i \in 1 .. n PROVE w[i] = cells[i] \o w[i + 1]
  <2>1. w[i] = WriteStep(cells, w, i) /\ ~(i > n)
    BY <1>2, <1>3
  <2> QED
    BY <2>1 DEF WriteStep, n
<1>6. 0 \in T
  <2>1. n + 1 - 0 = n + 1 /\ <<>> \in Seq(Cells)
    BY <1>1
  <2> QED
    BY <1>4, <2>1
<1>7. ASSUME NEW k \in Nat, k \in T PROVE k + 1 \in T
  <2> SUFFICES ASSUME k + 1 <= n PROVE w[n + 1 - (k + 1)] \in Seq(Cells)
    OBVIOUS
  <2> DEFINE i == n + 1 - (k + 1)
  <2>1. i \in 1 .. n /\ i + 1 = n + 1 - k /\ k <= n
    BY <1>1
  <2>2. w[i + 1] \in Seq(Cells)
    BY <1>7, <2>1
  <2> HIDE DEF i
  <2>3. w[i] = cells[i] \o w[i + 1] /\ cells[i] \in Seq(Cells)
    BY <1>1, <1>5, <2>1
  <2>4. w[i] \in Seq(Cells)
    BY <2>2, <2>3, ConcatProperties
  <2> QED
    BY <2>4 DEF i
<1> HIDE DEF T
<1>8. \A k \in Nat : k \in T
  BY <1>6, <1>7, SetInduction
<1>9. ASSUME NEW i \in 1 .. n + 1 PROVE w[i] \in Seq(Cells)
  <2>1. n + 1 - i \in Nat /\ n + 1 - i <= n /\ n + 1 - (n + 1 - i) = i
    BY <1>1
  <2> QED
    BY <1>8, <2>1 DEF T
<1> QED
  BY <1>4, <1>5, <1>9 DEF n

(* Each of the list is read as in cut, and f is the loop that reads them.  *)
Reads(name, cells, cut) ==
    \A i \in 1 .. Len(cells) : \A r \in Seq(Cells) :
        ReadOne(name, cells[i] \o r) = M!Read(cut[i], r)
Takes(name, cells, w, tail, f) == Computes(name, w[1] \o tail, 0 .. Len(cells), f)

(* What was written of a list is taken from the stream.                    *)
LEMMA TakenIs ==
    ASSUME NEW name \in {"ases", "prefixes"}, NEW cells \in Seq(Seq(Cells)),
           NEW w, Behind(cells, w), NEW V, NEW cut \in Seq(V), Len(cut) = Len(cells),
           Reads(name, cells, cut), NEW tail \in Seq(Cells), NEW f, Takes(name, cells, w, tail, f)
    PROVE  f[Len(cells)] = M!Read(cut, tail)
<1> DEFINE n == Len(cells)
           s == w[1] \o tail
           Part0(k) == [j \in 1 .. k |-> cut[j]]
           T == {k \in Nat : k <= n => f[k] = M!Read(Part0(k), w[k + 1] \o tail)}
<1>1. n \in Nat /\ \A i \in 1 .. n : cells[i] \in Seq(Cells) /\ cut[i] \in V
  BY LenProperties, ElementOfSeq
<1>2. /\ w[n + 1] = <<>>
      /\ \A i \in 1 .. n : w[i] = cells[i] \o w[i + 1]
      /\ \A i \in 1 .. n + 1 : w[i] \in Seq(Cells)
  BY WrittenIs
<1> HIDE DEF n, s
<1>3. ASSUME NEW k \in 0 .. n PROVE f[k] = TakeStep(name, s, f, k)
  BY DEF Takes, Computes, Computed, s, n
<1>4. 0 \in T
  <2>1. f[0] = M!Read(<<>>, s) /\ 0 + 1 = 1
    BY <1>1, <1>3 DEF TakeStep
  <2>2. Part0(0) = <<>>
    OBVIOUS
  <2> QED
    BY <2>1, <2>2 DEF s
<1>5. ASSUME NEW k \in Nat, k \in T PROVE k + 1 \in T
  <2> SUFFICES ASSUME k + 1 <= n PROVE f[k + 1] = M!Read(Part0(k + 1), w[k + 1 + 1] \o tail)
    OBVIOUS
  <2> DEFINE i == k + 1
             rest == w[i + 1] \o tail
  <2>1. i \in 1 .. n /\ i \in 0 .. n /\ i # 0 /\ i - 1 = k /\ k <= n /\ i + 1 \in 1 .. n + 1
    BY <1>1
  <2>2. f[k] = M!Read(Part0(k), w[i] \o tail)
    BY <1>5, <2>1
  <2>3. Append(Part0(k), cut[i]) = Part0(i)
    <3>1. Part0(k) \in Seq(V) /\ Len(Part0(k)) = k
      BY <1>1, <2>1
    <3>2. cut[i] \in V
      BY <1>1, <2>1
    <3> DEFINE a == Append(Part0(k), cut[i])
               b == Part0(i)
    <3>3. a \in Seq(V) /\ Len(a) = k + 1 /\ a[k + 1] = cut[i] /\ \A j \in 1 .. k : a[j] = Part0(k)[j]
      BY <3>1, <3>2, AppendProperties
    <3>4. b \in Seq(V) /\ Len(b) = k + 1
      BY <1>1, <2>1
    <3>5. \A j \in 1 .. k + 1 : a[j] = b[j]
      BY <3>3
    <3> HIDE DEF a, b
    <3>6. a = b
      BY <3>3, <3>4, <3>5, SeqEqual
    <3> QED
      BY <3>6 DEF a, b
  <2> HIDE DEF i, Part0
  <2>4. w[i + 1] \in Seq(Cells) /\ cells[i] \in Seq(Cells) /\ w[i] = cells[i] \o w[i + 1]
    BY <1>1, <1>2, <2>1
  <2>5. rest \in Seq(Cells) /\ w[i] \o tail = cells[i] \o rest
    <3>1. rest \in Seq(Cells)
      BY <2>4, ConcatProperties
    <3>2. (cells[i] \o w[i + 1]) \o tail = cells[i] \o (w[i + 1] \o tail)
      <4> DEFINE x == cells[i]
                 y == w[i + 1]
      <4>1. x \in Seq(Cells) /\ y \in Seq(Cells)
        BY <2>4
      <4> HIDE DEF x, y
      <4>2. (x \o y) \o tail = x \o (y \o tail)
        BY <4>1, Associates
      <4> QED
        BY <4>2 DEF x, y
    <3> QED
      BY <2>4, <3>1, <3>2
  <2> HIDE DEF rest
  <2>6. ReadOne(name, cells[i] \o rest) = M!Read(cut[i], rest)
    BY <2>1, <2>5 DEF Reads, n
  <2>7. f[k].rest = cells[i] \o rest /\ f[k].value = Part0(k)
    <3> DEFINE y == cells[i] \o rest
               v == Part0(k)
    <3>1. f[k] = M!Read(v, y)
      BY <2>2, <2>5
    <3> HIDE DEF v, y
    <3>2. f[k].rest = y /\ f[k].value = v
      BY <3>1, ReadFields
    <3> QED
      BY <3>2 DEF v, y
  <2>8. f[i] = TakeStep(name, s, f, i)
    BY <1>3, <2>1
  <2>9. f[i] = M!Read(Append(f[k].value, cut[i]), rest)
    <3> DEFINE one == ReadOne(name, f[k].rest)
    <3>1. f[i] = M!Read(Append(f[k].value, one.value), one.rest)
      BY <2>1, <2>8 DEF TakeStep
    <3>2. one = M!Read(cut[i], rest)
      BY <2>6, <2>7
    <3> HIDE DEF one
    <3>3. one.value = cut[i] /\ one.rest = rest
      BY <3>2, ReadFields
    <3> QED
      BY <3>1, <3>3
  <2>10. f[i] = M!Read(Part0(i), w[i + 1] \o tail)
    BY <2>3, <2>7, <2>9 DEF rest
  <2> QED
    BY <2>10 DEF i
<1> HIDE DEF T
<1>6. n \in T
  BY <1>1, <1>4, <1>5, SetInduction
<1>7. f[n] = M!Read(Part0(n), w[n + 1] \o tail)
  BY <1>1, <1>6 DEF T
<1>8. Part0(n) = cut
  BY DEF n
<1>9. w[n + 1] \o tail = tail
  BY <1>2, ConcatEmptySeq
<1> QED
  BY <1>7, <1>8, <1>9 DEF n

(* The loops that read a list.                                             *)
LEMMA TakenSome ==
    ASSUME NEW name \in {"ases", "prefixes"}, NEW s, NEW n \in Nat
    PROVE  \E f : Computes(name, s, 0 .. n, f)
<1>1. \A f, k : Computed(name, s, f, k) = TakeStep(name, s, f, k)
  BY DEF Computed
<1>2. ASSUME NEW f, NEW g, NEW k \in 0 .. n, k > 0 => f[k - 1] = g[k - 1]
      PROVE  Computed(name, s, f, k) = Computed(name, s, g, k)
  <2>1. k = 0 \/ k > 0
    OBVIOUS
  <2>2. TakeStep(name, s, f, k) = TakeStep(name, s, g, k)
    BY <1>2, <2>1 DEF TakeStep
  <2> QED
    BY <1>1, <2>2
<1> QED
  BY <1>2, LoopComputes

(* A list of ASes.                                                         *)
LEMMA ReadWrittenASes ==
    ASSUME NEW ases \in Seq(ASRecords), NEW tail \in Seq(Cells)
    PROVE  /\ M!WriteASes(ases) \in Seq(Cells)
           /\ M!ReadASes(Len(ases), M!WriteASes(ases) \o tail) = M!Read(CutASes(ases), tail)
           /\ CutASes(ases) \in Seq(ASRecords) /\ Len(CutASes(ases)) = Len(ases)
<1> DEFINE n == Len(ases)
           cells == [i \in 1 .. n |-> M!WriteAS(ases[i])]
           cut == CutASes(ases)
           E(f) == [i \in 1 .. n + 1 |-> IF i > n THEN <<>> ELSE M!WriteAS(ases[i]) \o f[i + 1]]
           w == CHOOSE f : f = E(f)
           s == M!WriteASes(ases) \o tail
           F(f) == [k \in 0 .. n |->
                       IF k = 0 THEN M!Read(<<>>, s)
                       ELSE M!Read(Append(f[k - 1].value, M!ReadAS(f[k - 1].rest).value),
                                   M!ReadAS(f[k - 1].rest).rest)]
           d == CHOOSE f : f = F(f)
<1>1. n \in Nat /\ \A i \in 1 .. n : ases[i] \in ASRecords
  BY LenProperties, ElementOfSeq
<1>2. M!WriteASes(ases) = w[1]
  BY DEF M!WriteASes
<1> HIDE DEF s
<1>3. M!ReadASes(n, s) = d[n]
  BY DEF M!ReadASes
<1> HIDE DEF n
<1>4. \A i \in 1 .. n : /\ M!WriteAS(ases[i]) \in Seq(Cells) /\ CutAS(ases[i]) \in ASRecords
                        /\ \A r \in Seq(Cells) :
                              M!ReadAS(M!WriteAS(ases[i]) \o r) = M!Read(CutAS(ases[i]), r)
  BY <1>1, ReadWrittenAS
<1>5. cells \in Seq(Seq(Cells)) /\ Len(cells) = n
  BY <1>1, <1>4
<1>6. cut \in Seq(ASRecords) /\ Len(cut) = n /\ \A i \in 1 .. n : cut[i] = CutAS(ases[i])
  BY <1>1, <1>4 DEF CutASes, n
<1>8. \A i \in 1 .. n : cells[i] = M!WriteAS(ases[i])
  OBVIOUS
<1> HIDE DEF cells
<1>7. ASSUME NEW f PROVE Computes("write", cells, 1 .. Len(cells) + 1, f) <=> f = E(f)
  <2>1. \A i : Computed("write", cells, f, i) = WriteStep(cells, f, i)
    BY DEF Computed
  <2>2. \A i \in 1 .. n + 1 : WriteStep(cells, f, i) = IF i > n THEN <<>> ELSE M!WriteAS(ases[i]) \o f[i + 1]
    BY <1>1, <1>5, <1>8 DEF WriteStep
  <2>3. [i \in 1 .. n + 1 |-> Computed("write", cells, f, i)] = E(f)
    BY <2>1, <2>2
  <2> HIDE DEF E
  <2> QED
    BY <1>5, <2>3 DEF Computes
<1> HIDE DEF E, cut
<1>9. Behind(cells, w)
  BY <1>5, <1>7, WrittenSome DEF Behind
<1> HIDE DEF w
<1>10. w[1] \in Seq(Cells)
  <2>1. \A i \in 1 .. Len(cells) + 1 : w[i] \in Seq(Cells)
    BY <1>5, <1>9, WrittenIs
  <2>2. 1 \in 1 .. Len(cells) + 1
    BY <1>1, <1>5
  <2> QED
    BY <2>1, <2>2
<1>11. \A f : Computes("ases", s, 0 .. n, f) <=> f = F(f)
  BY DEF Computes, Computed, TakeStep, ReadOne
<1> HIDE DEF F
<1>12. Computes("ases", s, 0 .. n, d)
  BY <1>1, <1>11, TakenSome
<1> HIDE DEF d
<1>13. \A i \in 1 .. n : \A r \in Seq(Cells) : ReadOne("ases", cells[i] \o r) = M!Read(cut[i], r)
  BY <1>4, <1>6, <1>8 DEF ReadOne
<1>14. s = w[1] \o tail
  BY <1>2 DEF s
<1>15. d[n] = M!Read(cut, tail)
  <2> DEFINE name == "ases"
  <2>1. name \in {"ases", "prefixes"}
    OBVIOUS
  <2>2. Reads(name, cells, cut)
    BY <1>5, <1>13 DEF Reads
  <2>3. Takes(name, cells, w, tail, d)
    BY <1>5, <1>12, <1>14 DEF Takes
  <2>4. Len(cut) = Len(cells)
    BY <1>5, <1>6
  <2> HIDE DEF name
  <2>5. d[Len(cells)] = M!Read(cut, tail)
    BY <1>5, <1>6, <1>9, <2>1, <2>2, <2>3, <2>4, TakenIs
  <2> QED
    BY <1>5, <2>5
<1> QED
  BY <1>2, <1>3, <1>6, <1>10, <1>15 DEF n, s, cut

(* A prefix with its ASes.                                                 *)
LEMMA ReadWrittenPrefix ==
    ASSUME NEW pfx \in PrefixRecords, NEW tail \in Seq(Cells)
    PROVE  /\ M!WritePrefix(pfx) \in Seq(Cells)
           /\ M!ReadPrefix(M!WritePrefix(pfx) \o tail) = M!Read(CutPrefix(pfx), tail)
           /\ CutPrefix(pfx) \in PrefixRecords
<1> DEFINE head == <<pfx.prefix, Len(pfx.ases)>>
           x == M!WriteASes(pfx.ases)
           s == M!WritePrefix(pfx) \o tail
           n == Len(pfx.ases)
<1>1. pfx.prefix \in Prefixes /\ pfx.ases \in Seq(ASRecords) /\ n \in Nat
  BY LenProperties DEF PrefixRecords
<1>2. /\ x \in Seq(Cells)
      /\ M!ReadASes(n, x \o tail) = M!Read(CutASes(pfx.ases), tail)
      /\ CutASes(pfx.ases) \in Seq(ASRecords)
  BY <1>1, ReadWrittenASes
<1>3. M!WritePrefix(pfx) = head \o x
  BY DEF M!WritePrefix
<1>4. head \in Seq(Cells) /\ Len(head) = 2 /\ head[1] = pfx.prefix /\ head[2] = n
  BY <1>1 DEF Cells
<1> HIDE DEF head, x
<1>5. s = head \o (x \o tail) /\ head \o x \in Seq(Cells) /\ x \o tail \in Seq(Cells)
  <2>1. (head \o x) \o tail = head \o (x \o tail)
    BY <1>2, <1>4, Associates
  <2>2. head \o x \in Seq(Cells)
    BY <1>2, <1>4, ConcatProperties
  <2>3. x \o tail \in Seq(Cells)
    BY <1>2, ConcatProperties
  <2> QED
    BY <1>3, <2>1, <2>2, <2>3
<1> HIDE DEF s
<1>6. s[1] = pfx.prefix /\ s[2] = n /\ M!Skip(s, 2) = x \o tail
  <2>1. 1 \in 1 .. Len(head) /\ 2 \in 1 .. Len(head)
    BY <1>4
  <2>2. s[1] = head[1] /\ s[2] = head[2]
    BY <1>4, <1>5, <2>1, ReadWritten
  <2>3. M!Skip(s, Len(head)) = x \o tail
    BY <1>4, <1>5, SkipWritten
  <2> QED
    BY <1>4, <2>2, <2>3
<1>7. M!ReadPrefix(s) = M!Read([prefix |-> pfx.prefix, ases |-> CutASes(pfx.ases)], tail)
  <2> DEFINE ases == M!ReadASes(s[2], M!Skip(s, 2))
  <2>1. M!ReadPrefix(s) = M!Read([prefix |-> s[1], ases |-> ases.value], ases.rest)
    BY DEF M!ReadPrefix
  <2>2. ases = M!Read(CutASes(pfx.ases), tail)
    BY <1>2, <1>6
  <2> HIDE DEF ases
  <2>3. ases.value = CutASes(pfx.ases) /\ ases.rest = tail
    BY <2>2, ReadFields
  <2> QED
    BY <1>6, <2>1, <2>3
<1>8. CutPrefix(pfx) \in PrefixRecords
  BY <1>1, <1>2 DEF CutPrefix, PrefixRecords
<1> QED
  BY <1>3, <1>5, <1>7, <1>8 DEF CutPrefix, s

(* A list of prefixes.                                                     *)
LEMMA ReadWrittenPrefixes ==
    ASSUME NEW pfxs \in Seq(PrefixRecords), NEW tail \in Seq(Cells)
    PROVE  /\ M!WritePrefixes(pfxs) \in Seq(Cells)
           /\ M!ReadPrefixes(Len(pfxs), M!WritePrefixes(pfxs) \o tail) = M!Read(CutPrefixes(pfxs), tail)
           /\ CutPrefixes(pfxs) \in Seq(PrefixRecords) /\ Len(CutPrefixes(pfxs)) = Len(pfxs)
<1> DEFINE n == Len(pfxs)
           cells == [i \in 1 .. n |-> M!WritePrefix(pfxs[i])]
           cut == CutPrefixes(pfxs)
           E(f) == [i \in 1 .. n + 1 |-> IF i > n THEN <<>> ELSE M!WritePrefix(pfxs[i]) \o f[i + 1]]
           w == CHOOSE f : f = E(f)
           s == M!WritePrefixes(pfxs) \o tail
           F(f) == [k \in 0 .. n |->
                       IF k = 0 THEN M!Read(<<>>, s)
                       ELSE M!Read(Append(f[k - 1].value, M!ReadPrefix(f[k - 1].rest).value),
                                   M!ReadPrefix(f[k - 1].rest).rest)]
           d == CHOOSE f : f = F(f)
<1>1. n \in Nat /\ \A i \in 1 .. n : pfxs[i] \in PrefixRecords
  BY LenProperties, ElementOfSeq
<1>2. M!WritePrefixes(pfxs) = w[1]
  BY DEF M!WritePrefixes
<1> HIDE DEF s
<1>3. M!ReadPrefixes(n, s) = d[n]
  BY DEF M!ReadPrefixes
<1> HIDE DEF n
<1>4. \A i \in 1 .. n : /\ M!WritePrefix(pfxs[i]) \in Seq(Cells) /\ CutPrefix(pfxs[i]) \in PrefixRecords
                        /\ \A r \in Seq(Cells) :
                              M!ReadPrefix(M!WritePrefix(pfxs[i]) \o r) = M!Read(CutPrefix(pfxs[i]), r)
  BY <1>1, ReadWrittenPrefix
<1>5. cells \in Seq(Seq(Cells)) /\ Len(cells) = n
  BY <1>1, <1>4
<1>6. cut \in Seq(PrefixRecords) /\ Len(cut) = n /\ \A i \in 1 .. n : cut[i] = CutPrefix(pfxs[i])
  BY <1>1, <1>4 DEF CutPrefixes, n
<1>8. \A i \in 1 .. n : cells[i] = M!WritePrefix(pfxs[i])
  OBVIOUS
<1> HIDE DEF cells
<1>7. ASSUME NEW f PROVE Computes("write", cells, 1 .. Len(cells) + 1, f) <=> f = E(f)
  <2>1. \A i : Computed("write", cells, f, i) = WriteStep(cells, f, i)
    BY DEF Computed
  <2>2. \A i \in 1 .. n + 1 : WriteStep(cells, f, i) = IF i > n THEN <<>> ELSE M!WritePrefix(pfxs[i]) \o f[i + 1]
    BY <1>1, <1>5, <1>8 DEF WriteStep
  <2>3. [i \in 1 .. n + 1 |-> Computed("write", cells, f, i)] = E(f)
    BY <2>1, <2>2
  <2> HIDE DEF E
  <2> QED
    BY <1>5, <2>3 DEF Computes
<1> HIDE DEF E, cut
<1>9. Behind(cells, w)
  BY <1>5, <1>7, WrittenSome DEF Behind
<1> HIDE DEF w
<1>10. w[1] \in Seq(Cells)
  <2>1. \A i \in 1 .. Len(cells) + 1 : w[i] \in Seq(Cells)
    BY <1>5, <1>9, WrittenIs
  <2>2. 1 \in 1 .. Len(cells) + 1
    BY <1>1, <1>5
  <2> QED
    BY <2>1, <2>2
<1>11. \A f : Computes("prefixes", s, 0 .. n, f) <=> f = F(f)
  BY DEF Computes, Computed, TakeStep, ReadOne
<1> HIDE DEF F
<1>12. Computes("prefixes", s, 0 .. n, d)
  BY <1>1, <1>11, TakenSome
<1> HIDE DEF d
<1>13. \A i \in 1 .. n : \A r \in Seq(Cells) : ReadOne("prefixes", cells[i] \o r) = M!Read(cut[i], r)
  BY <1>4, <1>6, <1>8 DEF ReadOne
<1>14. s = w[1] \o tail
  BY <1>2 DEF s
<1>15. d[n] = M!Read(cut, tail)
  <2> DEFINE name == "prefixes"
  <2>1. name \in {"ases", "prefixes"}
    OBVIOUS
  <2>2. Reads(name, cells, cut)
    BY <1>5, <1>13 DEF Reads
  <2>3. Takes(name, cells, w, tail, d)
    BY <1>5, <1>12, <1>14 DEF Takes
  <2>4. Len(cut) = Len(cells)
    BY <1>5, <1>6
  <2> HIDE DEF name
  <2>5. d[Len(cells)] = M!Read(cut, tail)
    BY <1>5, <1>6, <1>9, <2>1, <2>2, <2>3, <2>4, TakenIs
  <2> QED
    BY <1>5, <2>5
<1> QED
  BY <1>2, <1>3, <1>6, <1>10, <1>15 DEF n, s, cut

Responses == [request : Families \X Addresses, prefixes : Seq(PrefixRecords)]
CutResponse(resp) == [request |-> resp.request, prefixes |-> CutPrefixes(resp.prefixes)]

(* A response, unless it has more prefixes than a byte counts.             *)
LEMMA ReadWrittenResponse ==
    ASSUME NEW resp \in Responses, Len(resp.prefixes) < Byte
    PROVE  /\ M!WriteResponse(resp) \in Seq(Cells)
           /\ Len(M!WriteResponse(resp)) >= 2
           /\ M!ReadResponse(M!WriteResponse(resp)).value = CutResponse(resp)
           /\ CutResponse(resp) \in Responses
<1> DEFINE n == Len(resp.prefixes)
           head == <<resp.request, n>>
           x == M!WritePrefixes(resp.prefixes)
           s == M!WriteResponse(resp)
<1>1. resp.request \in Families \X Addresses /\ resp.prefixes \in Seq(PrefixRecords) /\ n \in Nat
  BY LenProperties DEF Responses
<1>2. n % Byte = n
  BY <1>1, ByteIs, ModIs
<1>3. <<>> \in Seq(Cells)
  OBVIOUS
<1>4. /\ x \in Seq(Cells)
      /\ M!ReadPrefixes(n, x \o <<>>) = M!Read(CutPrefixes(resp.prefixes), <<>>)
      /\ CutPrefixes(resp.prefixes) \in Seq(PrefixRecords)
  BY <1>1, <1>3, ReadWrittenPrefixes
<1>5. s = head \o x
  BY <1>2 DEF M!WriteResponse
<1>6. head \in Seq(Cells) /\ Len(head) = 2 /\ head[1] = resp.request /\ head[2] = n
  BY <1>1 DEF Cells
<1> HIDE DEF head, x, s
<1>7. s \in Seq(Cells) /\ Len(s) >= 2
  <2>1. s \in Seq(Cells) /\ Len(s) = Len(head) + Len(x) /\ Len(x) \in Nat
    BY <1>4, <1>5, <1>6, ConcatProperties, LenProperties
  <2> QED
    BY <1>6, <2>1
<1>8. s[1] = resp.request /\ s[2] = n /\ M!Skip(s, 2) = x
  <2>1. 1 \in 1 .. Len(head) /\ 2 \in 1 .. Len(head)
    BY <1>6
  <2>2. s[1] = head[1] /\ s[2] = head[2]
    BY <1>4, <1>5, <1>6, <2>1, ReadWritten
  <2>3. M!Skip(s, Len(head)) = x
    BY <1>4, <1>5, <1>6, SkipWritten
  <2> QED
    BY <1>6, <2>2, <2>3
<1>9. x \o <<>> = x
  BY <1>4, ConcatEmptySeq
<1>10. M!ReadResponse(s).value = [request |-> resp.request, prefixes |-> CutPrefixes(resp.prefixes)]
  BY <1>4, <1>8, <1>9, ReadFields DEF M!ReadResponse
<1>11. CutResponse(resp) \in Responses
  BY <1>1, <1>4 DEF CutResponse, Responses
<1> QED
  BY <1>7, <1>10, <1>11 DEF s, CutResponse

-----------------------------------------------------------------------------
(* The bits of the flags.                                                  *)
Flag(v, t, b, r) == 2048 * v + 256 * t + 128 * b + r
UpTo(n) == 0 .. n
IsFlags(f) == \E v \in UpTo(31), t \in UpTo(7), b \in UpTo(1), r \in UpTo(127) : f = Flag(v, t, b, r)

(* The numbers up to one.                                                  *)
LEMMA UpToIs == \A n \in Nat : \A x : x \in UpTo(n) <=> x \in Int /\ 0 <= x /\ x <= n
BY DEF UpTo

(* One more.                                                               *)
LEMMA FlagNext ==
    ASSUME NEW v \in UpTo(31), NEW t \in UpTo(7), NEW b \in UpTo(1), NEW r \in UpTo(127),
           Flag(v, t, b, r) < 65535
    PROVE  IsFlags(Flag(v, t, b, r) + 1)
<1>1. /\ v \in Int /\ t \in Int /\ b \in Int /\ r \in Int
      /\ v <= 31 /\ t <= 7 /\ b <= 1 /\ r <= 127
      /\ 0 <= v /\ 0 <= t /\ 0 <= b /\ 0 <= r
  BY UpToIs
<1>0. 0 \in UpTo(7) /\ 0 \in UpTo(1) /\ 1 \in UpTo(1) /\ 0 \in UpTo(127)
  BY UpToIs
<1>2. CASE r < 127
  <2>1. r + 1 \in UpTo(127)
    BY <1>1, <1>2, UpToIs
  <2>2. Flag(v, t, b, r) + 1 = Flag(v, t, b, r + 1)
    BY <1>1, <1>2 DEF Flag
  <2> QED
    BY <2>1, <2>2 DEF IsFlags
<1>3. CASE r = 127 /\ b = 0
  <2>1. Flag(v, t, b, r) + 1 = Flag(v, t, 1, 0)
    BY <1>1, <1>3 DEF Flag
  <2> QED
    BY <1>0, <2>1 DEF IsFlags
<1>4. CASE r = 127 /\ b = 1 /\ t < 7
  <2>1. t + 1 \in UpTo(7)
    BY <1>1, <1>4, UpToIs
  <2>2. Flag(v, t, b, r) + 1 = Flag(v, t + 1, 0, 0)
    BY <1>1, <1>4 DEF Flag
  <2> QED
    BY <1>0, <2>1, <2>2 DEF IsFlags
<1>5. CASE r = 127 /\ b = 1 /\ t = 7
  <2>1. v < 31
    BY <1>1, <1>5 DEF Flag
  <2>2. v + 1 \in UpTo(31)
    BY <1>1, <2>1, UpToIs
  <2>3. Flag(v, t, b, r) + 1 = Flag(v + 1, 0, 0, 0)
    BY <1>1, <1>5, <2>1 DEF Flag
  <2> QED
    BY <1>0, <2>2, <2>3 DEF IsFlags
<1>6. (r < 127) \/ (r = 127 /\ b = 0) \/ (r = 127 /\ b = 1 /\ t < 7) \/ (r = 127 /\ b = 1 /\ t = 7)
  BY <1>1
<1> QED
  BY <1>2, <1>3, <1>4, <1>5, <1>6

(* Sixteen bits are a version, a type, a bit and seven more.               *)
LEMMA FlagSome ==
    ASSUME NEW f \in UpTo(65535)
    PROVE  IsFlags(f)
<1> DEFINE T == {n \in Nat : n <= 65535 => IsFlags(n)}
<1>1. 0 \in T
  <2>1. 0 = Flag(0, 0, 0, 0)
    BY DEF Flag
  <2>2. 0 \in UpTo(31) /\ 0 \in UpTo(7) /\ 0 \in UpTo(1) /\ 0 \in UpTo(127)
    BY UpToIs
  <2>3. IsFlags(0)
    BY <2>1, <2>2 DEF IsFlags
  <2> QED
    BY <2>3
<1>2. ASSUME NEW n \in Nat, n \in T PROVE n + 1 \in T
  <2>1. ASSUME n + 1 <= 65535 PROVE IsFlags(n + 1)
    <3>1. n < 65535 /\ IsFlags(n)
      BY <1>2, <2>1
    <3>2. PICK v \in UpTo(31), t \in UpTo(7), b \in UpTo(1), r \in UpTo(127) : n = Flag(v, t, b, r)
      BY <3>1 DEF IsFlags
    <3> QED
      BY <3>1, <3>2, FlagNext
  <2> QED
    BY <2>1
<1> HIDE DEF T
<1>3. f \in Nat /\ f <= 65535
  BY UpToIs
<1>4. f \in T
  BY <1>1, <1>2, <1>3, SetInduction
<1> QED
  BY <1>3, <1>4 DEF T

(* What is read of them, and set in them.                                  *)
LEMMA FlagNumbers ==
    ASSUME NEW v \in UpTo(31), NEW t \in UpTo(7), NEW b \in UpTo(1), NEW r \in UpTo(127)
    PROVE  /\ Flag(v, t, b, r) \in Int /\ 0 <= Flag(v, t, b, r) /\ Flag(v, t, b, r) <= 65535
           /\ Flag(v, t, b, r) \div 2048 = v
           /\ Flag(v, t, b, r) % 2048 = 256 * t + 128 * b + r
           /\ (Flag(v, t, b, r) \div 256) % 8 = t
           /\ (Flag(v, t, b, r) \div 128) % 2 = b
<1> DEFINE f == Flag(v, t, b, r)
<1>1. /\ v \in Int /\ t \in Int /\ b \in Int /\ r \in Int
      /\ v <= 31 /\ t <= 7 /\ b <= 1 /\ r <= 127
      /\ 0 <= v /\ 0 <= t /\ 0 <= b /\ 0 <= r
  BY UpToIs
<1>2. f = 2048 * v + 256 * t + 128 * b + r /\ f \in Int /\ 0 <= f /\ f <= 65535
  BY <1>1 DEF Flag
<1>3. ASSUME NEW x \in Int, NEW y \in Int, 0 <= y, y < 2048
      PROVE  (2048 * x + y) \div 2048 = x /\ (2048 * x + y) % 2048 = y
  BY <1>3
<1>4. ASSUME NEW x \in Int, NEW y \in Int, 0 <= y, y < 256
      PROVE  (256 * x + y) \div 256 = x
  BY <1>4
<1>5. ASSUME NEW x \in Int, NEW y \in Int, 0 <= y, y < 128
      PROVE  (128 * x + y) \div 128 = x
  BY <1>5
<1> HIDE DEF f
<1>6. f \div 2048 = v /\ f % 2048 = 256 * t + 128 * b + r
  <2> DEFINE y == 256 * t + 128 * b + r
  <2>1. y \in Int /\ 0 <= y /\ y < 2048 /\ f = 2048 * v + y
    BY <1>1, <1>2
  <2> HIDE DEF y
  <2>2. f \div 2048 = v /\ f % 2048 = y
    BY <1>1, <1>3, <2>1
  <2> QED
    BY <2>2 DEF y
<1>8. f \div 256 = 8 * v + t
  <2> DEFINE x == 8 * v + t
             y == 128 * b + r
  <2>1. x \in Int /\ y \in Int /\ 0 <= y /\ y < 256 /\ f = 256 * x + y
    BY <1>1, <1>2
  <2> HIDE DEF x, y
  <2>2. f \div 256 = x
    BY <1>4, <2>1
  <2> QED
    BY <2>2 DEF x
<1>9. (8 * v + t) % 8 = t
  BY <1>1
<1>11. f \div 128 = 16 * v + 2 * t + b
  <2> DEFINE x == 16 * v + 2 * t + b
  <2>1. x \in Int /\ r < 128 /\ f = 128 * x + r
    BY <1>1, <1>2
  <2> HIDE DEF x
  <2>2. f \div 128 = x
    BY <1>1, <1>5, <2>1
  <2> QED
    BY <2>2 DEF x
<1>12. (16 * v + 2 * t + b) % 2 = b
  BY <1>1
<1>13. (f \div 256) % 8 = t /\ (f \div 128) % 2 = b
  BY <1>8, <1>9, <1>11, <1>12
<1> QED
  BY <1>2, <1>6, <1>13 DEF f

(* The version and the type.                                               *)
LEMMA FlagRead ==
    ASSUME NEW v \in UpTo(31), NEW t \in UpTo(7), NEW b \in UpTo(1), NEW r \in UpTo(127)
    PROVE  /\ Flag(v, t, b, r) \in UpTo(65535)
           /\ M!Version(Flag(v, t, b, r)) = v
           /\ M!Type(Flag(v, t, b, r)) = t
<1>1. Flag(v, t, b, r) \in UpTo(65535)
  BY FlagNumbers, UpToIs
<1>2. M!Version(Flag(v, t, b, r)) = v
  BY FlagNumbers DEF M!Version
<1>3. M!Type(Flag(v, t, b, r)) = t
  BY FlagNumbers DEF M!Type
<1> QED
  BY <1>1, <1>2, <1>3

(* Another version.                                                        *)
LEMMA FlagSetVersion ==
    ASSUME NEW v \in UpTo(31), NEW t \in UpTo(7), NEW b \in UpTo(1), NEW r \in UpTo(127),
           NEW x \in UpTo(31)
    PROVE  M!SetVersion(Flag(v, t, b, r), x) = Flag(x, t, b, r)
<1>1. x \in Int /\ 0 <= x /\ x <= 31 /\ t \in Int /\ b \in Int /\ r \in Int
  BY UpToIs
<1>2. x % 32 = x
  BY <1>1
<1>3. M!SetVersion(Flag(v, t, b, r), x) = (256 * t + 128 * b + r) + x * 2048
  BY <1>2, FlagNumbers DEF M!SetVersion
<1> QED
  BY <1>1, <1>3 DEF Flag

(* Another type.                                                           *)
LEMMA FlagSetType ==
    ASSUME NEW v \in UpTo(31), NEW t \in UpTo(7), NEW b \in UpTo(1), NEW r \in UpTo(127),
           NEW x \in UpTo(7)
    PROVE  M!SetType(Flag(v, t, b, r), x) = Flag(v, x, b, r)
<1>1. x \in Int /\ v \in Int /\ t \in Int /\ b \in Int /\ r \in Int
  BY UpToIs
<1>2. M!SetType(Flag(v, t, b, r), x) = Flag(v, t, b, r) - 256 * t + 256 * x
  BY FlagRead DEF M!SetType
<1> QED
  BY <1>1, <1>2 DEF Flag

(* The bit set or cleared.                                                 *)
LEMMA FlagSetTruncated ==
    ASSUME NEW v \in UpTo(31), NEW t \in UpTo(7), NEW b \in UpTo(1), NEW r \in UpTo(127)
    PROVE  /\ Flag(v, t, b, r) - (IF M!Truncated(Flag(v, t, b, r)) THEN 128 ELSE 0) + 0 = Flag(v, t, 0, r)
           /\ Flag(v, t, b, r) - (IF M!Truncated(Flag(v, t, b, r)) THEN 128 ELSE 0) + 128 = Flag(v, t, 1, r)
<1> DEFINE f == Flag(v, t, b, r)
<1>1. f \in Int
  BY FlagNumbers
<1>2. v \in Int /\ t \in Int /\ r \in Int /\ (b = 0 \/ b = 1)
  BY UpToIs
<1>3. (f \div 128) % 2 = b
  BY FlagNumbers
<1> HIDE DEF f
<1>4. f - (IF M!Truncated(f) THEN 128 ELSE 0) = f - 128 * b
  <2>1. CASE b = 1
    BY <1>1, <1>3, <2>1 DEF M!Truncated
  <2>2. CASE b = 0
    BY <1>1, <1>3, <2>2 DEF M!Truncated
  <2> QED
    BY <1>2, <2>1, <2>2
<1>5. f - 128 * b + 0 = Flag(v, t, 0, r) /\ f - 128 * b + 128 = Flag(v, t, 1, r)
  BY <1>1, <1>2 DEF f, Flag
<1> QED
  BY <1>4, <1>5 DEF f

Headers == [flags : UpTo(65535), id : Nat]

(* A header has version 1 whatever was in the memory.                      *)
LEMMA NewHeaderIs ==
    ASSUME NEW junk \in UpTo(65535)
    PROVE  M!NewHeader(junk) \in Headers
<1>1. PICK v \in UpTo(31), t \in UpTo(7), b \in UpTo(1), r \in UpTo(127) : junk = Flag(v, t, b, r)
  <2>1. IsFlags(junk)
    BY FlagSome
  <2> QED
    BY <2>1 DEF IsFlags
<1>0. 1 \in UpTo(31) /\ 0 \in UpTo(7) /\ 0 \in UpTo(1)
  BY UpToIs
<1>2. M!SetVersion(junk, 1) = Flag(1, t, b, r)
  BY <1>0, <1>1, FlagSetVersion
<1>3. M!SetType(Flag(1, t, b, r), 0) = Flag(1, 0, b, r)
  BY <1>0, FlagSetType
<1>4. Flag(1, 0, b, r) - (IF M!Truncated(Flag(1, 0, b, r)) THEN 128 ELSE 0) + 0 = Flag(1, 0, 0, r)
  BY <1>0, FlagSetTruncated
<1>5. M!NewHeader(junk) = [flags |-> Flag(1, 0, 0, r), id |-> 0]
  BY <1>2, <1>3, <1>4 DEF M!NewHeader, M!NoneType, M!SetTruncated
<1>6. Flag(1, 0, 0, r) \in UpTo(65535)
  BY <1>0, FlagRead
<1> QED
  BY <1>5, <1>6 DEF Headers

(* The type of a message is what is set last.                              *)
LEMMA TypeSet ==
    ASSUME NEW f \in UpTo(65535), NEW x \in UpTo(7)
    PROVE  M!SetType(f, x) \in UpTo(65535) /\ M!Type(M!SetType(f, x)) = x
<1>1. PICK v \in UpTo(31), t \in UpTo(7), b \in UpTo(1), r \in UpTo(127) : f = Flag(v, t, b, r)
  <2>1. IsFlags(f)
    BY FlagSome
  <2> QED
    BY <2>1 DEF IsFlags
<1>2. M!SetType(f, x) = Flag(v, x, b, r)
  BY <1>1, FlagSetType
<1>3. Flag(v, x, b, r) \in UpTo(65535) /\ M!Type(Flag(v, x, b, r)) = x
  BY FlagRead
<1> QED
  BY <1>2, <1>3

(* In JSON the header keeps its version, its type and its bit.             *)
LEMMA HeaderKept ==
    ASSUME NEW g \in Headers, NEW h \in Headers
    PROVE  M!HeaderToJson(M!HeaderFromJson(h, M!HeaderToJson(g))) = M!HeaderToJson(g)
<1>0. g.flags \in UpTo(65535) /\ h.flags \in UpTo(65535)
  BY DEF Headers
<1>1. PICK v \in UpTo(31), t \in UpTo(7), b \in UpTo(1), r \in UpTo(127) : g.flags = Flag(v, t, b, r)
  <2>1. IsFlags(g.flags)
    BY <1>0, FlagSome
  <2> QED
    BY <2>1 DEF IsFlags
<1>2. PICK v0 \in UpTo(31), t0 \in UpTo(7), b0 \in UpTo(1), r0 \in UpTo(127) : h.flags = Flag(v0, t0, b0, r0)
  <2>1. IsFlags(h.flags)
    BY <1>0, FlagSome
  <2> QED
    BY <2>1 DEF IsFlags
<1> DEFINE j == M!HeaderToJson(g)
           k == M!HeaderFromJson(h, j)
           on == M!Truncated(g.flags)
<1>3. j = [v |-> v, ty |-> t, tr |-> on]
  BY <1>1, FlagRead DEF M!HeaderToJson
<1>4. (g.flags \div 128) % 2 = b
  BY <1>1, FlagNumbers
<1>5. M!SetVersion(h.flags, v) = Flag(v, t0, b0, r0)
  BY <1>2, FlagSetVersion
<1>6. M!SetType(Flag(v, t0, b0, r0), t) = Flag(v, t, b0, r0)
  BY FlagSetType
<1>7. M!SetTruncated(Flag(v, t, b0, r0), on) = Flag(v, t, b, r0)
  <2>1. b = 0 \/ b = 1
    BY UpToIs
  <2>2. CASE b = 1
    BY <1>4, <2>2, FlagSetTruncated DEF M!SetTruncated, M!Truncated
  <2>3. CASE b = 0
    BY <1>4, <2>3, FlagSetTruncated DEF M!SetTruncated, M!Truncated
  <2> QED
    BY <2>1, <2>2, <2>3
<1> HIDE DEF on, j
<1>8. k.flags = Flag(v, t, b, r0)
  <2>1. j.v = v /\ j.ty = t /\ j.tr = on
    BY <1>3
  <2>2. k = [h EXCEPT !.flags = M!SetTruncated(M!SetType(M!SetVersion(h.flags, j.v), j.ty), j.tr)]
    BY DEF M!HeaderFromJson
  <2> HIDE DEF k
  <2> QED
    BY <1>5, <1>6, <1>7, <2>1, <2>2 DEF Headers
<1> HIDE DEF k
<1>9. M!Version(k.flags) = v /\ M!Type(k.flags) = t /\ M!Truncated(k.flags) = on
  <2>1. M!Version(k.flags) = v /\ M!Type(k.flags) = t
    BY <1>8, FlagRead
  <2>2. (k.flags \div 128) % 2 = b
    BY <1>8, FlagNumbers
  <2>3. M!Truncated(k.flags) = on
    BY <1>4, <2>2 DEF M!Truncated, on
  <2> QED
    BY <2>1, <2>3
<1>10. M!HeaderToJson(k) = [v |-> v, ty |-> t, tr |-> on]
  BY <1>9 DEF M!HeaderToJson
<1> QED
  BY <1>3, <1>10 DEF j, k

-----------------------------------------------------------------------------
(* A message that was read has this header and this payload.               *)
Says(msg, type, id, index, data) ==
    /\ msg.header \in Headers
    /\ M!Type(msg.header.flags) = type /\ msg.header.id = id
    /\ msg.payload = [index |-> index, data |-> data]

(* Two cells and one more.                                                 *)
LEMMA TwoAndOne ==
    ASSUME NEW x \in Cells, NEW y \in Cells, NEW z \in Cells
    PROVE  <<x, y>> \in Seq(Cells) /\ <<z>> \in Seq(Cells) /\ <<x, y>> \o <<z>> = <<x, y, z>>
<1> DEFINE a == <<x, y>>
           b == <<z>>
           c == <<x, y, z>>
<1>1. a \in Seq(Cells) /\ Len(a) = 2 /\ a[1] = x /\ a[2] = y
  OBVIOUS
<1>2. b \in Seq(Cells) /\ Len(b) = 1 /\ b[1] = z
  OBVIOUS
<1>3. c \in Seq(Cells) /\ Len(c) = 3 /\ c[1] = x /\ c[2] = y /\ c[3] = z
  BY ThreeCells
<1> HIDE DEF a, b, c
<1>4. a \o b \in Seq(Cells) /\ Len(a \o b) = 3
  <2>1. a \o b \in Seq(Cells) /\ Len(a \o b) = Len(a) + Len(b)
    BY <1>1, <1>2, ConcatProperties
  <2>2. Len(a) + Len(b) = 3
    BY <1>1, <1>2
  <2> QED
    BY <2>1, <2>2
<1>5. (a \o b)[1] = x /\ (a \o b)[2] = y /\ (a \o b)[3] = z
  <2>1. 1 \in 1 .. Len(a) /\ 2 \in 1 .. Len(a)
    BY <1>1
  <2>2. (a \o b)[1] = a[1] /\ (a \o b)[2] = a[2]
    BY <1>1, <1>2, <2>1, ReadWritten
  <2>3. 3 \in 1 .. Len(a) + Len(b) /\ ~(3 <= Len(a)) /\ 3 - Len(a) = 1
    BY <1>1, <1>2
  <2>4. (a \o b)[3] = b[3 - Len(a)]
    BY <1>1, <1>2, <2>3, ConcatProperties
  <2> QED
    BY <1>1, <1>2, <2>2, <2>3, <2>4
<1>6. \A i \in 1 .. Len(a \o b) : (a \o b)[i] = c[i]
  BY <1>3, <1>4, <1>5
<1>7. a \o b = c
  BY <1>3, <1>4, <1>6, SeqEqual
<1> QED
  BY <1>1, <1>2, <1>7 DEF a, b, c

(* The stream of a message, and the header that is read of a stream.       *)
Typed(h, type) == [h EXCEPT !.flags = M!SetType(h.flags, type)]
Stream(h, type, index, data) == M!WriteHeader(Typed(h, type)) \o (<<index>> \o data)
HeaderOf(s) == [flags |-> s[1], id |-> s[2]]

(* What is read of the header, and the cells behind it.                    *)
Begins(s, type, id, index, data) ==
    /\ s \in Seq(Cells) /\ Len(s) = 3 + Len(data) /\ s # <<>>
    /\ s[3] = index /\ M!Skip(s, 3) = data
    /\ \A i \in 1 .. Len(data) : s[3 + i] = data[i]
    /\ HeaderOf(s) \in Headers
    /\ M!Type(HeaderOf(s).flags) = type /\ HeaderOf(s).id = id

(* The first three cells of a message.                                     *)
LEMMA WrittenHeader ==
    ASSUME NEW h \in Headers, NEW type \in UpTo(7), NEW index \in UpTo(1), NEW data \in Seq(Cells)
    PROVE  Begins(Stream(h, type, index, data), type, h.id, index, data)
<1> DEFINE g == Typed(h, type)
           s == Stream(h, type, index, data)
           head == <<g.flags, g.id, index>>
<1>1. h.flags \in UpTo(65535) /\ h.id \in Nat
  BY DEF Headers
<1>2. g.flags = M!SetType(h.flags, type) /\ g.id = h.id
  BY DEF Headers, Typed
<1> HIDE DEF g
<1>3. g.flags \in UpTo(65535) /\ M!Type(g.flags) = type
  BY <1>1, <1>2, TypeSet
<1>4. g.flags \in Cells /\ g.id \in Cells /\ index \in Cells
  <2>1. g.flags \in Nat /\ g.id \in Nat /\ index \in Nat
    BY <1>1, <1>2, <1>3, UpToIs
  <2> QED
    BY <2>1 DEF Cells
<1>5. head \in Seq(Cells) /\ Len(head) = 3 /\ head[1] = g.flags /\ head[2] = g.id /\ head[3] = index
  BY <1>4, ThreeCells
<1>13. M!WriteHeader(g) = <<g.flags, g.id>> /\ <<g.flags, g.id>> \o <<index>> = head
  BY <1>4, TwoAndOne DEF M!WriteHeader
<1>6. s = head \o data
  <2> DEFINE x == <<g.flags, g.id>>
             y == <<index>>
  <2>1. x \in Seq(Cells) /\ y \in Seq(Cells)
    BY <1>4, TwoAndOne
  <2>2. s = M!WriteHeader(g) \o (y \o data)
    BY DEF Stream, g
  <2>3. s = x \o (y \o data) /\ x \o y = head
    BY <1>13, <2>2
  <2> HIDE DEF x, y, head, s
  <2>4. (x \o y) \o data = x \o (y \o data)
    BY <2>1, Associates
  <2> QED
    BY <2>3, <2>4
<1> HIDE DEF head, s
<1>7. Len(data) \in Nat /\ s \in Seq(Cells) /\ Len(s) = 3 + Len(data)
  <2>1. Len(data) \in Nat
    BY LenProperties
  <2>2. head \o data \in Seq(Cells) /\ Len(head \o data) = Len(head) + Len(data)
    BY <1>5, ConcatProperties
  <2> QED
    BY <1>5, <1>6, <2>1, <2>2
<1>8. s # <<>>
  BY <1>7
<1>9. s[1] = g.flags /\ s[2] = g.id /\ s[3] = index
  <2>1. 1 \in 1 .. Len(head) /\ 2 \in 1 .. Len(head) /\ 3 \in 1 .. Len(head)
    BY <1>5
  <2> QED
    BY <1>5, <1>6, <2>1, ReadWritten
<1>10. M!Skip(s, 3) = data
  BY <1>5, <1>6, SkipWritten
<1>11. ASSUME NEW i \in 1 .. Len(data) PROVE s[3 + i] = data[i]
  <2>1. 3 + i \in 1 .. Len(head) + Len(data) /\ ~(3 + i <= Len(head)) /\ (3 + i) - Len(head) = i
    BY <1>5, <1>7
  <2>2. (head \o data)[3 + i] = data[(3 + i) - Len(head)]
    BY <1>5, <2>1, ConcatProperties
  <2> QED
    BY <1>6, <2>1, <2>2
<1>12. HeaderOf(s) \in Headers /\ HeaderOf(s).flags = s[1] /\ HeaderOf(s).id = s[2]
  <2>1. s[1] \in UpTo(65535) /\ s[2] \in Nat
    BY <1>1, <1>2, <1>3, <1>9
  <2> QED
    BY <2>1 DEF Headers, HeaderOf
<1>14. M!Type(HeaderOf(s).flags) = type /\ HeaderOf(s).id = h.id
  BY <1>2, <1>3, <1>9, <1>12
<1>15. Begins(s, type, h.id, index, data)
  BY <1>7, <1>8, <1>9, <1>10, <1>11, <1>12, <1>14 DEF Begins
<1> QED
  BY <1>15 DEF s

(* A request as the server reads it.                                       *)
LEMMA ReadRequest ==
    ASSUME NEW h \in Headers, NEW addr \in Families \X Addresses
    PROVE  LET s == M!WriteMessage(M!RequestMessage(h, addr))
           IN  /\ s # <<>> /\ Len(s) = 4
               /\ Says(M!ReadMessage(s), 1, h.id, 0, addr)
<1> DEFINE g == Typed(h, 1)
           msg == M!RequestMessage(h, addr)
           s == M!WriteMessage(msg)
           data == <<addr>>
<1>1. 1 \in UpTo(7) /\ 0 \in UpTo(1)
  BY UpToIs
<1>2. data \in Seq(Cells) /\ Len(data) = 1 /\ data[1] = addr
  BY DEF Cells
<1>3. msg = [header |-> g, payload |-> [index |-> 0, data |-> addr]]
  BY DEF M!RequestMessage, M!OriginRequestType, Typed
<1>4. msg.header = g /\ msg.payload.index = 0 /\ msg.payload.data = addr
  BY <1>3
<1> HIDE DEF msg, g
<1>5. M!WritePayload(msg) = <<0>> \o data
  BY <1>4 DEF M!WritePayload
<1>6. s = Stream(h, 1, 0, data)
  BY <1>4, <1>5 DEF M!WriteMessage, Stream, g
<1> HIDE DEF s, data
<1>7. Begins(s, 1, h.id, 0, data)
  BY <1>1, <1>2, <1>6, WrittenHeader
<1>8. s[4] = addr /\ Len(s) = 4 /\ s # <<>> /\ s[3] = 0
  <2>1. 1 \in 1 .. Len(data) /\ 3 + 1 = 4
    BY <1>2
  <2>2. s[3 + 1] = data[1] /\ Len(s) = 3 + Len(data) /\ s # <<>> /\ s[3] = 0
    BY <1>7, <2>1 DEF Begins
  <2> QED
    BY <1>2, <2>1, <2>2
<1>9. M!ReadMessage(s) = [header |-> HeaderOf(s), payload |-> [index |-> 0, data |-> addr]]
  BY <1>8 DEF M!ReadMessage, HeaderOf
<1>10. HeaderOf(s) \in Headers /\ M!Type(HeaderOf(s).flags) = 1 /\ HeaderOf(s).id = h.id
  BY <1>7 DEF Begins
<1>11. Says(M!ReadMessage(s), 1, h.id, 0, addr)
  BY <1>9, <1>10 DEF Says
<1> QED
  BY <1>8, <1>11 DEF s, msg

(* A response as the client reads it.                                      *)
LEMMA ReadResponseMessage ==
    ASSUME NEW h \in Headers, NEW resp \in Responses, Len(resp.prefixes) < Byte
    PROVE  LET s == M!WriteMessage(M!ResponseMessage(h, resp))
           IN  /\ s # <<>> /\ Len(s) = 3 + Len(M!WriteResponse(resp)) /\ Len(s) >= 5
               /\ Says(M!ReadMessage(s), 2, h.id, 1, CutResponse(resp))
<1> DEFINE g == Typed(h, 2)
           msg == M!ResponseMessage(h, resp)
           s == M!WriteMessage(msg)
           x == M!WriteResponse(resp)
<1>1. 2 \in UpTo(7) /\ 1 \in UpTo(1)
  BY UpToIs
<1>2. x \in Seq(Cells) /\ Len(x) >= 2 /\ Len(x) \in Nat /\ M!ReadResponse(x).value = CutResponse(resp)
  BY ReadWrittenResponse, LenProperties
<1>3. msg = [header |-> g, payload |-> [index |-> 1, data |-> resp]]
  BY DEF M!ResponseMessage, M!OriginResponseType, Typed
<1>4. msg.header = g /\ msg.payload.index = 1 /\ msg.payload.data = resp
  BY <1>3
<1> HIDE DEF msg, g, x
<1>5. M!WritePayload(msg) = <<1>> \o x
  BY <1>4 DEF M!WritePayload, x
<1>6. s = Stream(h, 2, 1, x)
  BY <1>4, <1>5 DEF M!WriteMessage, Stream, g
<1> HIDE DEF s
<1>7. Begins(s, 2, h.id, 1, x)
  BY <1>1, <1>2, <1>6, WrittenHeader
<1>8. Len(s) = 3 + Len(x) /\ s # <<>> /\ s[3] = 1 /\ M!Skip(s, 3) = x
  BY <1>7 DEF Begins
<1>9. M!ReadMessage(s) = [header |-> HeaderOf(s), payload |-> [index |-> 1, data |-> CutResponse(resp)]]
  BY <1>2, <1>8 DEF M!ReadMessage, HeaderOf
<1>10. HeaderOf(s) \in Headers /\ M!Type(HeaderOf(s).flags) = 2 /\ HeaderOf(s).id = h.id
  BY <1>7 DEF Begins
<1>11. Says(M!ReadMessage(s), 2, h.id, 1, CutResponse(resp))
  BY <1>9, <1>10 DEF Says
<1>12. Len(s) >= 5
  BY <1>2, <1>8
<1> QED
  BY <1>8, <1>11, <1>12 DEF s, msg, x

(* An answer has at most one prefix of each length.                        *)
LEMMA AnswerShort ==
    ASSUME NEW entries, NEW a, NEW pairs, NEW names, NEW cut, Answers(entries, a, pairs, names, cut)
    PROVE  entries \in Seq(PrefixRecords) /\ Len(entries) \in Nat /\ Len(entries) < Byte
<1> DEFINE n == Len(entries)
           T == {k \in Nat : k + 1 <= n => Len(entries[k + 1].prefix) >= k}
<1>1. entries \in Seq(PrefixRecords) /\ n \in Nat
  BY LenProperties DEF Answers
<1>2. \A i, j \in 1 .. n : i < j => Len(entries[i].prefix) < Len(entries[j].prefix)
  BY DEF Answers
<1>3. \A i \in 1 .. n : Len(entries[i].prefix) \in Nat /\ Len(entries[i].prefix) <= Width
  <2> SUFFICES ASSUME NEW i \in 1 .. n
               PROVE  Len(entries[i].prefix) \in Nat /\ Len(entries[i].prefix) <= Width
    OBVIOUS
  <2>1. entries[i] \in PrefixRecords
    BY <1>1, ElementOfSeq
  <2>2. entries[i].prefix \in Prefixes
    BY <2>1 DEF PrefixRecords
  <2> QED
    BY <2>2, PrefixIsSeq
<1> HIDE DEF n
<1>4. 0 \in T
  <2>1. 0 + 1 <= n => Len(entries[0 + 1].prefix) \in Nat
    BY <1>1, <1>3
  <2> QED
    BY <2>1
<1>5. ASSUME NEW k \in Nat, k \in T PROVE k + 1 \in T
  <2> SUFFICES ASSUME k + 1 + 1 <= n PROVE Len(entries[k + 1 + 1].prefix) >= k + 1
    OBVIOUS
  <2>1. k + 1 \in 1 .. n /\ k + 1 + 1 \in 1 .. n /\ k + 1 < k + 1 + 1 /\ k + 1 <= n
    BY <1>1
  <2>2. Len(entries[k + 1].prefix) >= k
    BY <1>5, <2>1
  <2>3. Len(entries[k + 1].prefix) < Len(entries[k + 1 + 1].prefix)
    BY <1>2, <2>1
  <2>4. Len(entries[k + 1].prefix) \in Nat /\ Len(entries[k + 1 + 1].prefix) \in Nat
    BY <1>3, <2>1
  <2> QED
    BY <2>2, <2>3, <2>4
<1> HIDE DEF T
<1>6. \A k \in Nat : k \in T
  BY <1>4, <1>5, SetInduction
<1>7. n <= Width + 1
  <2>1. CASE n = 0
    BY <2>1, TrieAssumption
  <2>2. CASE n # 0
    <3>1. n - 1 \in Nat /\ (n - 1) + 1 = n /\ n \in 1 .. n
      BY <1>1, <2>2
    <3>2. n - 1 \in T
      BY <1>6, <3>1
    <3>3. Len(entries[n].prefix) >= n - 1
      BY <3>1, <3>2 DEF T
    <3> QED
      BY <1>1, <1>3, <3>1, <3>3, TrieAssumption
  <2> QED
    BY <2>1, <2>2
<1>8. n < Byte
  BY <1>1, <1>7, LookupAssumption, TrieAssumption
<1> QED
  BY <1>1, <1>8 DEF n

-----------------------------------------------------------------------------
(* The names that asn.txt gives.                                           *)
NameTables == UNION {[S -> ASEntries] : S \in SUBSET ASes}
Statuses == {"good", "failed", "thrown"}
ReadResults == [names : NameTables, status : Statuses]

(* The empty table is one.                                                 *)
LEMMA NoNamesIs == NoNames \in NameTables
<1> DEFINE blank == [countryCode |-> "", name |-> 0]
<1>1. NoNames = [as \in {} |-> blank]
  BY DEF NoNames
<1> HIDE DEF blank
<1>2. NoNames \in [{} -> ASEntries] /\ {} \in SUBSET ASes
  BY <1>1
<1> QED
  BY <1>2 DEF NameTables

(* A table gives ASes their entries.                                       *)
LEMMA TableIsNames ==
    ASSUME NEW names \in NameTables
    PROVE  IsNames(names)
<1>1. PICK S \in SUBSET ASes : names \in [S -> ASEntries]
  BY DEF NameTables
<1> QED
  BY <1>1 DEF IsNames

(* One line more.                                                          *)
LEMMA LineReads ==
    ASSUME NEW r \in ReadResults, NEW line \in AsnLines
    PROVE  LoadLine(r, line) \in ReadResults
<1>1. r.names \in NameTables /\ r.status \in Statuses
  BY DEF ReadResults
<1>2. "good" \in Statuses /\ "failed" \in Statuses /\ "thrown" \in Statuses
  BY DEF Statuses
<1>3. CASE r.status # "good"
  BY <1>3 DEF LoadLine
<1>4. CASE r.status = "good" /\ line.kind = "named"
  <2>1. line.as \in ASes /\ line.entry \in ASEntries
    BY <1>4 DEF AsnLines, ASEntries
  <2>2. PICK S \in SUBSET ASes : r.names \in [S -> ASEntries]
    BY <1>1 DEF NameTables
  <2> DEFINE a == line.as
             e == line.entry
             names == [as \in DOMAIN r.names \cup {a} |-> IF as = a THEN e ELSE r.names[as]]
  <2>3. LoadLine(r, line) = [r EXCEPT !.names = names]
    BY <1>4 DEF LoadLine
  <2> HIDE DEF a, e
  <2>4. names \in [S \cup {a} -> ASEntries] /\ S \cup {a} \in SUBSET ASes
    BY <2>1, <2>2 DEF a, e
  <2>5. names \in NameTables
    BY <2>4 DEF NameTables
  <2> HIDE DEF names
  <2> QED
    BY <1>1, <2>3, <2>5 DEF ReadResults
<1>5. CASE r.status = "good" /\ line.kind # "named"
  <2>1. line.kind \in {"unnamed", "spaceless", "numberless"}
    BY <1>5 DEF AsnLines
  <2>2. CASE line.kind = "unnamed"
    BY <1>5, <2>2 DEF LoadLine
  <2>3. CASE line.kind = "spaceless"
    <3>1. LoadLine(r, line) = [names |-> NoNames, status |-> "failed"]
      BY <1>5, <2>3 DEF LoadLine
    <3> QED
      BY <1>2, <3>1, NoNamesIs DEF ReadResults
  <2>4. CASE line.kind = "numberless"
    <3>1. LoadLine(r, line) = [r EXCEPT !.status = "thrown"]
      BY <1>5, <2>4 DEF LoadLine
    <3> QED
      BY <1>1, <1>2, <3>1 DEF ReadResults
  <2> QED
    BY <2>1, <2>2, <2>3, <2>4
<1> QED
  BY <1>3, <1>4, <1>5

(* The rounds of the loop that reads the lines.                            *)
LEMMA LinesRead ==
    ASSUME NEW lines \in Seq(AsnLines), NEW f, Computes("names", lines, 0 .. Len(lines), f)
    PROVE  f[Len(lines)] \in ReadResults
<1> DEFINE n == Len(lines)
           T == {k \in Nat : k <= n => f[k] \in ReadResults}
<1>1. n \in Nat /\ \A i \in 1 .. n : lines[i] \in AsnLines
  BY LenProperties, ElementOfSeq
<1>2. \A k : Computed("names", lines, f, k) = NamesStep(lines, f, k)
  BY DEF Computed
<1>3. \A k \in 0 .. n : f[k] = NamesStep(lines, f, k)
  BY <1>2 DEF Computes
<1> HIDE DEF n
<1>4. 0 \in T
  <2>1. f[0] = [names |-> NoNames, status |-> "good"]
    BY <1>1, <1>3 DEF NamesStep
  <2>2. "good" \in Statuses
    BY DEF Statuses
  <2>3. f[0] \in ReadResults
    BY <2>1, <2>2, NoNamesIs DEF ReadResults
  <2> QED
    BY <2>3
<1>5. ASSUME NEW k \in Nat, k \in T PROVE k + 1 \in T
  <2> SUFFICES ASSUME k + 1 <= n PROVE f[k + 1] \in ReadResults
    OBVIOUS
  <2>1. k + 1 \in 0 .. n /\ k + 1 \in 1 .. n /\ k + 1 # 0 /\ k + 1 - 1 = k /\ k <= n
    BY <1>1
  <2>2. f[k + 1] = LoadLine(f[k], lines[k + 1])
    BY <1>3, <2>1 DEF NamesStep
  <2>3. f[k] \in ReadResults /\ lines[k + 1] \in AsnLines
    BY <1>1, <1>5, <2>1
  <2> QED
    BY <2>2, <2>3, LineReads
<1> HIDE DEF T
<1>6. n \in T
  BY <1>1, <1>4, <1>5, SetInduction
<1> QED
  BY <1>1, <1>6 DEF T, n

(* What is in asn.txt are names of ASes.                                   *)
LEMMA AsnTxtReads ==
    ASSUME NEW lines \in Seq(AsnLines)
    PROVE  LoadAsnTxt(lines) \in ReadResults
<1> DEFINE n == Len(lines)
           E(f) == [k \in 0 .. n |->
                       IF k = 0 THEN [names |-> NoNames, status |-> "good"]
                       ELSE LoadLine(f[k - 1], lines[k])]
           d == CHOOSE f : f = E(f)
           r == d[n]
<1>1. n \in Nat
  BY LenProperties
<1>2. LoadAsnTxt(lines) = IF r.status = "good" /\ r.names = NoNames
                          THEN [r EXCEPT !.status = "failed"] ELSE r
  BY DEF LoadAsnTxt
<1> HIDE DEF r, n
<1>3. \A f, k : Computed("names", lines, f, k) = NamesStep(lines, f, k)
  BY DEF Computed
<1>4. \E f : Computes("names", lines, 0 .. n, f)
  <2> DEFINE name == "names"
  <2>1. ASSUME NEW f, NEW g, NEW k \in 0 .. n, k > 0 => f[k - 1] = g[k - 1]
        PROVE  Computed(name, lines, f, k) = Computed(name, lines, g, k)
    <3>1. k = 0 \/ k > 0
      BY <1>1
    <3>2. NamesStep(lines, f, k) = NamesStep(lines, g, k)
      BY <2>1, <3>1 DEF NamesStep
    <3> QED
      BY <1>3, <3>2
  <2> HIDE DEF name
  <2>2. \E f : Computes(name, lines, 0 .. n, f)
    BY <1>1, <2>1, LoopComputes
  <2> QED
    BY <2>2 DEF name
<1>5. ASSUME NEW f PROVE Computes("names", lines, 0 .. n, f) <=> f = E(f)
  <2>1. \A k \in 0 .. n : NamesStep(lines, f, k) = IF k = 0 THEN [names |-> NoNames, status |-> "good"]
                                                   ELSE LoadLine(f[k - 1], lines[k])
    BY DEF NamesStep
  <2>2. [k \in 0 .. n |-> Computed("names", lines, f, k)] = E(f)
    BY <1>3, <2>1
  <2> HIDE DEF E
  <2> QED
    BY <2>2 DEF Computes
<1> HIDE DEF E
<1>6. Computes("names", lines, 0 .. n, d)
  BY <1>4, <1>5
<1> HIDE DEF d
<1>7. r \in ReadResults
  BY <1>6, LinesRead DEF n, r
<1>8. "failed" \in Statuses
  BY DEF Statuses
<1>9. r.names \in NameTables /\ r.status \in Statuses
  BY <1>7 DEF ReadResults
<1>10. [r EXCEPT !.status = "failed"] \in ReadResults
  BY <1>7, <1>8, <1>9 DEF ReadResults
<1> QED
  BY <1>2, <1>7, <1>10

(* An empty asn.txt fails.                                                 *)
LEMMA EmptyAsnTxt ==
    LoadAsnTxt(<<>>).names = NoNames /\ LoadAsnTxt(<<>>).status = "failed"
<1> DEFINE E(f) == [k \in 0 .. 0 |->
                       IF k = 0 THEN [names |-> NoNames, status |-> "good"]
                       ELSE LoadLine(f[k - 1], <<>>[k])]
           d == CHOOSE f : f = E(f)
           r == d[0]
<1>1. LoadAsnTxt(<<>>) = IF r.status = "good" /\ r.names = NoNames
                         THEN [r EXCEPT !.status = "failed"] ELSE r
  BY DEF LoadAsnTxt
<1> HIDE DEF r
<1> DEFINE one == [k \in 0 .. 0 |-> [names |-> NoNames, status |-> "good"]]
<1>2. one = E(one)
  OBVIOUS
<1>3. d = E(d)
  <2> HIDE DEF E, one
  <2> QED
    BY <1>2
<1> HIDE DEF d
<1>4. r = [names |-> NoNames, status |-> "good"]
  BY <1>3 DEF r
<1> QED
  BY <1>1, <1>4

-----------------------------------------------------------------------------
(* A datagram has the answer, with a part of each name.                    *)

(* An AS. *)
LEMMA CutNamed ==
    ASSUME NEW as \in ASRecords, NEW names, NamedBy(as, names, FALSE)
    PROVE  CutAS(as) \in ASRecords /\ CutAS(as).number = as.number /\ NamedBy(CutAS(as), names, TRUE)
<1> DEFINE c == CutAS(as)
           n == as.name % Byte
<1>1. as.number \in ASes /\ as.countryCode \in Countries \cup NoCountry /\ as.name \in Nat
  BY DEF ASRecords
<1>2. n \in Nat
  BY <1>1, ByteIs, ModIs
<1>3. c = [number |-> as.number, countryCode |-> as.countryCode, name |-> n]
  BY DEF CutAS
<1> HIDE DEF c
<1>4. c.number = as.number /\ c.countryCode = as.countryCode /\ c.name = n
  BY <1>3
<1> HIDE DEF n
<1>5. c \in ASRecords
  BY <1>1, <1>2, <1>3, ASRecordIs
<1>6. NamedBy(c, names, TRUE)
  BY <1>4 DEF NamedBy, Kept, n
<1> QED
  BY <1>4, <1>5, <1>6 DEF c

(* The ASes of a prefix.                                                   *)
LEMMA CutLists ==
    ASSUME NEW ases, NEW S, NEW names, Lists(ases, S, names, FALSE)
    PROVE  Lists(CutASes(ases), S, names, TRUE)
<1> DEFINE n == Len(ases)
           cut == CutASes(ases)
<1>1. ases \in Seq(ASRecords) /\ n \in Nat /\ \A i \in 1 .. n : ases[i] \in ASRecords
  BY LenProperties, ElementOfSeq DEF Lists
<1>2. cut = [i \in 1 .. n |-> CutAS(ases[i])]
  BY DEF CutASes
<1> HIDE DEF cut
<1>3. ASSUME NEW i \in 1 .. n
      PROVE  cut[i] \in ASRecords /\ cut[i].number = ases[i].number /\ NamedBy(cut[i], names, TRUE)
  <2>1. NamedBy(ases[i], names, FALSE) /\ ases[i] \in ASRecords
    BY <1>1 DEF Lists
  <2>2. cut[i] = CutAS(ases[i])
    BY <1>2
  <2> DEFINE as == ases[i]
  <2> HIDE DEF as
  <2>3. CutAS(as) \in ASRecords /\ CutAS(as).number = as.number /\ NamedBy(CutAS(as), names, TRUE)
    BY <2>1, CutNamed DEF as
  <2> QED
    BY <2>2, <2>3 DEF as
<1>4. cut \in Seq(ASRecords) /\ Len(cut) = n
  <2>1. \A i \in 1 .. n : cut[i] \in ASRecords
    BY <1>3
  <2>2. cut = [i \in 1 .. n |-> cut[i]]
    BY <1>2
  <2>3. cut \in [1 .. n -> ASRecords]
    BY <2>1, <2>2
  <2> QED
    BY <1>1, <2>3, FunctionIsSeq
<1>5. ASSUME NEW j \in 1 .. Len(cut), NEW k \in 1 .. Len(cut), j < k
      PROVE  cut[j].number < cut[k].number
  <2>1. j \in 1 .. n /\ k \in 1 .. n
    BY <1>4
  <2>2. ases[j].number < ases[k].number
    BY <1>5, <2>1 DEF Lists
  <2> QED
    BY <1>3, <2>1, <2>2
<1>6. ASSUME NEW x PROVE x \in S <=> \E j \in 1 .. Len(cut) : cut[j].number = x
  <2>1. x \in S <=> \E j \in 1 .. n : ases[j].number = x
    BY DEF Lists
  <2> QED
    BY <1>3, <1>4, <2>1
<1>7. \A j \in 1 .. Len(cut) : NamedBy(cut[j], names, TRUE)
  BY <1>3, <1>4
<1>8. Lists(cut, S, names, TRUE)
  BY <1>4, <1>5, <1>6, <1>7 DEF Lists
<1> QED
  BY <1>8, Zenon DEF cut

(* The prefixes.                                                           *)
LEMMA CutAnswers ==
    ASSUME NEW entries, NEW a, NEW pairs, NEW names, Answers(entries, a, pairs, names, FALSE)
    PROVE  Answers(CutPrefixes(entries), a, pairs, names, TRUE)
<1> DEFINE n == Len(entries)
           cut == CutPrefixes(entries)
<1>1. entries \in Seq(PrefixRecords) /\ n \in Nat /\ \A i \in 1 .. n : entries[i] \in PrefixRecords
  BY LenProperties, ElementOfSeq DEF Answers
<1>2. cut = [i \in 1 .. n |-> CutPrefix(entries[i])]
  BY DEF CutPrefixes
<1> HIDE DEF cut
<1>3. ASSUME NEW i \in 1 .. n
      PROVE  /\ cut[i] \in PrefixRecords /\ cut[i].prefix = entries[i].prefix
             /\ Lists(cut[i].ases, OriginsIn(pairs, cut[i].prefix), names, TRUE)
  <2>1. Lists(entries[i].ases, OriginsIn(pairs, entries[i].prefix), names, FALSE)
    BY DEF Answers
  <2>2. cut[i] = CutPrefix(entries[i])
    BY <1>2
  <2> DEFINE p == entries[i].prefix
             ases == CutASes(entries[i].ases)
  <2>3. cut[i] = [prefix |-> p, ases |-> ases]
    BY <2>2 DEF CutPrefix
  <2>4. Lists(ases, OriginsIn(pairs, p), names, TRUE)
    BY <2>1, CutLists
  <2>5. p \in Prefixes
    BY <1>1 DEF PrefixRecords
  <2> HIDE DEF ases, p
  <2>6. ases \in Seq(ASRecords)
    BY <2>4 DEF Lists
  <2>7. cut[i] \in PrefixRecords /\ cut[i].prefix = p /\ cut[i].ases = ases
    BY <2>3, <2>5, <2>6 DEF PrefixRecords
  <2> QED
    BY <2>4, <2>7 DEF p
<1>4. cut \in Seq(PrefixRecords) /\ Len(cut) = n
  <2>1. \A i \in 1 .. n : cut[i] \in PrefixRecords
    BY <1>3
  <2>2. cut = [i \in 1 .. n |-> cut[i]]
    BY <1>2
  <2>3. cut \in [1 .. n -> PrefixRecords]
    BY <2>1, <2>2
  <2> QED
    BY <1>1, <2>3, FunctionIsSeq
<1>5. ASSUME NEW j \in 1 .. Len(cut), NEW k \in 1 .. Len(cut), j < k
      PROVE  Len(cut[j].prefix) < Len(cut[k].prefix)
  <2>1. j \in 1 .. n /\ k \in 1 .. n
    BY <1>4
  <2>2. Len(entries[j].prefix) < Len(entries[k].prefix)
    BY <1>5, <2>1 DEF Answers
  <2> QED
    BY <1>3, <2>1, <2>2
<1>6. ASSUME NEW p
      PROVE  (\E i \in 1 .. Len(cut) : cut[i].prefix = p)
                 <=> (\E e \in pairs : e[1] = p) /\ Contains(p, a)
  <2>1. (\E i \in 1 .. n : entries[i].prefix = p) <=> (\E e \in pairs : e[1] = p) /\ Contains(p, a)
    BY DEF Answers
  <2>2. \A i \in 1 .. n : cut[i].prefix = entries[i].prefix
    BY <1>3
  <2> QED
    BY <1>4, <2>1, <2>2
<1>7. \A i \in 1 .. Len(cut) : Lists(cut[i].ases, OriginsIn(pairs, cut[i].prefix), names, TRUE)
  BY <1>3, <1>4
<1>8. Answers(cut, a, pairs, names, TRUE)
  BY <1>4, <1>5, <1>6, <1>7 DEF Answers
<1> QED
  BY <1>8, Zenon DEF cut

-----------------------------------------------------------------------------
(* JSON says all of a response.                                            *)

(* An AS. *)
LEMMA ASInJson ==
    ASSUME NEW as \in ASRecords
    PROVE  M!ASFromJson(M!ASToJson(as)) = as
<1> DEFINE x == as.number
           y == as.countryCode
           z == as.name
<1>1. as = [number |-> x, countryCode |-> y, name |-> z]
  BY DEF ASRecords
<1>2. M!ASFromJson(M!ASToJson(as)) = [number |-> x, countryCode |-> y, name |-> z]
  BY DEF M!ASFromJson, M!ASToJson
<1> QED
  BY <1>1, <1>2

(* A prefix with its ASes.                                                 *)
LEMMA PrefixInJson ==
    ASSUME NEW pfx \in PrefixRecords
    PROVE  M!PrefixFromJson(M!PrefixToJson(pfx)) = pfx
<1> DEFINE p == pfx.prefix
           ases == pfx.ases
           j == [i \in DOMAIN ases |-> M!ASToJson(ases[i])]
           back == [i \in DOMAIN j |-> M!ASFromJson(j[i])]
<1>1. pfx = [prefix |-> p, ases |-> ases] /\ ases \in Seq(ASRecords)
  BY DEF PrefixRecords
<1>2. M!PrefixToJson(pfx) = [pfx |-> p, ases |-> j]
  BY DEF M!PrefixToJson
<1> HIDE DEF p, ases, j
<1>3. M!PrefixFromJson(M!PrefixToJson(pfx)) = [prefix |-> p, ases |-> back]
  BY <1>2 DEF M!PrefixFromJson
<1>4. DOMAIN ases = 1 .. Len(ases) /\ ases = [i \in DOMAIN ases |-> ases[i]]
  BY <1>1, LenProperties
<1>5. \A i \in DOMAIN ases : ases[i] \in ASRecords
  BY <1>1, <1>4, ElementOfSeq
<1>6. DOMAIN j = DOMAIN ases /\ \A i \in DOMAIN ases : j[i] = M!ASToJson(ases[i])
  BY DEF j
<1>7. \A i \in DOMAIN ases : M!ASFromJson(j[i]) = ases[i]
  BY <1>5, <1>6, ASInJson
<1>8. back = ases
  BY <1>4, <1>6, <1>7
<1> QED
  BY <1>1, <1>3, <1>8

(* A response. *)
LEMMA ResponseInJson ==
    ASSUME NEW resp \in Responses
    PROVE  M!ResponseFromJson(M!ResponseToJson(resp)) = resp
<1> DEFINE r == resp.request
           pfxs == resp.prefixes
           j == [i \in DOMAIN pfxs |-> M!PrefixToJson(pfxs[i])]
           back == [i \in DOMAIN j |-> M!PrefixFromJson(j[i])]
<1>1. resp = [request |-> r, prefixes |-> pfxs] /\ pfxs \in Seq(PrefixRecords)
  BY DEF Responses
<1>2. M!ResponseToJson(resp) = [req |-> r, resp |-> j]
  BY DEF M!ResponseToJson
<1> HIDE DEF r, pfxs, j
<1>3. M!ResponseFromJson(M!ResponseToJson(resp)) = [request |-> r, prefixes |-> back]
  BY <1>2 DEF M!ResponseFromJson
<1>4. DOMAIN pfxs = 1 .. Len(pfxs) /\ pfxs = [i \in DOMAIN pfxs |-> pfxs[i]]
  BY <1>1, LenProperties
<1>5. \A i \in DOMAIN pfxs : pfxs[i] \in PrefixRecords
  BY <1>1, <1>4, ElementOfSeq
<1>6. DOMAIN j = DOMAIN pfxs /\ \A i \in DOMAIN pfxs : j[i] = M!PrefixToJson(pfxs[i])
  BY DEF j
<1>7. \A i \in DOMAIN pfxs : M!PrefixFromJson(j[i]) = pfxs[i]
  BY <1>5, <1>6, PrefixInJson
<1>8. back = pfxs
  BY <1>4, <1>6, <1>7
<1> QED
  BY <1>1, <1>3, <1>8

-----------------------------------------------------------------------------
(* What is left of the prefixes of a country.                              *)
LEMMA SameContains ==
    ASSUME NEW p \in Prefixes, NEW q \in Prefixes
    PROVE  R!Contains(p, q) <=> Contains(p, q)
BY ContainsBits DEF R!Contains

(* An address is a prefix.                                                 *)
LEMMA AddressIsPrefix == Addresses \subseteq Prefixes /\ \A a \in Addresses : Len(a) = Width
<1>1. Width \in Nat
  BY TrieAssumption
<1>2. Width \in 0 .. Width
  BY <1>1
<1>3. ASSUME NEW a \in Addresses PROVE a \in Prefixes /\ Len(a) = Width
  BY <1>1, <1>2 DEF Addresses, Prefixes
<1> QED
  BY <1>3

(* The first bits of a prefix.                                             *)
LEMMA FirstBits ==
    ASSUME NEW a \in Prefixes, NEW n \in 0 .. Len(a)
    PROVE  /\ R!Truncate(a, n) \in Prefixes /\ Len(R!Truncate(a, n)) = n
           /\ \A i \in 1 .. n : R!Truncate(a, n)[i] = a[i]
           /\ Contains(R!Truncate(a, n), a)
<1> DEFINE t == R!Truncate(a, n)
<1>1. /\ Len(a) \in Nat /\ Len(a) <= Width /\ a \in [1 .. Len(a) -> {0, 1}]
      /\ n \in Nat /\ n <= Len(a) /\ Width \in Nat
  BY PrefixIsSeq, TrieAssumption
<1>2. t = [i \in 1 .. n |-> a[i]]
  BY DEF R!Truncate
<1> HIDE DEF t
<1>3. \A i \in 1 .. n : a[i] \in {0, 1}
  BY <1>1
<1>4. t \in [1 .. n -> {0, 1}]
  BY <1>2, <1>3
<1>5. t \in Seq({0, 1}) /\ Len(t) = n
  BY <1>1, <1>4, FunctionIsSeq
<1>6. t \in Prefixes
  BY <1>1, <1>5, SeqIsPrefix
<1>7. \A i \in 1 .. n : t[i] = a[i]
  BY <1>2
<1>8. Contains(t, a)
  BY <1>1, <1>5, <1>6, <1>7, ContainsBits
<1> QED
  BY <1>5, <1>6, <1>7, <1>8 DEF t

(* The same addresses are covered.                                         *)
LEMMA MinimalCovers ==
    ASSUME NEW S \in SUBSET Prefixes, NEW a \in Addresses
    PROVE  R!Covered(R!Minimal(S), a) <=> R!Covered(S, a)
<1>1. a \in Prefixes /\ Len(a) = Width /\ Width \in Nat
  BY AddressIsPrefix, TrieAssumption
<1>2. ASSUME R!Covered(R!Minimal(S), a) PROVE R!Covered(S, a)
  <2>1. PICK p \in R!Minimal(S) : R!Contains(p, a)
    BY <1>2 DEF R!Covered
  <2>2. R!Full(S, p)
    BY DEF R!Minimal
  <2> QED
    BY <2>1, <2>2 DEF R!Full, R!Addresses, Addresses
<1>3. ASSUME R!Covered(S, a) PROVE R!Covered(R!Minimal(S), a)
  <2>1. PICK p \in S : R!Contains(p, a)
    BY <1>3 DEF R!Covered
  <2> DEFINE t(n) == R!Truncate(a, n)
             T == {n \in 0 .. Width : R!Full(S, t(n))}
  <2>2. Contains(p, a) /\ Len(p) \in 0 .. Width
    BY <1>1, <2>1, SameContains, PrefixIsSeq
  <2>3. \A n \in 0 .. Width : t(n) \in Prefixes /\ Len(t(n)) = n /\ Contains(t(n), a)
                              /\ \A i \in 1 .. n : t(n)[i] = a[i]
    BY <1>1, FirstBits
  <2> HIDE DEF t
  <2>4. t(Len(p)) = p
    <3>1. \A i \in 1 .. Len(p) : p[i] = a[i]
      BY <1>1, <2>2, ContainsBits
    <3>2. \A i \in 1 .. Len(p) : t(Len(p))[i] = p[i]
      BY <2>2, <2>3, <3>1
    <3> QED
      BY <2>2, <2>3, <3>2, SamePrefix
  <2>5. R!Full(S, p)
    BY DEF R!Full, R!Covered
  <2>6. T \subseteq Nat /\ T # {}
    BY <1>1, <2>2, <2>4, <2>5
  <2>7. PICK n \in T : \A m \in T : n <= m
    BY <2>6, LeastElement
  <2>8. n \in 0 .. Width /\ R!Full(S, t(n))
    OBVIOUS
  <2>9. t(n) = <<>> \/ ~R!Full(S, R!Truncate(t(n), Len(t(n)) - 1))
    <3>1. CASE n = 0
      BY <2>3, <2>8, <3>1, PrefixIsSeq, EmptySeq
    <3>2. CASE n # 0
      <4>1. n - 1 \in 0 .. Width /\ n - 1 \notin T /\ n - 1 \in 0 .. n /\ n \in Nat
        BY <1>1, <2>7, <2>8, <3>2
      <4>2. ~R!Full(S, t(n - 1))
        BY <4>1
      <4> HIDE DEF T
      <4> DEFINE u == R!Truncate(t(n), n - 1)
      <4>3. u \in Prefixes /\ Len(u) = n - 1 /\ \A i \in 1 .. n - 1 : u[i] = t(n)[i]
        BY <2>3, <2>8, <4>1, FirstBits
      <4> HIDE DEF u
      <4>4. \A i \in 1 .. n - 1 : u[i] = t(n - 1)[i]
        <5>1. \A i \in 1 .. n - 1 : i \in 1 .. n
          BY <4>1
        <5>2. \A i \in 1 .. n - 1 : t(n)[i] = a[i] /\ t(n - 1)[i] = a[i]
          BY <2>3, <2>8, <4>1, <5>1
        <5> QED
          BY <4>3, <5>2
      <4>5. u = t(n - 1)
        BY <2>3, <4>1, <4>3, <4>4, SamePrefix
      <4> QED
        BY <2>3, <2>8, <4>2, <4>5 DEF u
    <3> QED
      BY <3>1, <3>2
  <2>10. t(n) \in R!Minimal(S)
    BY <2>3, <2>8, <2>9 DEF R!Minimal, R!Prefixes, Prefixes
  <2>11. R!Contains(t(n), a)
    BY <1>1, <2>3, <2>8, SameContains
  <2> QED
    BY <2>10, <2>11 DEF R!Covered
<1> QED
  BY <1>2, <1>3

(* None of them contains another one.                                      *)
LEMMA MinimalApart ==
    ASSUME NEW S \in SUBSET Prefixes, NEW p \in R!Minimal(S), NEW r \in R!Minimal(S), Contains(p, r)
    PROVE  p = r
<1>1. p \in Prefixes /\ r \in Prefixes /\ R!Full(S, p)
  BY DEF R!Minimal, R!Prefixes, Prefixes
<1> SUFFICES ASSUME p # r PROVE FALSE
  OBVIOUS
<1> DEFINE n == Len(r) - 1
           u == R!Truncate(r, n)
<1>2. Len(p) \in Nat /\ Len(r) \in Nat /\ Len(p) < Len(r)
  BY <1>1, ContainsLen, PrefixIsSeq
<1>3. n \in 0 .. Len(r) /\ Len(p) <= n
  BY <1>2
<1>4. u \in Prefixes /\ Len(u) = n /\ Contains(u, r)
  BY <1>1, <1>3, FirstBits
<1>5. r # <<>>
  BY <1>2
<1>6. ~R!Full(S, u)
  BY <1>5 DEF R!Minimal
<1> HIDE DEF u, n
<1>7. Contains(p, u)
  BY <1>1, <1>3, <1>4, ContainsChain
<1>8. ASSUME NEW a \in Addresses, R!Contains(u, a) PROVE R!Covered(S, a)
  <2>1. a \in Prefixes
    BY AddressIsPrefix
  <2>2. Contains(u, a)
    BY <1>4, <1>8, <2>1, SameContains
  <2>3. Contains(p, a)
    BY <1>1, <1>4, <1>7, <2>1, <2>2, ContainsTransitive
  <2>4. R!Contains(p, a)
    BY <1>1, <2>1, <2>3, SameContains
  <2> QED
    BY <1>1, <2>4 DEF R!Full, R!Addresses, Addresses
<1> QED
  BY <1>6, <1>8 DEF R!Full, R!Addresses, Addresses

-----------------------------------------------------------------------------
(* The inductive invariant.  What the server has: the tables are parts of  *)
(* the database, and the tries say what they were loaded from.             *)
Names == LoadAsnTxt(asnfile).names

IsTable(tables) ==
    /\ tables \in [Families -> [ASes -> SUBSET Prefixes]]
    /\ \A fam \in Families, as \in ASes : tables[fam][as] \subseteq db[fam][as]

TellsOf(fam, pairs) ==
    /\ pairs \subseteq Pairs(db[fam])
    /\ Tells(server.net2as[fam], pairs)
    /\ server.as2ip = db => pairs = Pairs(db[fam])

ServerInv ==
    /\ db \in Databases /\ asnfile \in AsnTxts
    /\ server.asntxt = Names \/ server.asntxt = NoNames
    /\ IsTable(server.as2ip)
    /\ \A fam \in Families : \E pairs \in SUBSET Pairs(db[fam]) : TellsOf(fam, pairs)

(* What the client has: until a host has answered, the ones that could are *)
(* left, unless something was lost.                                        *)
Tools == {"mccurtain", "mccurtaincgi", "udp", "dns", "mccdb"}
ClientFields == {"tool", "question", "flags", "given", "hosts", "phase", "id", "lost", "whole", "out", "exit"}

Asks(tool, q) == q \in Questions /\ q.kind \in Understood[tool]

SendableResponse(resp) ==
    /\ resp.prefixes # <<>>
    /\ \A junk \in Junk : M!Fits(M!ResponseMessage(M!NewHeader(junk), resp))

Sendable == SendableResponse(GetResponse(Request(client.question)))

CouldAnswer(host) ==
    /\ client.tool = "udp" => host = "up" /\ server.status = "serving" /\ Sendable
    /\ client.tool # "udp" => Serves(host)

Remains(given, hosts) ==
    \A i \in 1 .. Len(given) : CouldAnswer(given[i]) => \E j \in 1 .. Len(hosts) : hosts[j] = given[i]

ClientInv ==
    /\ DOMAIN client = ClientFields
    /\ client.tool \in Tools
    /\ client.phase \in {"idle", "hosts", "asked", "answered", "done"}
    /\ client.id \in Nat /\ client.lost \in BOOLEAN
    /\ client.hosts \in Seq(Hosts) /\ client.given \in Seq(Hosts)
    /\ client.phase # "idle" => Asks(client.tool, client.question)
    /\ client.phase # "idle" /\ client.tool # "mccdb" => server.status # "starting"
    /\ client.tool = "mccdb" => client.given = <<>>
    /\ client.phase # "done" => client.out = NoOutput /\ client.whole = FALSE
    /\ client.phase = "done" /\ client.out = NoOutput /\ ~client.lost
          /\ client.tool \in Tcp \cup {"udp"} => client.hosts = <<>>
    /\ client.phase # "idle" /\ ~client.lost => Remains(client.given, client.hosts)

(* What is in flight.                                                      *)
TcpAnswer(q) ==
    CASE q.kind = "ipv4" -> GetIpv4AddrResponse(q.key)
      [] q.kind = "ipv6" -> GetIpv6AddrResponse(q.key)
      [] q.kind = "as" -> GetASPrefixesResponse(q.key)
      [] q.kind = "country" -> GetCountryPrefixesResponse(q.key)

IsRequest(s) ==
    \E h \in Headers : h.id + 1 = client.id
                       /\ s = M!WriteMessage(M!RequestMessage(h, Request(client.question)))
IsResponse(s) ==
    \E h \in Headers : h.id + 1 = client.id
                       /\ s = M!WriteMessage(M!ResponseMessage(h, GetResponse(Request(client.question))))

TcpWire ==
    /\ client.phase = "asked" => wire = client.question
    /\ client.phase = "answered" => wire = TcpAnswer(client.question)

UdpWire ==
    /\ client.phase = "asked" => wire = <<>> \/ IsRequest(wire)
    /\ client.phase = "answered" => wire = <<>> \/ IsResponse(wire)
    /\ client.phase \in {"asked", "answered"} =>
          /\ client.hosts # <<>> /\ Junk # {}
          /\ wire = <<>> /\ ~client.lost => ~CouldAnswer(Head(client.hosts))

DnsWire ==
    /\ client.phase = "asked" => wire = <<>> \/ wire = client.question
    /\ client.phase = "answered" =>
          wire = <<>> \/ wire = MatchesOf(server.net2as[4], Ipv4Address(client.question),
                                         server.asntxt, Dashes)

WireInv ==
    /\ client.phase \in {"idle", "hosts", "done"} => wire = <<>>
    /\ client.tool \in Tcp => TcpWire
    /\ client.tool = "udp" => UdpWire
    /\ client.tool = "dns" => DnsWire
    /\ client.tool = "mccdb" => client.phase \in {"idle", "hosts", "done"}

LInv == ServerInv /\ ClientInv /\ WireInv

(* The pairs of a table.                                                   *)
LEMMA PairsIs ==
    ASSUME NEW nets \in [ASes -> SUBSET Prefixes]
    PROVE  /\ Pairs(nets) \subseteq Prefixes \X ASes
           /\ \A p, as : <<p, as>> \in Pairs(nets) <=> as \in ASes /\ p \in nets[as]
<1>1. ASSUME NEW e \in Pairs(nets) PROVE e \in Prefixes \X ASes
  <2>1. PICK as \in ASes : e \in {<<p, as>> : p \in nets[as]}
    BY DEF Pairs
  <2>2. PICK p \in nets[as] : e = <<p, as>>
    BY <2>1
  <2>3. p \in Prefixes
    OBVIOUS
  <2> QED
    BY <2>2, <2>3
<1>2. ASSUME NEW p, NEW as PROVE <<p, as>> \in Pairs(nets) <=> as \in ASes /\ p \in nets[as]
  <2>1. ASSUME <<p, as>> \in Pairs(nets) PROVE as \in ASes /\ p \in nets[as]
    <3>1. PICK as0 \in ASes : <<p, as>> \in {<<p0, as0>> : p0 \in nets[as0]}
      BY <2>1 DEF Pairs
    <3>2. PICK p0 \in nets[as0] : <<p, as>> = <<p0, as0>>
      BY <3>1
    <3> QED
      BY <3>2
  <2>2. ASSUME as \in ASes, p \in nets[as] PROVE <<p, as>> \in Pairs(nets)
    <3>1. <<p, as>> \in {<<p0, as>> : p0 \in nets[as]}
      BY <2>2
    <3> DEFINE Of(n) == {<<p0, n>> : p0 \in nets[n]}
    <3>2. Pairs(nets) = UNION {Of(n) : n \in ASes} /\ <<p, as>> \in Of(as)
      BY <3>1 DEF Pairs
    <3> HIDE DEF Of
    <3> QED
      BY <2>2, <3>2
  <2> QED
    BY <2>1, <2>2
<1> QED
  BY <1>1, <1>2

(* The pairs of a part of the database.                                    *)
LEMMA TablePairs ==
    ASSUME db \in Databases, NEW tables, IsTable(tables), NEW fam \in Families
    PROVE  /\ Pairs(tables[fam]) \subseteq Pairs(db[fam])
           /\ Pairs(tables[fam]) \subseteq Prefixes \X ASes /\ IsFiniteSet(Pairs(tables[fam]))
           /\ Tells(LoadPairs(Pairs(tables[fam])), Pairs(tables[fam]))
<1>1. db \in [Families -> [ASes -> SUBSET Prefixes]] /\ IsFiniteSet(Pairs(db[fam]))
  BY LookupAssumption
<1> DEFINE nets == tables[fam]
           all == db[fam]
<1>2. nets \in [ASes -> SUBSET Prefixes] /\ \A as \in ASes : nets[as] \subseteq all[as]
  BY DEF IsTable
<1>3. all \in [ASes -> SUBSET Prefixes]
  BY <1>1
<1> HIDE DEF nets, all
<1>4. Pairs(nets) \subseteq Pairs(all)
  <2> SUFFICES ASSUME NEW e \in Pairs(nets) PROVE e \in Pairs(all)
    OBVIOUS
  <2>1. e \in Prefixes \X ASes
    BY <1>2, PairsIs
  <2>2. e = <<e[1], e[2]>>
    BY <2>1
  <2>3. e[2] \in ASes /\ e[1] \in nets[e[2]]
    BY <1>2, <2>2, PairsIs
  <2>4. e[1] \in all[e[2]]
    BY <1>2, <2>3
  <2> QED
    BY <1>3, <2>2, <2>3, <2>4, PairsIs
<1>5. IsFiniteSet(Pairs(nets)) /\ Pairs(nets) \subseteq Prefixes \X ASes
  BY <1>1, <1>2, <1>4, FS_Subset, PairsIs DEF all
<1>6. Tells(LoadPairs(Pairs(nets)), Pairs(nets))
  BY <1>5, LoadTells
<1> QED
  BY <1>4, <1>5, <1>6 DEF nets, all

(* The parts of the database that a load can leave.                        *)
LEMMA LoadsAreTables ==
    ASSUME db \in Databases, NEW load \in DbLoads
    PROVE  IsTable(load.as2ip) /\ (~load.ok => load.as2ip # db)
<1>1. db \in [Families -> [ASes -> SUBSET Prefixes]]
  BY LookupAssumption
<1>2. IsTable(db)
  BY <1>1 DEF IsTable
<1> DEFINE Small(n, fam) == n \in [ASes -> SUBSET Prefixes] /\ \A as \in ASes : n[as] \subseteq db[fam][as]
<1>3. ASSUME NEW fam \in Families, NEW n \in Parts(db[fam]) PROVE Small(n, fam)
  <2>1. PICK S \in SUBSET Pairs(db[fam]) : n = Part(db[fam], S)
    BY DEF Parts
  <2>2. n = [as \in ASes |-> {p \in db[fam][as] : <<p, as>> \in S}]
    BY <2>1 DEF Part
  <2>3. db[fam] \in [ASes -> SUBSET Prefixes]
    BY <1>1
  <2> QED
    BY <2>2, <2>3
<1>4. 4 \in Families /\ 6 \in Families /\ \A fam \in Families : fam = 4 \/ fam = 6
  BY DEF Families
<1>5. \A fam \in Families : Small(NoNets, fam) /\ Small(db[fam], fam)
  BY <1>1 DEF NoNets
<1>6. ASSUME NEW n4, NEW n6, Small(n4, 4), Small(n6, 6) PROVE IsTable(Tables(n4, n6))
  <2> DEFINE t == Tables(n4, n6)
  <2>1. t = [fam \in Families |-> IF fam = 4 THEN n4 ELSE n6]
    BY DEF Tables
  <2> HIDE DEF t
  <2>2. t[4] = n4 /\ t[6] = n6
    BY <1>4, <2>1
  <2>3. \A fam \in Families : Small(t[fam], fam)
    BY <1>4, <1>6, <2>2
  <2>4. t \in [Families -> [ASes -> SUBSET Prefixes]]
    BY <2>1, <2>3
  <2>5. IsTable(t)
    BY <2>3, <2>4 DEF IsTable
  <2> QED
    BY <2>5 DEF t
<1> HIDE DEF Small
<1> DEFINE parts == {Tables(nets4, NoNets) : nets4 \in Parts(db[4])}
                    \cup {Tables(db[4], nets6) : nets6 \in Parts(db[6])}
<1>7. \A t \in parts : IsTable(t)
  BY <1>3, <1>4, <1>5, <1>6
<1>8. load \in {[ok |-> TRUE, as2ip |-> db]} \cup [ok : BOOLEAN, as2ip : parts \ {db}]
  BY DEF DbLoads
<1> HIDE DEF parts
<1>9. CASE load = [ok |-> TRUE, as2ip |-> db]
  BY <1>2, <1>9
<1>10. CASE load \in [ok : BOOLEAN, as2ip : parts \ {db}]
  <2>1. load.as2ip \in parts /\ load.as2ip # db
    BY <1>10
  <2> QED
    BY <1>7, <2>1
<1> QED
  BY <1>8, <1>9, <1>10

(* What asn.txt gives.                                                     *)
LEMMA AsnLoadIs ==
    ASSUME asnfile \in AsnTxts, NEW asn \in AsnLoads
    PROVE  /\ asn.names = Names \/ asn.names = NoNames
           /\ asn.status = "good" => asn.names = Names
<1>1. asn = LoadAsnTxt(asnfile) \/ asn = LoadAsnTxt(<<>>)
  BY DEF AsnLoads
<1>2. LoadAsnTxt(<<>>).status # "good"
  BY EmptyAsnTxt
<1> QED
  BY <1>1, <1>2, EmptyAsnTxt DEF Names

(* Names of ASes.                                                          *)
LEMMA NamesAre ==
    ASSUME asnfile \in AsnTxts
    PROVE  IsNames(Names) /\ IsNames(NoNames)
<1>1. asnfile \in Seq(AsnLines)
  BY LookupAssumption
<1>2. LoadAsnTxt(asnfile) \in ReadResults
  BY <1>1, AsnTxtReads
<1>3. LoadAsnTxt(asnfile).names \in NameTables
  BY <1>2 DEF ReadResults
<1> QED
  BY <1>3, NoNamesIs, TableIsNames DEF Names

(* An answer about an address.                                             *)
LEMMA ServerAnswers ==
    ASSUME ServerInv, NEW fam \in Families, NEW a \in Addresses, NEW unknown, Blank(unknown)
    PROVE  \E pairs : /\ TellsOf(fam, pairs)
                      /\ Answers(MatchesOf(server.net2as[fam], a, server.asntxt, unknown),
                                 a, pairs, server.asntxt, FALSE)
<1>1. PICK pairs : TellsOf(fam, pairs)
  BY DEF ServerInv
<1>2. IsNames(server.asntxt)
  BY NamesAre DEF ServerInv
<1>3. a \in Prefixes
  BY AddressIsPrefix
<1>4. Tells(server.net2as[fam], pairs)
  BY <1>1 DEF TellsOf
<1> DEFINE t == server.net2as[fam]
           names == server.asntxt
<1>5. Tells(t, pairs) /\ IsNames(names)
  BY <1>2, <1>4
<1> HIDE DEF t, names
<1>6. Answers(MatchesOf(t, a, names, unknown), a, pairs, names, FALSE)
  BY <1>3, <1>5, MatchesAnswer
<1>7. Answers(MatchesOf(server.net2as[fam], a, server.asntxt, unknown), a, pairs, server.asntxt, FALSE)
  BY <1>6, Zenon DEF t, names
<1> QED
  BY <1>1, <1>7

(* A response over UDP.                                                    *)
LEMMA ResponseIs ==
    ASSUME ServerInv, NEW q \in Questions, q.kind \in {"ipv4", "ipv6"}
    PROVE  /\ Family(q) \in Families /\ q.key \in Addresses
           /\ Request(q) \in Families \X Addresses
           /\ GetResponse(Request(q)) \in Responses
           /\ Len(GetResponse(Request(q)).prefixes) < Byte
           /\ GetResponse(Request(q)).prefixes
                  = MatchesOf(server.net2as[Family(q)], q.key, server.asntxt, Dashes)
<1> DEFINE fam == Family(q)
           a == q.key
           m == MatchesOf(server.net2as[fam], a, server.asntxt, Dashes)
           r == GetResponse(Request(q))
<1>1. a \in Addresses
  BY DEF Questions
<1>2. fam \in Families /\ (fam = 4 \/ fam = 6)
  BY DEF Family, Families
<1>3. Request(q) = <<fam, a>>
  BY DEF Request, Family
<1>4. r = [request |-> <<fam, a>>, prefixes |-> m]
  BY <1>2, <1>3 DEF GetResponse, GetV4AddrResponse, GetV6AddrResponse
<1> HIDE DEF fam, a, m, r
<1>5. <<fam, a>> \in Families \X Addresses
  BY <1>1, <1>2
<1>6. PICK pairs : Answers(m, a, pairs, server.asntxt, FALSE)
  BY <1>1, <1>2, Blanks, ServerAnswers DEF m
<1>7. m \in Seq(PrefixRecords) /\ Len(m) < Byte
  BY <1>6, AnswerShort
<1> DEFINE x == <<fam, a>>
<1>8. r = [request |-> x, prefixes |-> m] /\ x \in Families \X Addresses
  BY <1>4, <1>5
<1> HIDE DEF x
<1>9. r \in Responses /\ r.prefixes = m
  BY <1>7, <1>8 DEF Responses
<1> QED
  BY <1>1, <1>2, <1>3, <1>5, <1>7, <1>9, Zenon DEF fam, a, m, r

(* A response that fits with one header fits with any.                     *)
LEMMA FitsAnyHeader ==
    ASSUME NEW resp \in Responses, Len(resp.prefixes) < Byte, NEW h \in Headers, NEW g \in Headers
    PROVE  M!Fits(M!ResponseMessage(h, resp)) <=> M!Fits(M!ResponseMessage(g, resp))
BY ReadResponseMessage DEF M!Fits

(* A header for any junk.                                                  *)
LEMMA JunkHeader ==
    ASSUME NEW junk \in Junk
    PROVE  M!NewHeader(junk) \in Headers
<1>1. junk \in Nat /\ junk < 65536
  BY LookupAssumption
<1>2. junk \in UpTo(65535)
  BY <1>1, UpToIs
<1> QED
  BY <1>2, NewHeaderIs

-----------------------------------------------------------------------------
(* The steps of the client.                                                *)

(* Whether a host could answer does not depend on how far the client is.   *)
LEMMA SameCould ==
    ASSUME UNCHANGED server, client'.tool = client.tool, client'.question = client.question
    PROVE  /\ GetResponse(Request(client.question))' = GetResponse(Request(client.question))
           /\ \A host : CouldAnswer(host)' <=> CouldAnswer(host)
<1>1. GetResponse(Request(client.question))' = GetResponse(Request(client.question))
  BY DEF GetResponse, GetV4AddrResponse, GetV6AddrResponse, Request
<1>2. Sendable' <=> Sendable
  BY <1>1 DEF Sendable, SendableResponse
<1>3. \A host : CouldAnswer(host)' <=> CouldAnswer(host)
  BY <1>2 DEF CouldAnswer, Serves
<1> QED
  BY <1>1, <1>3

(* A step that keeps the list of hosts, or passes over one.                *)
Goes(c, d) ==
    /\ DOMAIN d = ClientFields
    /\ d.tool = c.tool /\ d.question = c.question /\ d.given = c.given /\ d.flags = c.flags
    /\ d.phase \in {"hosts", "asked", "answered", "done"}
    /\ d.id \in Nat /\ d.lost \in BOOLEAN
    /\ c.lost => d.lost
    /\ d.phase # "done" => d.out = NoOutput /\ d.whole = FALSE
    /\ d.phase = "done" /\ d.out = NoOutput /\ ~d.lost /\ d.tool \in Tcp \cup {"udp"} => d.hosts = <<>>

LEMMA StaysClient ==
    ASSUME ClientInv, UNCHANGED server, client.phase # "idle", Goes(client, client'),
           client'.hosts = client.hosts
    PROVE  ClientInv'
<1>1. \A host : CouldAnswer(host)' <=> CouldAnswer(host)
  BY SameCould DEF Goes
<1>2. client'.phase # "idle" /\ ~client'.lost => Remains(client.given, client.hosts)'
  <2>1. client'.given = client.given /\ client'.hosts = client.hosts /\ (~client'.lost => ~client.lost)
    BY DEF Goes
  <2> QED
    BY <1>1, <2>1 DEF Remains, ClientInv
<1>3. Asks(client.tool, client.question)' /\ client'.phase # "idle"
  BY DEF Goes, ClientInv, Asks
<1> QED
  BY <1>2, <1>3 DEF Goes, ClientInv

(* The first host is passed over, which could not have answered.           *)
LEMMA SkipsHost ==
    ASSUME ClientInv, UNCHANGED server, client.phase # "idle", Goes(client, client'),
           client.hosts # <<>>, client'.hosts = Tail(client.hosts),
           ~client'.lost => ~CouldAnswer(Head(client.hosts))
    PROVE  ClientInv'
<1> DEFINE hosts == client.hosts
           rest == client'.hosts
<1>1. \A host : CouldAnswer(host)' <=> CouldAnswer(host)
  BY SameCould DEF Goes
<1>4. hosts \in Seq(Hosts) /\ Len(hosts) \in Nat /\ hosts # <<>> /\ rest = Tail(hosts)
  BY LenProperties DEF ClientInv
<1>7. ~client'.lost => ~CouldAnswer(Head(hosts))
  OBVIOUS
<1> HIDE DEF hosts, rest
<1>5. /\ rest \in Seq(Hosts) /\ Len(rest) = Len(hosts) - 1
      /\ \A j \in 1 .. Len(rest) : rest[j] = hosts[j + 1]
      /\ hosts[1] = Head(hosts)
  BY <1>4
<1>6. \A j \in 1 .. Len(hosts) : j = 1 \/ (j - 1 \in 1 .. Len(rest) /\ rest[j - 1] = hosts[j])
  BY <1>4, <1>5
<1>2. ASSUME ~client'.lost PROVE Remains(client.given, client.hosts)'
  <2>1. client'.given = client.given /\ ~client.lost
    BY <1>2 DEF Goes
  <2>2. Remains(client.given, hosts)
    BY <2>1 DEF ClientInv, hosts
  <2>3. ASSUME NEW i \in 1 .. Len(client.given), CouldAnswer(client.given[i])
        PROVE  \E j \in 1 .. Len(rest) : rest[j] = client.given[i]
    <3>1. PICK j \in 1 .. Len(hosts) : hosts[j] = client.given[i]
      BY <2>2, <2>3 DEF Remains
    <3>2. j # 1
      BY <1>2, <1>5, <1>7, <2>3, <3>1
    <3> QED
      BY <1>6, <3>1, <3>2
  <2> QED
    BY <1>1, <2>1, <2>3 DEF Remains, rest
<1>3. Asks(client.tool, client.question)' /\ client'.phase # "idle"
  BY DEF Goes, ClientInv, Asks
<1> QED
  BY <1>2, <1>3, <1>5 DEF Goes, ClientInv, rest

(* What the server has stays.                                              *)
LEMMA SameServer ==
    ASSUME ServerInv, UNCHANGED <<db, asnfile, server>>
    PROVE  ServerInv'
<1>1. db' = db /\ asnfile' = asnfile /\ server' = server
  OBVIOUS
<1>2. Names' = Names
  BY <1>1 DEF Names
<1>3. \A fam, pairs : TellsOf(fam, pairs)' <=> TellsOf(fam, pairs)
  BY <1>1 DEF TellsOf
<1>4. IsTable(server.as2ip)' <=> IsTable(server.as2ip)
  BY <1>1 DEF IsTable
<1> QED
  BY <1>1, <1>2, <1>3, <1>4 DEF ServerInv

(* Nothing is in flight.                                                   *)
LEMMA NothingInFlight ==
    ASSUME client'.phase \in {"idle", "hosts", "done"}, wire' = <<>>
    PROVE  WireInv'
BY DEF WireInv, TcpWire, UdpWire, DnsWire

(* In the beginning nothing is loaded and nobody asks.                     *)
LEMMA InitLInv == Init => LInv
<1> SUFFICES ASSUME Init PROVE LInv
  OBVIOUS
<1> USE DEF Init
<1>1. ServerInv
  <2>1. server.as2ip = Tables(NoNets, NoNets) /\ server.net2as = NoTries /\ server.asntxt = NoNames
    OBVIOUS
  <2>2. db \in [Families -> [ASes -> SUBSET Prefixes]]
    BY LookupAssumption
  <2>3. NoNets \in [ASes -> SUBSET Prefixes] /\ \A as \in ASes : NoNets[as] = {}
    BY DEF NoNets
  <2>4. Tables(NoNets, NoNets) = [fam \in Families |-> NoNets]
    BY DEF Tables
  <2>5. IsTable(Tables(NoNets, NoNets))
    BY <2>3, <2>4 DEF IsTable
  <2>6. ASSUME NEW fam \in Families PROVE TellsOf(fam, {})
    <3>1. server.net2as[fam] = EmptyTrie
      BY <2>1 DEF NoTries
    <3>2. ASSUME server.as2ip = db PROVE Pairs(db[fam]) = {}
      <4>1. db[fam] = NoNets
        BY <2>1, <2>4, <3>2
      <4> QED
        BY <2>3, <4>1 DEF Pairs
    <3> QED
      BY <3>1, <3>2, EmptyTells DEF TellsOf
  <2>7. \A fam \in Families : {} \in SUBSET Pairs(db[fam])
    OBVIOUS
  <2> QED
    BY <2>1, <2>5, <2>6, <2>7 DEF ServerInv
<1>2. ClientInv
  <2>1. client = Idle
    OBVIOUS
  <2>2. <<>> \in Seq(Hosts)
    OBVIOUS
  <2> QED
    BY <2>1, <2>2 DEF Idle, ClientInv, ClientFields, Tools, Tcp
<1>3. WireInv
  <2>1. client.phase = "idle" /\ wire = <<>> /\ client.tool = "mccdb"
    BY DEF Idle
  <2> QED
    BY <2>1 DEF WireInv, TcpWire, UdpWire, DnsWire
<1> QED
  BY <1>1, <1>2, <1>3 DEF LInv

(* The load leaves a part of the files.                                    *)
LEMMA InitDatabasesInv ==
    ASSUME LInv, InitDatabases
    PROVE  LInv'
<1>1. /\ db' = db /\ asnfile' = asnfile /\ client' = client /\ wire' = wire
      /\ server.status = "starting"
  BY DEF InitDatabases
<1>2. ServerInv /\ ClientInv /\ WireInv /\ db \in Databases /\ asnfile \in AsnTxts
  BY DEF LInv, ServerInv
<1>3. client.phase = "idle" \/ client.tool = "mccdb"
  BY <1>1, <1>2 DEF ClientInv
<1>4. ClientInv'
  <2>1. client.tool = "mccdb" => Remains(client.given, client.hosts)'
    BY <1>1, <1>2 DEF Remains, ClientInv
  <2>2. Asks(client.tool, client.question)' <=> Asks(client.tool, client.question)
    BY <1>1 DEF Asks
  <2> QED
    BY <1>1, <1>2, <1>3, <2>1, <2>2 DEF ClientInv
<1>5. WireInv'
  <2>1. client.phase \in {"idle", "hosts", "done"}
    BY <1>2, <1>3 DEF WireInv
  <2>2. wire = <<>>
    BY <1>2, <2>1 DEF WireInv
  <2> QED
    BY <1>1, <2>1, <2>2, NothingInFlight
<1>6. Names' = Names
  BY <1>1 DEF Names
<1>7. PICK load \in DbLoads : \E asn \in AsnLoads :
          server' = IF load.ok
                    THEN [status |-> IF asn.status = "thrown" THEN "ended" ELSE "serving",
                          as2ip  |-> load.as2ip,
                          net2as |-> [fam \in Families |->
                                         IF fam = 4 THEN LoadIpv4Net2AS(load.as2ip[4])
                                                    ELSE LoadIpv6Net2AS(load.as2ip[6])],
                          asntxt |-> asn.names]
                    ELSE [status |-> "serving", as2ip |-> load.as2ip,
                          net2as |-> NoTries, asntxt |-> NoNames]
  BY DEF InitDatabases
<1>8. PICK asn \in AsnLoads :
          server' = IF load.ok
                    THEN [status |-> IF asn.status = "thrown" THEN "ended" ELSE "serving",
                          as2ip  |-> load.as2ip,
                          net2as |-> [fam \in Families |->
                                         IF fam = 4 THEN LoadIpv4Net2AS(load.as2ip[4])
                                                    ELSE LoadIpv6Net2AS(load.as2ip[6])],
                          asntxt |-> asn.names]
                    ELSE [status |-> "serving", as2ip |-> load.as2ip,
                          net2as |-> NoTries, asntxt |-> NoNames]
  BY <1>7
<1> DEFINE tables == load.as2ip
<1>9. IsTable(tables) /\ (~load.ok => tables # db)
  BY <1>2, LoadsAreTables
<1>10. asn.names = Names \/ asn.names = NoNames
  BY <1>2, AsnLoadIs
<1>11. server'.as2ip = tables
  BY <1>8
<1>12. server'.asntxt = Names' \/ server'.asntxt = NoNames
  BY <1>6, <1>8, <1>10
<1>13. IsTable(server.as2ip)'
  BY <1>1, <1>9, <1>11 DEF IsTable
<1>14. ASSUME NEW fam \in Families PROVE \E pairs \in SUBSET Pairs(db'[fam]) : TellsOf(fam, pairs)'
  <2>1. CASE load.ok
    <3>1. server'.net2as[fam] = LoadPairs(Pairs(tables[fam]))
      <4>1. fam = 4 \/ fam = 6
        BY DEF Families
      <4> QED
        BY <1>8, <2>1, <4>1 DEF LoadIpv4Net2AS, LoadIpv6Net2AS
    <3> HIDE DEF tables
    <3>2. /\ Pairs(tables[fam]) \subseteq Pairs(db[fam])
          /\ Tells(LoadPairs(Pairs(tables[fam])), Pairs(tables[fam]))
      BY <1>2, <1>9, TablePairs
    <3>3. TellsOf(fam, Pairs(tables[fam]))'
      BY <1>1, <1>11, <3>1, <3>2 DEF TellsOf
    <3> QED
      BY <1>1, <3>2, <3>3
  <2>2. CASE ~load.ok
    <3>1. server'.net2as[fam] = EmptyTrie /\ server'.as2ip # db
      BY <1>8, <1>9, <1>11, <2>2 DEF NoTries
    <3>2. TellsOf(fam, {})'
      BY <1>1, <3>1, EmptyTells DEF TellsOf
    <3> QED
      BY <3>2
  <2> QED
    BY <2>1, <2>2
<1>15. ServerInv'
  BY <1>1, <1>2, <1>12, <1>13, <1>14 DEF ServerInv
<1> QED
  BY <1>4, <1>5, <1>15 DEF LInv

(* The next user asks.                                                     *)
LEMMA RunInv ==
    ASSUME LInv, NEW tool \in DOMAIN Understood, NEW q \in Questions, NEW hosts \in HostLists,
           NEW flags, Run(tool, q, flags, hosts)
    PROVE  LInv'
<1>1. UNCHANGED <<db, asnfile, server>> /\ wire' = wire /\ client.phase = "idle"
  BY DEF Run
<1>2. ServerInv /\ ClientInv /\ WireInv
  BY DEF LInv
<1>3. client' = [Idle EXCEPT !.tool = tool, !.question = q, !.flags = flags, !.given = hosts,
                             !.hosts = hosts, !.phase = "hosts"]
  BY DEF Run
<1>4. /\ DOMAIN client' = ClientFields
      /\ client'.tool = tool /\ client'.question = q /\ client'.given = hosts /\ client'.hosts = hosts
      /\ client'.phase = "hosts" /\ client'.id = 0 /\ client'.lost = FALSE /\ client'.whole = FALSE
      /\ client'.out = NoOutput
  BY <1>3 DEF Idle, ClientFields
<1>5. tool \in Tools /\ hosts \in Seq(Hosts)
  BY LookupAssumption DEF Understood, Tools
<1>6. Asks(client.tool, client.question)'
  BY <1>4 DEF Run, Asks
<1>7. Remains(client.given, client.hosts)'
  <2>1. Len(hosts) \in Nat
    BY <1>5
  <2> QED
    BY <1>4, <2>1 DEF Remains
<1>8. tool # "mccdb" => server'.status # "starting"
  BY <1>1 DEF Run
<1>9. tool = "mccdb" => hosts = <<>>
  BY DEF Run
<1>10. ClientInv'
  <2>1. 0 \in Nat /\ FALSE \in BOOLEAN
    OBVIOUS
  <2>2. client'.id \in Nat /\ client'.lost \in BOOLEAN
    BY <1>4, <2>1
  <2>3. client'.given \in Seq(Hosts) /\ client'.hosts \in Seq(Hosts)
    BY <1>4, <1>5
  <2> QED
    BY <1>4, <1>5, <1>6, <1>7, <1>8, <1>9, <2>2, <2>3 DEF ClientInv
<1>11. WireInv'
  BY <1>1, <1>2, <1>4, NothingInFlight DEF WireInv
<1> QED
  BY <1>1, <1>2, <1>10, <1>11, SameServer DEF LInv

(* The user is done.                                                       *)
LEMMA ExitInv ==
    ASSUME LInv, Exit
    PROVE  LInv'
<1>1. UNCHANGED <<db, asnfile, server>> /\ wire' = wire /\ client.phase = "done" /\ client' = Idle
  BY DEF Exit
<1>2. ServerInv /\ ClientInv /\ WireInv
  BY DEF LInv
<1>3. <<>> \in Seq(Hosts)
  OBVIOUS
<1>4. ClientInv'
  BY <1>1, <1>3 DEF Idle, ClientInv, ClientFields, Tools, Tcp
<1>5. WireInv'
  BY <1>1, <1>2, NothingInFlight DEF WireInv, Idle
<1> QED
  BY <1>1, <1>2, <1>4, <1>5, SameServer DEF LInv

(* A host is asked over TCP, or passed over.                               *)
LEMMA GetPeerInv ==
    ASSUME LInv, GetPeer
    PROVE  LInv'
<1>1. /\ UNCHANGED <<db, asnfile, server>> /\ UNCHANGED server
      /\ client.phase = "hosts" /\ client.tool \in Tcp
  BY DEF GetPeer
<1>2. ServerInv /\ ClientInv /\ WireInv
  BY DEF LInv
<1>3. wire = <<>> /\ client.phase # "idle" /\ client.tool # "udp" /\ client.tool # "dns" /\ client.tool # "mccdb"
  BY <1>1, <1>2 DEF WireInv, Tcp
<1>4. /\ DOMAIN client = ClientFields /\ client.id \in Nat /\ client.lost \in BOOLEAN
      /\ client.out = NoOutput /\ client.whole = FALSE
  BY <1>1, <1>2 DEF ClientInv
<1>5. CASE /\ client.hosts # <<>> /\ Serves(Head(client.hosts))
           /\ client' = [client EXCEPT !.phase = "asked"]
           /\ wire' = client.question
  <2>1. Goes(client, client') /\ client'.hosts = client.hosts
    BY <1>4, <1>5 DEF Goes, ClientFields
  <2>2. ClientInv'
    BY <1>1, <1>2, <1>3, <2>1, StaysClient
  <2>3. /\ client'.phase = "asked" /\ client'.tool = client.tool /\ client'.question = client.question
        /\ wire' = client.question
    BY <1>4, <1>5 DEF ClientFields
  <2>4. WireInv'
    BY <1>1, <1>3, <2>3 DEF WireInv, TcpWire
  <2> QED
    BY <1>1, <1>2, <2>2, <2>4, SameServer DEF LInv
<1>6. CASE client.hosts # <<>> /\ ~Serves(Head(client.hosts)) /\ SkipHost /\ UNCHANGED wire
  <2>1. Goes(client, client') /\ client'.hosts = Tail(client.hosts)
    BY <1>1, <1>4, <1>6 DEF Goes, ClientFields, SkipHost
  <2>2. ~CouldAnswer(Head(client.hosts))
    BY <1>3, <1>6 DEF CouldAnswer
  <2>3. ClientInv'
    BY <1>1, <1>2, <1>3, <1>6, <2>1, <2>2, SkipsHost
  <2>4. client'.phase = "hosts" /\ wire' = <<>>
    BY <1>1, <1>3, <1>4, <1>6 DEF SkipHost, ClientFields
  <2>5. WireInv'
    BY <2>4, NothingInFlight
  <2> QED
    BY <1>1, <1>2, <2>3, <2>5, SameServer DEF LInv
<1>7. CASE client.hosts = <<>> /\ Finish(NoOutput, 1) /\ UNCHANGED wire
  <2>1. Goes(client, client') /\ client'.hosts = client.hosts
    BY <1>4, <1>7 DEF Goes, ClientFields, Finish
  <2>2. ClientInv'
    BY <1>1, <1>2, <1>3, <2>1, StaysClient
  <2>3. client'.phase = "done" /\ wire' = <<>>
    BY <1>3, <1>4, <1>7 DEF Finish, ClientFields
  <2>4. WireInv'
    BY <2>3, NothingInFlight
  <2> QED
    BY <1>1, <1>2, <2>2, <2>4, SameServer DEF LInv
<1> QED
  BY <1>5, <1>6, <1>7 DEF GetPeer

(* The same question has the same answer.                                  *)
LEMMA SameTcpAnswer ==
    ASSUME UNCHANGED server, client'.question = client.question
    PROVE  TcpAnswer(client.question)' = TcpAnswer(client.question)
<1>1. \A a : GetIpv4AddrResponse(a)' = GetIpv4AddrResponse(a)
  BY DEF GetIpv4AddrResponse
<1>2. \A a : GetIpv6AddrResponse(a)' = GetIpv6AddrResponse(a)
  BY DEF GetIpv6AddrResponse
<1>3. \A as : GetASPrefixesResponse(as)' = GetASPrefixesResponse(as)
  BY DEF GetASPrefixesResponse
<1>4. \A cc : GetCountryPrefixesResponse(cc)' = GetCountryPrefixesResponse(cc)
  BY <1>3 DEF GetCountryPrefixesResponse
<1> QED
  BY <1>1, <1>2, <1>3, <1>4 DEF TcpAnswer

(* The answer over TCP.                                                    *)
LEMMA HandleRequestInv ==
    ASSUME LInv, HandleRequest
    PROVE  LInv'
<1>1. /\ UNCHANGED <<db, asnfile, server>> /\ UNCHANGED server
      /\ client.phase = "asked" /\ client.tool \in Tcp /\ Dispatch(wire)
      /\ client' = [client EXCEPT !.phase = "answered"]
  BY DEF HandleRequest
<1>2. ServerInv /\ ClientInv /\ WireInv
  BY DEF LInv
<1>3. /\ wire = client.question
      /\ client.phase # "idle" /\ client.tool # "udp" /\ client.tool # "dns" /\ client.tool # "mccdb"
  BY <1>1, <1>2 DEF WireInv, Tcp, TcpWire
<1>4. /\ DOMAIN client = ClientFields /\ client.id \in Nat /\ client.lost \in BOOLEAN
      /\ client.out = NoOutput /\ client.whole = FALSE
  BY <1>1, <1>2 DEF ClientInv
<1>5. Goes(client, client') /\ client'.hosts = client.hosts
  BY <1>1, <1>4 DEF Goes, ClientFields
<1>6. ClientInv'
  BY <1>1, <1>2, <1>3, <1>5, StaysClient
<1>7. client'.phase = "answered" /\ client'.tool = client.tool /\ client'.question = client.question
  BY <1>1, <1>4 DEF ClientFields
<1>8. wire' = TcpAnswer(client.question)
  BY <1>1, <1>3 DEF Dispatch, SendIpv4AddrResponse, SendIpv6AddrResponse, SendASPrefixesResponse,
                    SendCountryPrefixesResponse, TcpAnswer
<1>9. TcpAnswer(client.question)' = TcpAnswer(client.question)
  BY <1>1, <1>7, SameTcpAnswer
<1>10. WireInv'
  BY <1>1, <1>3, <1>7, <1>8, <1>9 DEF WireInv, TcpWire
<1> QED
  BY <1>1, <1>2, <1>6, <1>10, SameServer DEF LInv

(* A connection fails.                                                     *)
LEMMA PeerFailsInv ==
    ASSUME LInv, PeerFails
    PROVE  LInv'
<1>1. /\ UNCHANGED <<db, asnfile, server>> /\ UNCHANGED server /\ wire' = <<>>
      /\ client.phase \in {"asked", "answered"}
      /\ client' = [client EXCEPT !.phase = "done", !.lost = TRUE, !.exit = 1]
  BY DEF PeerFails
<1>2. ServerInv /\ ClientInv /\ WireInv
  BY DEF LInv
<1>3. DOMAIN client = ClientFields /\ client.id \in Nat /\ client.lost \in BOOLEAN /\ client.phase # "idle"
  BY <1>1, <1>2 DEF ClientInv
<1>4. Goes(client, client') /\ client'.hosts = client.hosts /\ client'.phase = "done"
  BY <1>1, <1>3 DEF Goes, ClientFields
<1> QED
  BY <1>1, <1>2, <1>3, <1>4, SameServer, StaysClient, NothingInFlight DEF LInv

(* What is printed is something.                                           *)
LEMMA PrintsSomething ==
    ASSUME NEW q, NEW flags, NEW show, NEW resp, q.kind \in {"ipv4", "ipv6", "as", "country"}
    PROVE  Printed(q, flags, show, resp) # NoOutput
<1>1. NoOutput.kind = "nothing"
  BY DEF NoOutput
<1>2. Printed(q, flags, show, resp).kind \in {"matches", "prefixes", "ases"}
  BY DEF Printed, PrintIpv4AddrResponse, PrintIpv6AddrResponse, PrintASPrefixesResponse,
         PrintEachAS, PrintCountryPrefixesResponse
<1> QED
  BY <1>1, <1>2

(* What came is printed.                                                   *)
LEMMA FinishesWith ==
    ASSUME LInv, UNCHANGED <<db, asnfile, server>>, wire' = <<>>, client.phase # "idle",
           NEW out, FinishWith(out), out # NoOutput
    PROVE  LInv'
<1>1. ServerInv /\ ClientInv /\ WireInv /\ UNCHANGED server
  BY DEF LInv
<1>2. DOMAIN client = ClientFields /\ client.id \in Nat /\ client.lost \in BOOLEAN
  BY <1>1 DEF ClientInv
<1>3. Goes(client, client') /\ client'.hosts = client.hosts /\ client'.phase = "done"
  BY <1>2 DEF Goes, ClientFields, FinishWith
<1> QED
  BY <1>1, <1>3, SameServer, StaysClient, NothingInFlight DEF LInv

(* The answer over TCP is printed.                                         *)
LEMMA PrintResponseInv ==
    ASSUME LInv, PrintResponse
    PROVE  LInv'
<1> DEFINE out == Printed(client.question, client.flags, Shown(client.tool, client.flags), wire)
<1>1. /\ UNCHANGED <<db, asnfile, server>> /\ wire' = <<>> /\ client.phase # "idle"
      /\ client.tool \in Tcp /\ FinishWith(out)
  BY DEF PrintResponse
<1>2. client.question.kind \in {"ipv4", "ipv6", "as", "country"}
  BY <1>1 DEF LInv, ClientInv, Asks, Tcp, Understood
<1>3. out # NoOutput
  BY <1>2, PrintsSomething
<1> HIDE DEF out
<1> QED
  BY <1>1, <1>3, FinishesWith

(* Something is lost on the way, and perhaps with it the answer.           *)
LEMMA UnknownHostInv ==
    ASSUME LInv, UnknownHostThrows
    PROVE  LInv'
<1>1. /\ UNCHANGED <<db, asnfile, server>> /\ UNCHANGED server /\ wire' = wire
      /\ client.phase = "hosts"
      /\ client' = [client EXCEPT !.phase = "done", !.lost = TRUE, !.exit = 134]
  BY DEF UnknownHostThrows
<1>2. ServerInv /\ ClientInv /\ WireInv
  BY DEF LInv
<1>3. /\ DOMAIN client = ClientFields /\ client.id \in Nat /\ client.lost \in BOOLEAN
      /\ client.phase # "idle" /\ wire = <<>>
  BY <1>1, <1>2 DEF ClientInv, WireInv
<1>4. Goes(client, client') /\ client'.hosts = client.hosts /\ client'.phase = "done"
  BY <1>1, <1>3 DEF Goes, ClientFields
<1> QED
  BY <1>1, <1>2, <1>3, <1>4, SameServer, StaysClient, NothingInFlight DEF LInv

LEMMA DatagramLostInv ==
    ASSUME LInv, DatagramLost
    PROVE  LInv'
<1>1. /\ UNCHANGED <<db, asnfile, server>> /\ UNCHANGED server /\ wire' = <<>>
      /\ client.phase \in {"asked", "answered"} /\ client.tool \in {"udp", "dns"}
      /\ client' = [client EXCEPT !.lost = TRUE]
  BY DEF DatagramLost
<1>2. ServerInv /\ ClientInv /\ WireInv
  BY DEF LInv
<1>3. /\ DOMAIN client = ClientFields /\ client.id \in Nat /\ client.phase # "idle"
      /\ client.out = NoOutput /\ client.whole = FALSE
  BY <1>1, <1>2 DEF ClientInv
<1>4. /\ client'.hosts = client.hosts /\ client'.phase = client.phase /\ client'.tool = client.tool
      /\ client'.lost = TRUE /\ DOMAIN client' = ClientFields /\ client'.id = client.id
      /\ client'.question = client.question /\ client'.given = client.given
      /\ client'.flags = client.flags /\ client'.out = client.out /\ client'.whole = client.whole
  BY <1>1, <1>3 DEF ClientFields
<1>5. Goes(client, client')
  BY <1>1, <1>3, <1>4 DEF Goes
<1>6. ClientInv'
  BY <1>1, <1>2, <1>3, <1>4, <1>5, StaysClient
<1>7. client.tool = "udp" => client.hosts # <<>> /\ Junk # {}
  BY <1>1, <1>2 DEF WireInv, UdpWire
<1>8. WireInv'
  BY <1>1, <1>4, <1>7 DEF WireInv, UdpWire, DnsWire, Tcp
<1> QED
  BY <1>1, <1>2, <1>6, <1>8, SameServer DEF LInv

(* What a datagram of a request holds.                                     *)
LEMMA RequestSays ==
    ASSUME LInv, client.tool = "udp", client.phase # "idle", NEW h \in Headers
    PROVE  LET s == M!WriteMessage(M!RequestMessage(h, Request(client.question)))
           IN  /\ s # <<>> /\ Len(s) = 4
               /\ Says(M!ReadMessage(s), 1, h.id, 0, Request(client.question))
<1>1. client.question \in Questions /\ client.question.kind \in {"ipv4", "ipv6"} /\ ServerInv
  BY DEF LInv, ClientInv, Asks, Understood
<1>2. Request(client.question) \in Families \X Addresses
  BY <1>1, ResponseIs
<1> QED
  BY <1>2, ReadRequest

(* What a datagram of a response holds.                                    *)
LEMMA ResponseSays ==
    ASSUME LInv, client.tool = "udp", client.phase # "idle", NEW h \in Headers
    PROVE  LET resp == GetResponse(Request(client.question))
               s == M!WriteMessage(M!ResponseMessage(h, resp))
           IN  /\ resp \in Responses /\ Len(resp.prefixes) < Byte
               /\ s # <<>> /\ Len(s) \in Nat /\ Len(s) >= 5
               /\ Says(M!ReadMessage(s), 2, h.id, 1, CutResponse(resp))
<1> DEFINE resp == GetResponse(Request(client.question))
<1>1. client.question \in Questions /\ client.question.kind \in {"ipv4", "ipv6"} /\ ServerInv
  BY DEF LInv, ClientInv, Asks, Understood
<1>2. resp \in Responses /\ Len(resp.prefixes) < Byte
  BY <1>1, ResponseIs
<1> HIDE DEF resp
<1> DEFINE s == M!WriteMessage(M!ResponseMessage(h, resp))
<1>3. /\ s # <<>> /\ Len(s) = 3 + Len(M!WriteResponse(resp)) /\ Len(s) >= 5
      /\ Says(M!ReadMessage(s), 2, h.id, 1, CutResponse(resp))
  BY <1>2, ReadResponseMessage
<1>4. Len(M!WriteResponse(resp)) \in Nat
  BY <1>2, ReadWrittenResponse, LenProperties
<1>5. Len(s) \in Nat
  <2> HIDE DEF s
  <2> QED
    BY <1>3, <1>4
<1> QED
  BY <1>2, <1>3, <1>5 DEF resp

(* A request that does not fit is about an address whose response does not *)
(* fit either.                                                             *)
LEMMA SendRequestInv ==
    ASSUME LInv, NEW junk \in Junk, SendRequest(junk)
    PROVE  LInv'
<1> DEFINE header == [M!NewHeader(junk) EXCEPT !.id = client.id]
           request == M!RequestMessage(header, Request(client.question))
           up == Head(client.hosts) = "up" /\ server.status = "serving"
<1>1. /\ UNCHANGED <<db, asnfile, server>> /\ UNCHANGED server
      /\ client.phase = "hosts" /\ client.tool = "udp" /\ client.hosts # <<>>
      /\ client' = [client EXCEPT !.phase = "asked", !.id = @ + 1]
  BY DEF SendRequest
<1>2. wire' = IF up /\ M!Fits(request) THEN M!WriteMessage(request) ELSE <<>>
  BY DEF SendRequest
<1>3. ServerInv /\ ClientInv /\ WireInv
  BY DEF LInv
<1>4. /\ DOMAIN client = ClientFields /\ client.id \in Nat /\ client.phase # "idle"
      /\ client.out = NoOutput /\ client.whole = FALSE /\ client.lost \in BOOLEAN
  BY <1>1, <1>3 DEF ClientInv
<1>5. /\ client'.hosts = client.hosts /\ client'.phase = "asked" /\ client'.tool = client.tool
      /\ client'.lost = client.lost /\ DOMAIN client' = ClientFields /\ client'.id = client.id + 1
      /\ client'.question = client.question /\ client'.given = client.given
      /\ client'.flags = client.flags /\ client'.out = client.out /\ client'.whole = client.whole
  BY <1>1, <1>4 DEF ClientFields
<1>6. Goes(client, client')
  BY <1>4, <1>5 DEF Goes
<1>7. ClientInv'
  BY <1>1, <1>3, <1>4, <1>5, <1>6, StaysClient
<1>8. header \in Headers /\ header.id = client.id
  BY <1>4, JunkHeader DEF Headers
<1>9. /\ M!WriteMessage(request) # <<>> /\ Len(M!WriteMessage(request)) = 4
  BY <1>1, <1>4, <1>8, RequestSays
<1>10. wire' = <<>> \/ IsRequest(wire)'
  <2>1. CASE wire' = <<>>
    BY <2>1
  <2>2. CASE wire' # <<>>
    <3>1. wire' = M!WriteMessage(request)
      BY <1>2, <2>2
    <3>2. Request(client.question)' = Request(client.question)
      BY <1>5 DEF Request
    <3> HIDE DEF header
    <3>3. header.id + 1 = client'.id
      BY <1>5, <1>8
    <3> QED
      BY <1>8, <3>1, <3>2, <3>3 DEF IsRequest
  <2> QED
    BY <2>1, <2>2
<1>11. ASSUME wire' = <<>> PROVE ~CouldAnswer(Head(client.hosts))
  <2>1. ~up \/ ~M!Fits(request)
    BY <1>2, <1>9, <1>11
  <2>2. CASE ~up
    BY <1>1, <2>2 DEF CouldAnswer
  <2>3. CASE ~M!Fits(request)
    <3>1. DatagramLimit \in Nat /\ ~(4 <= DatagramLimit)
      <4> HIDE DEF request
      <4>1. ~(Len(M!WriteMessage(request)) <= DatagramLimit)
        BY <2>3 DEF M!Fits
      <4> QED
        BY <1>9, <4>1, LookupAssumption
    <3> DEFINE resp == GetResponse(Request(client.question))
               n == Len(M!WriteMessage(M!ResponseMessage(M!NewHeader(junk), resp)))
    <3>2. n \in Nat /\ n >= 5
      BY <1>1, <1>4, JunkHeader, ResponseSays
    <3>3. ~(n <= DatagramLimit)
      <4> HIDE DEF n
      <4> QED
        BY <3>1, <3>2
    <3>4. ~M!Fits(M!ResponseMessage(M!NewHeader(junk), resp))
      BY <3>3 DEF M!Fits
    <3> HIDE DEF resp
    <3>5. ~SendableResponse(resp)
      BY <3>4 DEF SendableResponse
    <3>6. ~Sendable
      BY <3>5 DEF Sendable, resp
    <3> QED
      BY <1>1, <3>6 DEF CouldAnswer
  <2> QED
    BY <2>1, <2>2, <2>3
<1>12. \A host : CouldAnswer(host)' <=> CouldAnswer(host)
  BY <1>1, <1>5, SameCould
<1>13. UdpWire'
  <2>1. Junk # {} /\ client'.hosts # <<>>
    BY <1>1, <1>5
  <2>2. wire' = <<>> => ~CouldAnswer(Head(client.hosts))'
    BY <1>5, <1>11, <1>12
  <2> QED
    BY <1>5, <1>10, <2>1, <2>2 DEF UdpWire
<1>14. WireInv'
  BY <1>1, <1>5, <1>13 DEF WireInv, Tcp
<1> QED
  BY <1>1, <1>3, <1>7, <1>14, SameServer DEF LInv

(* The server answers a datagram, or nothing fits that it could answer.    *)
LEMMA RespondBinaryInv ==
    ASSUME LInv, RespondBinary
    PROVE  LInv'
<1> DEFINE req  == M!ReadMessage(wire)
           resp == GetResponse(req.payload.data)
           msg  == M!ResponseMessage(req.header, resp)
           said == GetResponse(Request(client.question))
<1>1. /\ UNCHANGED <<db, asnfile, server>> /\ UNCHANGED server
      /\ client.phase = "asked" /\ client.tool = "udp" /\ wire # <<>>
      /\ client' = [client EXCEPT !.phase = "answered"]
  BY DEF RespondBinary
<1>2. wire' = IF M!Type(req.header.flags) = M!OriginRequestType /\ resp.prefixes # <<>> /\ M!Fits(msg)
              THEN M!WriteMessage(msg) ELSE <<>>
  BY DEF RespondBinary
<1>3. ServerInv /\ ClientInv /\ WireInv
  BY DEF LInv
<1>4. /\ DOMAIN client = ClientFields /\ client.id \in Nat /\ client.phase # "idle"
      /\ client.out = NoOutput /\ client.whole = FALSE /\ client.lost \in BOOLEAN
  BY <1>1, <1>3 DEF ClientInv
<1>5. /\ client'.hosts = client.hosts /\ client'.phase = "answered" /\ client'.tool = client.tool
      /\ client'.lost = client.lost /\ DOMAIN client' = ClientFields /\ client'.id = client.id
      /\ client'.question = client.question /\ client'.given = client.given
      /\ client'.flags = client.flags /\ client'.out = client.out /\ client'.whole = client.whole
  BY <1>1, <1>4 DEF ClientFields
<1>6. Goes(client, client')
  BY <1>4, <1>5 DEF Goes
<1>7. ClientInv'
  BY <1>1, <1>3, <1>4, <1>5, <1>6, StaysClient
<1>8. IsRequest(wire) /\ client.hosts # <<>> /\ Junk # {}
  BY <1>1, <1>3 DEF WireInv, UdpWire
<1>9. PICK h \in Headers : h.id + 1 = client.id
                           /\ wire = M!WriteMessage(M!RequestMessage(h, Request(client.question)))
  BY <1>8 DEF IsRequest
<1>10. Says(M!ReadMessage(wire), 1, h.id, 0, Request(client.question))
  BY <1>1, <1>4, <1>9, RequestSays
<1>11. /\ req.header \in Headers /\ req.header.id = h.id
       /\ M!Type(req.header.flags) = M!OriginRequestType /\ resp = said
  BY <1>10 DEF Says, M!OriginRequestType
<1> HIDE DEF req
<1>12. M!ResponseMessage(req.header, resp) = M!ResponseMessage(req.header, said)
  BY <1>11
<1> HIDE DEF resp, msg
<1> DEFINE g == req.header
           answer == M!ResponseMessage(g, said)
<1>13. wire' = IF said.prefixes # <<>> /\ M!Fits(answer) THEN M!WriteMessage(answer) ELSE <<>>
  BY <1>2, <1>11, <1>12 DEF msg
<1>14. g \in Headers /\ g.id + 1 = client.id
  BY <1>9, <1>11
<1> HIDE DEF g
<1>15. said \in Responses /\ Len(said.prefixes) < Byte /\ M!WriteMessage(answer) # <<>>
  BY <1>1, <1>4, <1>14, ResponseSays
<1>16. said' = said
  BY <1>1, <1>5, SameCould
<1>17. wire' = <<>> \/ IsResponse(wire)'
  <2>1. CASE wire' = <<>>
    BY <2>1
  <2>2. CASE wire' # <<>>
    <3>1. wire' = M!WriteMessage(answer)
      BY <1>13, <2>2
    <3>2. g.id + 1 = client'.id
      BY <1>5, <1>14
    <3> QED
      BY <1>14, <1>16, <3>1, <3>2 DEF IsResponse
  <2> QED
    BY <2>1, <2>2
<1>18. ASSUME wire' = <<>> PROVE ~CouldAnswer(Head(client.hosts))
  <2>1. said.prefixes = <<>> \/ ~M!Fits(answer)
    BY <1>13, <1>15, <1>18
  <2>2. ~SendableResponse(said)
    <3>1. PICK junk \in Junk : TRUE
      BY <1>8
    <3>2. M!NewHeader(junk) \in Headers
      BY JunkHeader
    <3> HIDE DEF said
    <3>3. M!Fits(answer) <=> M!Fits(M!ResponseMessage(M!NewHeader(junk), said))
      BY <1>14, <1>15, <3>2, FitsAnyHeader
    <3> QED
      BY <2>1, <3>3 DEF SendableResponse
  <2> QED
    BY <1>1, <2>2 DEF CouldAnswer, Sendable
<1>19. \A host : CouldAnswer(host)' <=> CouldAnswer(host)
  BY <1>1, <1>5, SameCould
<1>20. UdpWire'
  <2>1. wire' = <<>> => ~CouldAnswer(Head(client.hosts))'
    BY <1>5, <1>18, <1>19
  <2> QED
    BY <1>5, <1>8, <1>17, <2>1 DEF UdpWire
<1>21. WireInv'
  BY <1>1, <1>5, <1>20 DEF WireInv, Tcp
<1> QED
  BY <1>1, <1>3, <1>7, <1>21, SameServer DEF LInv

(* A host that did not answer is passed over.                              *)
LEMMA RecvTimeoutInv ==
    ASSUME LInv, RecvTimeout
    PROVE  LInv'
<1>1. /\ UNCHANGED <<db, asnfile, server>> /\ UNCHANGED server /\ wire' = <<>> /\ wire = <<>>
      /\ client.phase \in {"asked", "answered"} /\ client.tool = "udp"
      /\ client' = [client EXCEPT !.phase = "hosts", !.hosts = Tail(@)]
  BY DEF RecvTimeout
<1>2. ServerInv /\ ClientInv /\ WireInv
  BY DEF LInv
<1>3. /\ DOMAIN client = ClientFields /\ client.id \in Nat /\ client.phase # "idle"
      /\ client.out = NoOutput /\ client.whole = FALSE /\ client.lost \in BOOLEAN
  BY <1>1, <1>2 DEF ClientInv
<1>4. /\ client'.hosts = Tail(client.hosts) /\ client'.phase = "hosts" /\ client'.tool = client.tool
      /\ client'.lost = client.lost /\ DOMAIN client' = ClientFields /\ client'.id = client.id
      /\ client'.question = client.question /\ client'.given = client.given
      /\ client'.flags = client.flags /\ client'.out = client.out /\ client'.whole = client.whole
  BY <1>1, <1>3 DEF ClientFields
<1>5. Goes(client, client')
  BY <1>3, <1>4 DEF Goes
<1>6. client.hosts # <<>> /\ (~client.lost => ~CouldAnswer(Head(client.hosts)))
  BY <1>1, <1>2 DEF WireInv, UdpWire
<1>7. ClientInv'
  BY <1>1, <1>2, <1>3, <1>4, <1>5, <1>6, SkipsHost
<1> QED
  BY <1>1, <1>2, <1>4, <1>7, SameServer, NothingInFlight DEF LInv

(* Every response that comes is accepted: it answers the last request.     *)
LEMMA ResponseAccepted ==
    ASSUME LInv, client.tool = "udp", client.phase = "answered", wire # <<>>
    PROVE  /\ Accepted(M!ReadMessage(wire))
           /\ M!ReadMessage(wire).payload.data = CutResponse(GetResponse(Request(client.question)))
<1>1. IsResponse(wire)
  BY DEF LInv, WireInv, UdpWire
<1>2. PICK h \in Headers : h.id + 1 = client.id
                 /\ wire = M!WriteMessage(M!ResponseMessage(h, GetResponse(Request(client.question))))
  BY <1>1 DEF IsResponse
<1>3. Says(M!ReadMessage(wire), 2, h.id, 1, CutResponse(GetResponse(Request(client.question))))
  BY <1>2, ResponseSays
<1> QED
  BY <1>2, <1>3 DEF Says, Accepted, M!OriginResponseType

LEMMA RecvResponseInv ==
    ASSUME LInv, RecvResponse
    PROVE  LInv'
<1> DEFINE msg == M!ReadMessage(wire)
           out == IF "j" \in client.flags
                  THEN [kind |-> "json", json |-> M!ResponseToJson(msg.payload.data)]
                  ELSE [kind |-> "matches", entries |-> msg.payload.data.prefixes]
<1>1. /\ UNCHANGED <<db, asnfile, server>> /\ wire' = <<>> /\ wire # <<>>
      /\ client.phase = "answered" /\ client.tool = "udp"
  BY DEF RecvResponse
<1>2. FinishWith(out)
  BY <1>1, ResponseAccepted DEF RecvResponse
<1>3. out # NoOutput
  <2>1. out.kind # NoOutput.kind
    BY DEF NoOutput
  <2> QED
    BY <2>1
<1> HIDE DEF out
<1> QED
  BY <1>1, <1>2, <1>3, FinishesWith

(* No host of the list is left.                                            *)
LEMMA NoHostAnswersInv ==
    ASSUME LInv, NoHostAnswers
    PROVE  LInv'
<1>1. /\ UNCHANGED <<db, asnfile, server>> /\ UNCHANGED server /\ wire' = wire
      /\ client.phase = "hosts" /\ client.hosts = <<>> /\ Finish(NoOutput, 0)
  BY DEF NoHostAnswers
<1>2. ServerInv /\ ClientInv /\ WireInv
  BY DEF LInv
<1>3. /\ DOMAIN client = ClientFields /\ client.id \in Nat /\ client.lost \in BOOLEAN
      /\ client.phase # "idle" /\ wire = <<>>
  BY <1>1, <1>2 DEF ClientInv, WireInv
<1>4. Goes(client, client') /\ client'.hosts = client.hosts /\ client'.phase = "done"
  BY <1>1, <1>3 DEF Goes, ClientFields, Finish
<1> QED
  BY <1>1, <1>2, <1>3, <1>4, SameServer, StaysClient, NothingInFlight DEF LInv

(* DNS.                                                                    *)
LEMMA AskDnsInv ==
    ASSUME LInv, AskDns
    PROVE  LInv'
<1>1. /\ UNCHANGED <<db, asnfile, server>> /\ UNCHANGED server
      /\ client.phase = "hosts" /\ client.tool = "dns"
      /\ client' = [client EXCEPT !.phase = "asked"]
      /\ wire' = <<>> \/ wire' = client.question
  BY DEF AskDns
<1>2. ServerInv /\ ClientInv /\ WireInv
  BY DEF LInv
<1>3. /\ DOMAIN client = ClientFields /\ client.id \in Nat /\ client.lost \in BOOLEAN
      /\ client.phase # "idle" /\ client.out = NoOutput /\ client.whole = FALSE
  BY <1>1, <1>2 DEF ClientInv
<1>4. Goes(client, client') /\ client'.hosts = client.hosts
  BY <1>1, <1>3 DEF Goes, ClientFields
<1>5. ClientInv'
  BY <1>1, <1>2, <1>3, <1>4, StaysClient
<1>6. client'.phase = "asked" /\ client'.tool = "dns" /\ client'.question = client.question
  BY <1>1, <1>3 DEF ClientFields
<1>7. WireInv'
  BY <1>1, <1>6 DEF WireInv, DnsWire, Tcp
<1> QED
  BY <1>1, <1>2, <1>5, <1>7, SameServer DEF LInv

LEMMA SendDnsResponseInv ==
    ASSUME LInv, SendDnsResponse
    PROVE  LInv'
<1>1. /\ UNCHANGED <<db, asnfile, server>> /\ UNCHANGED server
      /\ client.phase = "asked" /\ client.tool = "dns" /\ wire # <<>>
      /\ client' = [client EXCEPT !.phase = "answered"]
      /\ wire' = MatchesOf(server.net2as[4], Ipv4Address(wire), server.asntxt, Dashes)
  BY DEF SendDnsResponse, PopulateAnswer
<1>2. ServerInv /\ ClientInv /\ WireInv
  BY DEF LInv
<1>3. /\ DOMAIN client = ClientFields /\ client.id \in Nat /\ client.lost \in BOOLEAN
      /\ client.phase # "idle" /\ client.out = NoOutput /\ client.whole = FALSE
  BY <1>1, <1>2 DEF ClientInv
<1>4. Goes(client, client') /\ client'.hosts = client.hosts
  BY <1>1, <1>3 DEF Goes, ClientFields
<1>5. ClientInv'
  BY <1>1, <1>2, <1>3, <1>4, StaysClient
<1>6. client'.phase = "answered" /\ client'.tool = "dns" /\ client'.question = client.question
  BY <1>1, <1>3 DEF ClientFields
<1>7. wire = client.question
  BY <1>1, <1>2 DEF WireInv, DnsWire
<1>8. wire' = MatchesOf(server'.net2as[4], Ipv4Address(client'.question), server'.asntxt, Dashes)
  BY <1>1, <1>6, <1>7
<1>9. WireInv'
  BY <1>6, <1>8 DEF WireInv, DnsWire, Tcp
<1> QED
  BY <1>1, <1>2, <1>5, <1>9, SameServer DEF LInv

LEMMA ReceiveDnsResponseInv ==
    ASSUME LInv, ReceiveDnsResponse
    PROVE  LInv'
<1>1. /\ UNCHANGED <<db, asnfile, server>> /\ UNCHANGED server /\ wire' = <<>>
      /\ client.phase \in {"asked", "answered"} /\ client.tool = "dns"
  BY DEF ReceiveDnsResponse
<1>2. ServerInv /\ ClientInv /\ WireInv
  BY DEF LInv
<1>3. /\ DOMAIN client = ClientFields /\ client.id \in Nat /\ client.lost \in BOOLEAN
      /\ client.phase # "idle"
  BY <1>1, <1>2 DEF ClientInv
<1>4. client.tool \notin Tcp \cup {"udp"}
  BY <1>1 DEF Tcp
<1>5. CASE Finish(NoOutput, 1)
  <2>1. Goes(client, client') /\ client'.hosts = client.hosts /\ client'.phase = "done"
    BY <1>3, <1>4, <1>5 DEF Goes, ClientFields, Finish
  <2> QED
    BY <1>1, <1>2, <1>3, <2>1, SameServer, StaysClient, NothingInFlight DEF LInv
<1>6. CASE FinishWith([kind |-> "matches", entries |-> wire])
  <2> DEFINE out == [kind |-> "matches", entries |-> wire]
  <2>1. out # NoOutput
    <3>1. out.kind # NoOutput.kind
      BY DEF NoOutput
    <3> QED
      BY <3>1
  <2>2. FinishWith(out)
    BY <1>6
  <2> HIDE DEF out
  <2> QED
    BY <1>1, <1>3, <2>1, <2>2, FinishesWith
<1> QED
  BY <1>5, <1>6 DEF ReceiveDnsResponse

(* mccdb answers by itself, with what it loaded.                           *)
MccdbEnds(load, asn) ==
    IF load.ok /\ asn.status = "good"
    THEN client' = [client EXCEPT !.phase = "done", !.whole = load.as2ip = db,
                        !.out = MccdbPrinted(load.as2ip, asn.names, client.question, client.flags)]
    ELSE Finish(NoOutput, IF load.ok /\ asn.status = "thrown" THEN 134 ELSE 1)

LEMMA MccdbInv ==
    ASSUME LInv, Mccdb
    PROVE  LInv'
<1>1. /\ UNCHANGED <<db, asnfile, server>> /\ UNCHANGED server /\ wire' = wire
      /\ client.phase = "hosts" /\ client.tool = "mccdb"
  BY DEF Mccdb
<1>2. ServerInv /\ ClientInv /\ WireInv
  BY DEF LInv
<1>3. /\ DOMAIN client = ClientFields /\ client.id \in Nat /\ client.lost \in BOOLEAN
      /\ client.phase # "idle" /\ wire = <<>> /\ client.tool \notin Tcp \cup {"udp"}
  BY <1>1, <1>2 DEF ClientInv, WireInv, Tcp
<1>4. \E load \in DbLoads, asn \in AsnLoads : MccdbEnds(load, asn)
  BY Zenon DEF Mccdb, MccdbEnds
<1>6. PICK load \in DbLoads, asn \in AsnLoads : MccdbEnds(load, asn)
  BY <1>4
<1>5. Goes(client, client') /\ client'.hosts = client.hosts /\ client'.phase = "done"
  BY <1>3, <1>6 DEF Goes, ClientFields, Finish, MccdbEnds
<1> QED
  BY <1>1, <1>2, <1>3, <1>5, SameServer, StaysClient, NothingInFlight DEF LInv

-----------------------------------------------------------------------------
(* Every step of the server and of the tools keeps the invariant.          *)
LEMMA NextLInv == LInv /\ [Next]_vars => LInv'
<1> SUFFICES ASSUME LInv, [Next]_vars PROVE LInv'
  OBVIOUS
<1>1. ASSUME NEW tool \in DOMAIN Understood, NEW q \in Questions, NEW hosts \in HostLists,
             NEW flags \in Flags(tool, q.kind), Run(tool, q, flags, hosts)
      PROVE  LInv'
  BY <1>1, RunInv
<1>2. ASSUME NEW junk \in Junk, SendRequest(junk) PROVE LInv'
  BY <1>2, SendRequestInv
<1>3. CASE UNCHANGED vars
  <2>1. UNCHANGED <<db, asnfile, server>> /\ client' = client /\ wire' = wire /\ UNCHANGED server
    BY <1>3 DEF vars
  <2>2. \A host : CouldAnswer(host)' <=> CouldAnswer(host)
    BY <2>1, SameCould
  <2>3. Remains(client.given, client.hosts)' <=> Remains(client.given, client.hosts)
    BY <2>1, <2>2 DEF Remains
  <2>4. ClientInv'
    BY <2>1, <2>3 DEF LInv, ClientInv, Asks
  <2>5. TcpAnswer(client.question)' = TcpAnswer(client.question)
    BY <2>1, SameTcpAnswer
  <2>6. GetResponse(Request(client.question))' = GetResponse(Request(client.question))
    BY <2>1, SameCould
  <2>7. IsRequest(wire)' <=> IsRequest(wire)
    BY <2>1 DEF IsRequest, Request
  <2>8. IsResponse(wire)' <=> IsResponse(wire)
    BY <2>1, <2>6 DEF IsResponse
  <2>9. TcpWire' <=> TcpWire
    BY <2>1, <2>5 DEF TcpWire
  <2>10. UdpWire' <=> UdpWire
    BY <2>1, <2>2, <2>7, <2>8 DEF UdpWire
  <2>11. DnsWire' <=> DnsWire
    BY <2>1 DEF DnsWire, Ipv4Address
  <2>12. WireInv'
    BY <2>1, <2>9, <2>10, <2>11 DEF LInv, WireInv
  <2> QED
    BY <2>1, <2>4, <2>12, SameServer DEF LInv
<1> QED
  BY <1>1, <1>2, <1>3, InitDatabasesInv, GetPeerInv, HandleRequestInv, PeerFailsInv, PrintResponseInv,
     UnknownHostInv, RespondBinaryInv, DatagramLostInv, RecvTimeoutInv, RecvResponseInv,
     NoHostAnswersInv, AskDnsInv, SendDnsResponseInv, ReceiveDnsResponseInv, MccdbInv, ExitInv DEF Next

(* The invariant holds in every state.                                     *)
THEOREM LookupInvariant == Spec => []LInv
<1> QED
  BY InitLInv, NextLInv, PTL DEF Spec

(* The manual of mccurtain: hosts are tried in order.  Unless something is *)
(* lost on the way, there is no output only if no host of the list could   *)
(* give any: the ones that could are still to be asked.                    *)
THEOREM HostsAreTriedInOrder == Spec => []FallsBackToNextHost
<1>1. LInv => FallsBackToNextHost
  <2> SUFFICES ASSUME LInv, client.phase = "done", ~client.lost, client.tool \in Tcp \cup {"udp"},
                      client.out = NoOutput, NEW i \in DOMAIN client.given
               PROVE  /\ client.tool = "udp" =>
                            ~(client.given[i] = "up" /\ server.status = "serving" /\ Sendable)
                      /\ client.tool \in Tcp => ~Serves(client.given[i])
    BY DEF FallsBackToNextHost, Sendable, SendableResponse
  <2>1. /\ client.hosts = <<>> /\ Remains(client.given, client.hosts) /\ client.given \in Seq(Hosts)
    BY DEF LInv, ClientInv
  <2>2. i \in 1 .. Len(client.given)
    BY <2>1, LenProperties
  <2>3. ~CouldAnswer(client.given[i])
    BY <2>1, <2>2 DEF Remains
  <2> QED
    BY <2>3 DEF CouldAnswer, Tcp
<1> QED
  BY <1>1, LookupInvariant, PTL

(* A message and its JSON.                                                 *)
AgreesInJson(msg) ==
    LET json == M!MessageToJson(msg)
        back == M!MessageFromJson(M!NewHeader(0), json)
    IN  /\ M!Readable(json)
        /\ back.payload = msg.payload
        /\ M!HeaderToJson(back.header) = M!HeaderToJson(msg.header)

LEMMA MessageInJson ==
    ASSUME NEW msg, NEW id, NEW data,
           Says(msg, 1, id, 0, data) \/ (Says(msg, 2, id, 1, data) /\ data \in Responses)
    PROVE  AgreesInJson(msg)
<1> DEFINE json == M!MessageToJson(msg)
           g == msg.header
           h == M!NewHeader(0)
           j == M!HeaderToJson(g)
           back == M!MessageFromJson(h, json)
<1>1. g \in Headers
  BY DEF Says
<1>2. h \in Headers
  <2>1. 0 \in UpTo(65535)
    BY UpToIs
  <2> QED
    BY <2>1, NewHeaderIs
<1>3. j.ty = M!Type(g.flags)
  BY DEF M!HeaderToJson
<1> HIDE DEF j, h
<1>4. M!HeaderToJson(M!HeaderFromJson(h, j)) = j
  BY <1>1, <1>2, HeaderKept DEF j
<1>5. json.hdr = j
  BY DEF M!MessageToJson, j
<1>6. back.header = M!HeaderFromJson(h, j)
  BY <1>5 DEF M!MessageFromJson
<1>7. CASE Says(msg, 1, id, 0, data)
  <2>1. msg.payload = [index |-> 0, data |-> data] /\ j.ty = 1
    BY <1>3, <1>7 DEF Says
  <2>2. json = [hdr |-> j, req |-> data]
    BY <2>1 DEF M!MessageToJson, j
  <2>3. M!Readable(json)
    BY <2>1, <2>2 DEF M!Readable, M!OriginRequestType
  <2>4. back.payload = [index |-> 0, data |-> data]
    BY <2>1, <2>2 DEF M!MessageFromJson, M!OriginRequestType
  <2> QED
    BY <1>4, <1>6, <2>1, <2>3, <2>4 DEF AgreesInJson, j, h
<1>8. CASE Says(msg, 2, id, 1, data) /\ data \in Responses
  <2>1. msg.payload = [index |-> 1, data |-> data] /\ j.ty = 2
    BY <1>3, <1>8 DEF Says
  <2>2. json = [hdr |-> j, resp |-> M!ResponseToJson(data)]
    BY <2>1 DEF M!MessageToJson, j
  <2>3. M!Readable(json)
    BY <2>1, <2>2 DEF M!Readable, M!OriginResponseType
  <2>4. M!ResponseFromJson(M!ResponseToJson(data)) = data
    BY <1>8, ResponseInJson
  <2>5. back.payload = [index |-> 1, data |-> data]
    BY <2>1, <2>2, <2>4 DEF M!MessageFromJson, M!OriginRequestType
  <2> QED
    BY <1>4, <1>6, <2>1, <2>3, <2>5 DEF AgreesInJson, j, h
<1> QED
  BY <1>7, <1>8

(* Every datagram says in JSON what it says in bytes: the payload that is  *)
(* read from the bytes is the one that is read from the JSON, and so is    *)
(* what the JSON has of the header.                                        *)
THEOREM DatagramsAgree == Spec => []FormsAgree
<1>1. LInv => FormsAgree
  <2> SUFFICES ASSUME LInv, client.tool = "udp", wire # <<>>
               PROVE  AgreesInJson(M!ReadMessage(wire))
    BY DEF FormsAgree, AgreesInJson
  <2>1. /\ client.phase \in {"asked", "answered"}
        /\ client.phase = "asked" => IsRequest(wire)
        /\ client.phase = "answered" => IsResponse(wire)
    BY DEF LInv, ClientInv, WireInv, UdpWire
  <2> DEFINE msg == M!ReadMessage(wire)
             resp == GetResponse(Request(client.question))
  <2>2. CASE client.phase = "asked"
    <3>1. PICK h \in Headers : wire = M!WriteMessage(M!RequestMessage(h, Request(client.question)))
      BY <2>1, <2>2 DEF IsRequest
    <3>2. Says(msg, 1, h.id, 0, Request(client.question))
      BY <2>2, <3>1, RequestSays
    <3> HIDE DEF msg
    <3>3. AgreesInJson(msg)
      BY <3>2, MessageInJson
    <3> QED
      BY <3>3 DEF msg
  <2>3. CASE client.phase = "answered"
    <3>1. PICK h \in Headers : wire = M!WriteMessage(M!ResponseMessage(h, resp))
      BY <2>1, <2>3 DEF IsResponse
    <3>2. Says(msg, 2, h.id, 1, CutResponse(resp)) /\ resp \in Responses /\ Len(resp.prefixes) < Byte
      BY <2>3, <3>1, ResponseSays
    <3> HIDE DEF msg, resp
    <3>3. CutResponse(resp) \in Responses
      BY <3>2, ReadWrittenResponse
    <3>4. AgreesInJson(msg)
      BY <3>2, <3>3, MessageInJson
    <3> QED
      BY <3>4 DEF msg
  <2> QED
    BY <2>1, <2>2, <2>3
<1> QED
  BY <1>1, LookupInvariant, PTL

-----------------------------------------------------------------------------
(* What client c prints: answers to its question from parts of the two     *)
(* files, and from all of them if both were read completely.               *)
EntriesOf(out) == IF out.kind = "json" THEN M!ResponseFromJson(out.json).prefixes ELSE out.entries

FamilyOf(c) == FamilyAsked(c.tool, c.question)
AddressOf(c) == AddressAsked(c.tool, c.question)

(* A question that is not asked over DNS is about the address it names.    *)
LEMMA AskedAsNamed ==
    ASSUME NEW c, c.tool # "dns"
    PROVE  FamilyOf(c) = Family(c.question) /\ AddressOf(c) = c.question.key
BY DEF FamilyOf, AddressOf, FamilyAsked, AddressAsked

AnswersTo(c, pairs, names) ==
    /\ pairs \in SUBSET Pairs(db[FamilyOf(c)])
    /\ c.tool = "udp" => Answers(EntriesOf(c.out), AddressOf(c), pairs, names, TRUE)
    /\ c.tool # "udp" => Answers(EntriesOf(c.out), AddressOf(c), pairs, names, FALSE)
    /\ c.whole = TRUE => pairs = Pairs(db[FamilyOf(c)]) /\ names = Names

MatchesOut(c) ==
    /\ c.out.kind \in {"matches", "json"}
    /\ c.question.kind \in {"ipv4", "ipv6"}
    /\ ~TakenForNone(c.tool, c.question)
    /\ \E pairs, names : AnswersTo(c, pairs, names)

ReadFrom(c, tables, names) ==
    /\ IsTable(tables)
    /\ names = Names \/ names = NoNames
    /\ c.whole = TRUE => tables = db /\ names = Names

ShownBy(c) == Shown(c.tool, c.flags)
NetsOf(tables, as, show) == [fam \in Families |-> IF fam \in show THEN tables[fam][as] ELSE {}]
CountryNetsOf(tables, names, cc, fam) == UNION {tables[fam][as] : as \in InCountry(names, cc)}
AskedOf(q, names) == IF q.kind = "all" THEN ASes ELSE InCountry(names, q.key)

ASOut(c, tables) ==
    /\ c.question.kind = "as" /\ c.question.key \in ASes /\ c.out.kind = "prefixes"
    /\ c.out.nets = NetsOf(tables, c.question.key, ShownBy(c))
CountryOut(c, tables, names) ==
    /\ c.question.kind = "country" /\ c.out.kind = "prefixes"
    /\ c.out.nets = [fam \in Families |->
                        IF fam \in ShownBy(c)
                        THEN R!Minimal(CountryNetsOf(tables, names, c.question.key, fam)) ELSE {}]
EachOut(c, tables, names) ==
    /\ c.question.kind \in {"country", "all"} /\ c.out.kind = "ases"
    /\ c.out.ases = {[as |-> Named(names, as, Unnamed), nets |-> NetsOf(tables, as, ShownBy(c))] :
                        as \in {n \in AskedOf(c.question, names) :
                                   \E fam \in ShownBy(c) : tables[fam][n] # {}}}
NumbersOut(c, names) ==
    /\ c.question.kind = "country" /\ c.out.kind = "numbers"
    /\ c.out.ases = InCountry(names, c.question.key)

SetsOut(c, tables, names) ==
    ASOut(c, tables) \/ CountryOut(c, tables, names) \/ EachOut(c, tables, names) \/ NumbersOut(c, names)

OutIs(c) ==
    \/ c.out = NoOutput /\ (c.whole = FALSE \/ TakenForNone(c.tool, c.question))
    \/ MatchesOut(c)
    \/ \E tables, names : ReadFrom(c, tables, names) /\ SetsOut(c, tables, names)

OutInv == client.phase = "done" => OutIs(client)

(* What was printed is judged by the files, which stay.                    *)
LEMMA SameOut ==
    ASSUME UNCHANGED <<db, asnfile>>
    PROVE  \A c : OutIs(c)' <=> OutIs(c)
<1>1. db' = db /\ asnfile' = asnfile /\ Names' = Names
  BY DEF Names
<1>2. \A c, pairs, names : AnswersTo(c, pairs, names)' <=> AnswersTo(c, pairs, names)
  BY <1>1 DEF AnswersTo
<1>3. \A c : MatchesOut(c)' <=> MatchesOut(c)
  BY <1>2 DEF MatchesOut
<1>4. \A tables : IsTable(tables)' <=> IsTable(tables)
  BY <1>1 DEF IsTable
<1>5. \A c, tables, names : ReadFrom(c, tables, names)' <=> ReadFrom(c, tables, names)
  BY <1>1, <1>4 DEF ReadFrom
<1> QED
  BY <1>3, <1>5 DEF OutIs

(* The families that are shown.                                            *)
LEMMA ShownFamilies == \A tool, flags : Shown(tool, flags) \subseteq Families
BY DEF Shown, ShownByMccurtain, ShownByMccdb, Requested, Families

(* The ASes of a country.                                                  *)
LEMMA CountryASes ==
    ASSUME asnfile \in AsnTxts, NEW names, names = Names \/ names = NoNames, NEW cc
    PROVE  InCountry(names, cc) \subseteq InCountry(Names, cc) /\ InCountry(names, cc) \subseteq ASes
<1>1. IsNames(names)
  BY NamesAre
<1>2. InCountry(NoNames, cc) = {}
  BY DEF InCountry, NoNames
<1> QED
  BY <1>1, <1>2 DEF InCountry, IsNames

(* A list of ASes with their names.                                        *)
LEMMA ListsWellNamed ==
    ASSUME NEW ases, NEW S,
           \/ client.tool = "udp" /\ Lists(ases, S, Names, TRUE)
           \/ client.tool # "udp" /\ Lists(ases, S, Names, FALSE)
    PROVE  WellNamed(ases)
<1>1. ases \in Seq(ASRecords) /\ \A j, k \in 1 .. Len(ases) : j < k => ases[j].number < ases[k].number
  BY DEF Lists
<1>2. DOMAIN ases = 1 .. Len(ases)
  BY <1>1, LenProperties
<1>3. CASE client.tool = "udp" /\ Lists(ases, S, Names, TRUE)
  <2>1. \A j \in 1 .. Len(ases) : NamedBy(ases[j], Names, TRUE)
    BY <1>3 DEF Lists
  <2> QED
    BY <1>1, <1>2, <1>3, <2>1 DEF WellNamed, NamedBy, Kept, Names
<1>4. CASE client.tool # "udp" /\ Lists(ases, S, Names, FALSE)
  <2>1. \A j \in 1 .. Len(ases) : NamedBy(ases[j], Names, FALSE)
    BY <1>4 DEF Lists
  <2> QED
    BY <1>1, <1>2, <1>4, <2>1 DEF WellNamed, NamedBy, Kept, Names
<1> QED
  BY <1>3, <1>4

(* One AS with its name.                                                   *)
LEMMA OneWellNamed ==
    ASSUME NEW as \in ASRecords, NamedBy(as, Names, FALSE), client.tool # "udp"
    PROVE  WellNamed(<<as>>)
<1> DEFINE ases == <<as>>
<1>1. DOMAIN ases = {1} /\ ases[1] = as
  OBVIOUS
<1> HIDE DEF ases
<1>3. /\ as.number \in DOMAIN Names => as.countryCode = Names[as.number].countryCode
      /\ as.name = IF as.number \in DOMAIN Names THEN Names[as.number].name ELSE 0
  BY DEF NamedBy, Kept
<1>4. \A j, k \in DOMAIN ases : ~(j < k) /\ ases[j] = as
  <2>1. \A j \in DOMAIN ases : j = 1
    BY <1>1
  <2>2. ~(1 < 1)
    OBVIOUS
  <2> QED
    BY <1>1, <2>1, <2>2
<1>2. WellNamed(ases)
  BY <1>3, <1>4 DEF WellNamed, Names
<1> QED
  BY <1>2 DEF ases

(* Matches.                                                                *)
LEMMA MatchesRight ==
    ASSUME LInv, MatchesOut(client)
    PROVE  NothingInvented /\ AnswersAreComplete
<1> DEFINE q == client.question
           entries == OutEntries
           fam == FamilyOf(client)
           a == AddressOf(client)
           all == Pairs(db[fam])
<1>1. PICK pairs, names : AnswersTo(client, pairs, names)
  BY DEF MatchesOut
<1>2. /\ client.out.kind \in {"matches", "json"} /\ q.kind \in {"ipv4", "ipv6"}
      /\ ~TakenForNone(client.tool, q)
  BY DEF MatchesOut
<1>3. EntriesOf(client.out) = entries
  BY DEF EntriesOf, OutEntries
<1>4. db \in Databases /\ fam \in Families
  BY DEF LInv, ServerInv, FamilyOf, FamilyAsked, Family, Families
<1>5. all \subseteq Prefixes \X ASes
  <2>1. db[fam] \in [ASes -> SUBSET Prefixes]
    BY <1>4, LookupAssumption
  <2> QED
    BY <2>1, PairsIs
<1> HIDE DEF q, entries, all, fam, a
<1>6. pairs \subseteq all /\ (client.whole = TRUE => pairs = all /\ names = Names)
  BY <1>1 DEF AnswersTo, all, fam
<1>7. /\ client.tool = "udp" => Answers(entries, a, pairs, names, TRUE)
      /\ client.tool # "udp" => Answers(entries, a, pairs, names, FALSE)
  BY <1>1, <1>3, Zenon DEF AnswersTo, a
<1>8. OutPairs(entries) = {e \in pairs : Contains(e[1], a)}
  <2>1. pairs \subseteq Prefixes \X ASes
    BY <1>5, <1>6
  <2>2. CASE client.tool = "udp"
    BY <1>7, <2>1, <2>2, AnswerPairs
  <2>3. CASE client.tool # "udp"
    BY <1>7, <2>1, <2>3, AnswerPairs
  <2> QED
    BY <2>2, <2>3
<1>9. EntriesFor(a, fam) = {e \in all : Contains(e[1], a)}
  BY DEF EntriesFor, all
<1>10. OutPairs(entries) \subseteq EntriesFor(a, fam)
  BY <1>6, <1>8, <1>9
<1>11. NothingInvented
  BY <1>2, <1>10 DEF NothingInvented, q, entries, fam, a, FamilyOf, AddressOf
<1>12. ASSUME client.whole = TRUE
       PROVE  /\ OutPairs(entries) = EntriesFor(a, fam)
              /\ \A i, j \in DOMAIN entries : i < j => Len(entries[i].prefix) < Len(entries[j].prefix)
              /\ \A i \in DOMAIN entries : WellNamed(entries[i].ases)
  <2>1. OutPairs(entries) = EntriesFor(a, fam)
    BY <1>6, <1>8, <1>9, <1>12
  <2>2. CASE client.tool = "udp"
    <3>1. Answers(entries, a, pairs, Names, TRUE)
      BY <1>6, <1>7, <1>12, <2>2
    <3>2. /\ DOMAIN entries = 1 .. Len(entries)
          /\ \A i, j \in 1 .. Len(entries) : i < j => Len(entries[i].prefix) < Len(entries[j].prefix)
      BY <3>1, LenProperties DEF Answers
    <3>3. ASSUME NEW i \in 1 .. Len(entries) PROVE WellNamed(entries[i].ases)
      <4>1. Lists(entries[i].ases, OriginsIn(pairs, entries[i].prefix), Names, TRUE)
        BY <3>1, <3>3 DEF Answers
      <4> QED
        BY <2>2, <4>1, ListsWellNamed
    <3> QED
      BY <2>1, <3>2, <3>3
  <2>3. CASE client.tool # "udp"
    <3>1. Answers(entries, a, pairs, Names, FALSE)
      BY <1>6, <1>7, <1>12, <2>3
    <3>2. /\ DOMAIN entries = 1 .. Len(entries)
          /\ \A i, j \in 1 .. Len(entries) : i < j => Len(entries[i].prefix) < Len(entries[j].prefix)
      BY <3>1, LenProperties DEF Answers
    <3>3. ASSUME NEW i \in 1 .. Len(entries) PROVE WellNamed(entries[i].ases)
      <4>1. Lists(entries[i].ases, OriginsIn(pairs, entries[i].prefix), Names, FALSE)
        BY <3>1, <3>3 DEF Answers
      <4> QED
        BY <2>3, <4>1, ListsWellNamed
    <3> QED
      BY <2>1, <3>2, <3>3
  <2> QED
    BY <2>2, <2>3
<1>13. AnswersAreComplete
  BY <1>2, <1>12 DEF AnswersAreComplete, q, entries, fam, a, FamilyOf, AddressOf
<1> QED
  BY <1>11, <1>13

(* The prefixes of an AS.                                                  *)
LEMMA ASRight ==
    ASSUME LInv, NEW tables, NEW names, ReadFrom(client, tables, names), ASOut(client, tables)
    PROVE  NothingInvented /\ AnswersAreComplete
<1> DEFINE q == client.question
           out == client.out
           show == ShownBy(client)
<1>1. q.kind = "as" /\ q.key \in ASes /\ out.kind = "prefixes" /\ show \subseteq Families
  BY ShownFamilies DEF ASOut, ShownBy
<1>2. out.nets = [fam \in Families |-> IF fam \in show THEN tables[fam][q.key] ELSE {}]
  BY DEF ASOut, NetsOf
<1>3. IsTable(tables) /\ (client.whole = TRUE => tables = db)
  BY DEF ReadFrom
<1>4. \A fam \in Families : out.nets[fam] \subseteq db[fam][q.key]
  BY <1>1, <1>2, <1>3 DEF IsTable
<1>5. client.whole = TRUE => \A fam \in show : out.nets[fam] = db[fam][q.key]
  BY <1>1, <1>2, <1>3
<1>6. NothingInvented
  BY <1>1, <1>4 DEF NothingInvented
<1>7. AnswersAreComplete
  BY <1>1, <1>5 DEF AnswersAreComplete, ShownBy, TakenForNone
<1> QED
  BY <1>6, <1>7

(* The prefixes of a country.                                              *)
LEMMA CountryRight ==
    ASSUME LInv, NEW tables, NEW names, ReadFrom(client, tables, names), CountryOut(client, tables, names)
    PROVE  NothingInvented /\ AnswersAreComplete
<1> DEFINE q == client.question
           out == client.out
           show == ShownBy(client)
           some(fam) == CountryNetsOf(tables, names, q.key, fam)
<1>1. q.kind = "country" /\ out.kind = "prefixes" /\ show \subseteq Families
  BY ShownFamilies DEF CountryOut, ShownBy
<1>2. out.nets = [fam \in Families |-> IF fam \in show THEN R!Minimal(some(fam)) ELSE {}]
  BY DEF CountryOut
<1>3. IsTable(tables) /\ (client.whole = TRUE => tables = db /\ names = Names)
  BY DEF ReadFrom
<1>4. InCountry(names, q.key) \subseteq InCountry(Names, q.key) /\ InCountry(names, q.key) \subseteq ASes
  BY CountryASes DEF ReadFrom, LInv, ServerInv
<1>5. \A fam : CountryNets(fam, q.key) = UNION {db[fam][as] : as \in InCountry(Names, q.key)}
  BY DEF CountryNets, Named4Country, Names
<1>6. ASSUME NEW fam \in Families
      PROVE  /\ some(fam) \subseteq CountryNets(fam, q.key) /\ some(fam) \in SUBSET Prefixes
             /\ client.whole = TRUE => some(fam) = CountryNets(fam, q.key)
  <2>1. \A as \in ASes : tables[fam][as] \subseteq db[fam][as] /\ tables[fam][as] \subseteq Prefixes
    BY <1>3, <1>6 DEF IsTable
  <2>2. some(fam) = UNION {tables[fam][as] : as \in InCountry(names, q.key)}
    BY DEF CountryNetsOf
  <2>3. some(fam) \subseteq CountryNets(fam, q.key) /\ some(fam) \in SUBSET Prefixes
    BY <1>4, <1>5, <2>1, <2>2
  <2>4. client.whole = TRUE => some(fam) = CountryNets(fam, q.key)
    BY <1>3, <1>5, <2>2
  <2> QED
    BY <2>3, <2>4
<1> HIDE DEF some, q, out, show
<1>7. ASSUME NEW fam \in Families, fam \in show
      PROVE  /\ CoveredBy(out.nets[fam]) = CoveredBy(some(fam))
             /\ \A p, r \in out.nets[fam] : Contains(p, r) => p = r
  <2>1. out.nets[fam] = R!Minimal(some(fam))
    BY <1>2, <1>7
  <2>2. \A a \in Addresses : R!Covered(R!Minimal(some(fam)), a) <=> R!Covered(some(fam), a)
    BY <1>6, <1>7, MinimalCovers
  <2>3. \A p, r \in R!Minimal(some(fam)) : Contains(p, r) => p = r
    BY <1>6, <1>7, MinimalApart
  <2> QED
    BY <2>1, <2>2, <2>3 DEF CoveredBy
<1>8. ASSUME NEW fam \in Families
      PROVE  CoveredBy(out.nets[fam]) \subseteq CoveredBy(CountryNets(fam, q.key))
  <2>1. CASE fam \in show
    BY <1>6, <1>7, <2>1 DEF CoveredBy, R!Covered
  <2>2. CASE fam \notin show
    <3>1. out.nets[fam] = {}
      BY <1>2, <2>2
    <3> QED
      BY <3>1 DEF CoveredBy, R!Covered
  <2> QED
    BY <2>1, <2>2
<1>9. ASSUME client.whole = TRUE, NEW fam \in show
      PROVE  /\ CoveredBy(out.nets[fam]) = CoveredBy(CountryNets(fam, q.key))
             /\ \A p, r \in out.nets[fam] : Contains(p, r) => p = r
  BY <1>1, <1>6, <1>7, <1>9
<1>10. NothingInvented
  BY <1>1, <1>8 DEF NothingInvented, q, out
<1>11. AnswersAreComplete
  BY <1>1, <1>9 DEF AnswersAreComplete, q, out, show, ShownBy, TakenForNone
<1> QED
  BY <1>10, <1>11

(* The ASes of a country, or all, with the prefixes of each.               *)
LEMMA EachRight ==
    ASSUME LInv, client.phase = "done", NEW tables, NEW names, ReadFrom(client, tables, names),
           EachOut(client, tables, names)
    PROVE  NothingInvented /\ AnswersAreComplete
<1> DEFINE q == client.question
           out == client.out
           show == ShownBy(client)
           have == {n \in AskedOf(q, names) : \E fam \in show : tables[fam][n] # {}}
           said(as) == [as |-> Named(names, as, Unnamed), nets |-> NetsOf(tables, as, show)]
<1>1. q.kind \in {"country", "all"} /\ out.kind = "ases" /\ show \subseteq Families
  BY ShownFamilies DEF EachOut, ShownBy
<1>2. out.ases = {said(as) : as \in have}
  BY DEF EachOut
<1>3. IsTable(tables) /\ (client.whole = TRUE => tables = db /\ names = Names)
  BY DEF ReadFrom
<1>4. AskedOf(q, names) \subseteq AskedFor(q) /\ AskedOf(q, names) \subseteq ASes
      /\ AskedOf(q, Names) = AskedFor(q)
  BY CountryASes DEF ReadFrom, LInv, ServerInv, AskedOf, AskedFor, Named4Country, Names
<1>5. IsNames(names)
  BY NamesAre DEF ReadFrom, LInv, ServerInv
<1>6. ASSUME NEW as \in ASes
      PROVE  /\ said(as).as.number = as
             /\ \A fam \in Families : said(as).nets[fam] \subseteq db[fam][as]
             /\ \A fam \in show : said(as).nets[fam] = tables[fam][as]
  <2>1. said(as).as = Named(names, as, Unnamed)
    OBVIOUS
  <2>2. said(as).nets = [fam \in Families |-> IF fam \in show THEN tables[fam][as] ELSE {}]
    BY DEF NetsOf
  <2> HIDE DEF said, show
  <2>3. \A fam \in Families : said(as).nets[fam] \subseteq db[fam][as]
    BY <1>3, <2>2 DEF IsTable
  <2>4. \A fam \in show : said(as).nets[fam] = tables[fam][as]
    BY <1>1, <2>2
  <2>5. Named(names, as, Unnamed).number = as
    BY DEF Named
  <2> QED
    BY <2>1, <2>3, <2>4, <2>5
<1>12. ASSUME NEW as \in ASes
       PROVE  said(as).as \in ASRecords /\ NamedBy(said(as).as, names, FALSE)
  <2>1. said(as).as = Named(names, as, Unnamed)
    OBVIOUS
  <2>2. /\ Named(names, as, Unnamed) \in ASRecords
        /\ NamedBy(Named(names, as, Unnamed), names, FALSE)
    BY <1>5, <1>12, Blanks, NamedIs, Zenon
  <2> HIDE DEF said
  <2> QED
    BY <2>1, <2>2, Zenon
<1> HIDE DEF said, have, q, out, show
<1>7. have \subseteq ASes /\ have \subseteq AskedFor(q)
  BY <1>4 DEF have
<1>8. ASSUME NEW r \in out.ases, NEW fam \in Families
      PROVE  r.as.number \in AskedFor(q) /\ r.nets[fam] \subseteq db[fam][r.as.number]
  BY <1>2, <1>6, <1>7, <1>8
<1>9. ASSUME client.whole = TRUE
      PROVE  /\ {r.as.number : r \in out.ases} =
                    {as \in AskedFor(q) : \E fam \in show : db[fam][as] # {}}
             /\ \A r \in out.ases : /\ \A fam \in show : r.nets[fam] = db[fam][r.as.number]
                                    /\ WellNamed(<<r.as>>)
  <2>1. tables = db /\ names = Names
    BY <1>3, <1>9
  <2>2. have = {as \in AskedFor(q) : \E fam \in show : db[fam][as] # {}}
    BY <1>4, <2>1 DEF have
  <2>3. {r.as.number : r \in out.ases} = have
    BY <1>2, <1>6, <1>7
  <2>4. ASSUME NEW r \in out.ases
        PROVE  /\ \A fam \in show : r.nets[fam] = db[fam][r.as.number]
               /\ WellNamed(<<r.as>>)
    <3>1. PICK as \in have : r = said(as)
      BY <1>2, <2>4
    <3>5. r.as \in ASRecords /\ NamedBy(r.as, Names, FALSE)
      <4>1. as \in ASes
        BY <1>7
      <4> QED
        BY <1>12, <2>1, <3>1, <4>1, Zenon
    <3>2. r.as.number = as
      BY <1>6, <1>7, <3>1
    <3>3. client.tool # "udp"
      BY <1>1 DEF LInv, ClientInv, Asks, Understood, q
    <3>4. \A fam \in show : r.nets[fam] = db[fam][r.as.number]
      <4>1. as \in ASes
        BY <1>7
      <4>2. \A fam \in show : said(as).nets[fam] = tables[fam][as]
        BY <1>6, <4>1
      <4> QED
        BY <2>1, <3>1, <3>2, <4>2
    <3> QED
      BY <3>3, <3>4, <3>5, OneWellNamed
  <2> QED
    BY <2>2, <2>3, <2>4
<1>10. NothingInvented
  BY <1>1, <1>8 DEF NothingInvented, q, out
<1>11. AnswersAreComplete
  BY <1>1, <1>9 DEF AnswersAreComplete, q, out, show, ShownBy, TakenForNone
<1> QED
  BY <1>10, <1>11

(* The ASes of a country.                                                  *)
LEMMA NumbersRight ==
    ASSUME LInv, NEW tables, NEW names, ReadFrom(client, tables, names), NumbersOut(client, names)
    PROVE  NothingInvented /\ AnswersAreComplete
<1>1. client.question.kind = "country" /\ client.out.kind = "numbers"
      /\ client.out.ases = InCountry(names, client.question.key)
  BY DEF NumbersOut
<1>2. Named4Country(client.question.key) = InCountry(Names, client.question.key)
  BY DEF Named4Country, Names
<1>3. InCountry(names, client.question.key) \subseteq InCountry(Names, client.question.key)
  BY CountryASes DEF ReadFrom, LInv, ServerInv
<1>4. client.whole = TRUE => names = Names
  BY DEF ReadFrom
<1>5. NothingInvented
  BY <1>1, <1>2, <1>3 DEF NothingInvented
<1>6. AnswersAreComplete
  BY <1>1, <1>2, <1>4 DEF AnswersAreComplete, TakenForNone
<1> QED
  BY <1>5, <1>6

(* What the clients print is right.                                        *)
LEMMA PrintedRight == LInv /\ OutInv => NothingInvented /\ AnswersAreComplete
<1> SUFFICES ASSUME LInv, OutInv PROVE NothingInvented /\ AnswersAreComplete
  OBVIOUS
<1>1. CASE client.phase # "done"
  BY <1>1 DEF NothingInvented, AnswersAreComplete
<1>2. CASE client.out = NoOutput /\ (client.whole = FALSE \/ TakenForNone(client.tool, client.question))
  <2>1. client.out.kind = "nothing"
    BY <1>2 DEF NoOutput
  <2>2. NothingInvented
    BY <2>1 DEF NothingInvented
  <2>3. CASE client.whole = FALSE
    BY <2>2, <2>3 DEF AnswersAreComplete
  <2>4. CASE TakenForNone(client.tool, client.question)
    <3>1. client.question.kind = "ipv6"
      BY <2>4 DEF TakenForNone
    <3> QED
      BY <1>2, <2>1, <2>2, <2>4, <3>1 DEF AnswersAreComplete
  <2> QED
    BY <1>2, <2>2, <2>3, <2>4
<1>3. CASE MatchesOut(client)
  BY <1>3, MatchesRight
<1>4. ASSUME client.phase = "done", NEW tables, NEW names,
             ReadFrom(client, tables, names), SetsOut(client, tables, names)
      PROVE  NothingInvented /\ AnswersAreComplete
  BY <1>4, ASRight, CountryRight, EachRight, NumbersRight DEF SetsOut
<1> QED
  BY <1>1, <1>2, <1>3, <1>4 DEF OutInv, OutIs

(* Client c is done, and printed out.                                      *)
Finished(c, out) ==
    /\ c.tool = client.tool /\ c.question = client.question /\ c.flags = client.flags
    /\ c.out = out
    /\ c.whole = TRUE => server.as2ip = db /\ server.asntxt = Names

LEMMA FinishedBy ==
    ASSUME DOMAIN client = ClientFields, NEW out, FinishWith(out)
    PROVE  Finished(client', out)
<1>1. client' = [client EXCEPT !.phase = "done", !.out = out, !.exit = 0,
                     !.whole = server.as2ip = db /\ server.asntxt = LoadAsnTxt(asnfile).names]
  BY DEF FinishWith
<1>2. /\ client'.tool = client.tool /\ client'.question = client.question
      /\ client'.flags = client.flags /\ client'.out = out
  BY <1>1 DEF ClientFields
<1>3. "whole" \in DOMAIN client
  BY DEF ClientFields
<1>4. client'.whole = (server.as2ip = db /\ server.asntxt = LoadAsnTxt(asnfile).names)
  BY <1>1, <1>3
<1>5. client'.whole = TRUE => server.as2ip = db /\ server.asntxt = Names
  BY <1>4 DEF Names
<1> QED
  BY <1>2, <1>5 DEF Finished

(* The matches of the server, as a resolver or a client over TCP shows     *)
(* them.                                                                   *)
LEMMA ShowsMatches ==
    ASSUME LInv, client.phase # "idle", client.tool \notin {"udp", "mccdb"},
           NEW c, NEW unknown, Blank(unknown), client.question.kind \in {"ipv4", "ipv6"},
           NEW fam \in Families, fam = FamilyOf(client),
           NEW a \in Addresses, a = AddressOf(client),
           Finished(c, [kind |-> "matches",
                        entries |-> MatchesOf(server.net2as[fam], a, server.asntxt, unknown)])
    PROVE  MatchesOut(c)
<1> DEFINE m == MatchesOf(server.net2as[fam], a, server.asntxt, unknown)
           out == [kind |-> "matches", entries |-> m]
<1>1. ServerInv
  BY DEF LInv
<1>3. PICK pairs : TellsOf(fam, pairs) /\ Answers(m, a, pairs, server.asntxt, FALSE)
  BY <1>1, ServerAnswers
<1>4. c.out = out /\ out.kind = "matches" /\ out.entries = m
  BY DEF Finished
<1> HIDE DEF m, out
<1>5. EntriesOf(c.out) = m /\ c.out.kind = "matches"
  BY <1>4 DEF EntriesOf
<1>6. /\ c.tool = client.tool /\ c.question = client.question
      /\ c.whole = TRUE => server.as2ip = db /\ server.asntxt = Names
  BY DEF Finished
<1>7. pairs \in SUBSET Pairs(db[fam]) /\ (server.as2ip = db => pairs = Pairs(db[fam]))
  BY <1>3 DEF TellsOf
<1>2. FamilyOf(c) = fam /\ AddressOf(c) = a
  BY <1>6 DEF FamilyOf, AddressOf
<1>8. Answers(EntriesOf(c.out), AddressOf(c), pairs, server.asntxt, FALSE)
  BY <1>2, <1>3, <1>5, Zenon
<1>9. AnswersTo(c, pairs, server.asntxt)
  BY <1>2, <1>6, <1>7, <1>8 DEF AnswersTo
<1> QED
  BY <1>5, <1>6, <1>9 DEF MatchesOut, TakenForNone

(* The tables of the server, and of its answers about ASes.                *)
LEMMA ServerReads ==
    ASSUME LInv, NEW c, NEW out, Finished(c, out)
    PROVE  ReadFrom(c, server.as2ip, server.asntxt)
BY DEF LInv, ServerInv, Finished, ReadFrom

LEMMA ASResponseIs ==
    ASSUME NEW as
    PROVE  /\ GetASPrefixesResponse(as).as = Named(server.asntxt, as, Unnamed)
           /\ \A fam \in Families : GetASPrefixesResponse(as).nets[fam] = server.as2ip[fam][as]
BY DEF GetASPrefixesResponse, Tables, Families

(* The answer about an AS.                                                 *)
LEMMA ShowsAS ==
    ASSUME LInv, client.phase # "idle", NEW c, client.question.kind = "as",
           Finished(c, PrintASPrefixesResponse(GetASPrefixesResponse(client.question.key), ShownBy(client)))
    PROVE  ASOut(c, server.as2ip)
<1> DEFINE resp == GetASPrefixesResponse(client.question.key)
           show == ShownBy(client)
           out == PrintASPrefixesResponse(resp, show)
<1>1. client.question.key \in ASes
  BY DEF LInv, ClientInv, Asks, Questions
<1>2. c.out = out /\ c.tool = client.tool /\ c.question = client.question /\ ShownBy(c) = show
  BY DEF Finished, ShownBy
<1>3. out.kind = "prefixes" /\ out.nets = [fam \in Families |-> IF fam \in show THEN resp.nets[fam] ELSE {}]
  BY DEF PrintASPrefixesResponse
<1>4. \A fam \in Families : resp.nets[fam] = server.as2ip[fam][client.question.key]
  BY ASResponseIs
<1> HIDE DEF resp, show, out
<1>5. out.nets = NetsOf(server.as2ip, client.question.key, show)
  BY <1>3, <1>4 DEF NetsOf
<1> QED
  BY <1>1, <1>2, <1>3, <1>5 DEF ASOut

(* The answer about a country.                                             *)
LEMMA CountryResponseIs ==
    ASSUME NEW cc
    PROVE  /\ \A r \in GetCountryPrefixesResponse(cc) :
                 \E as \in InCountry(server.asntxt, cc) : r = GetASPrefixesResponse(as)
           /\ \A as \in InCountry(server.asntxt, cc), fam \in Families :
                 server.as2ip[fam][as] # {} => GetASPrefixesResponse(as) \in GetCountryPrefixesResponse(cc)
<1>1. GetCountryPrefixesResponse(cc) =
          {resp \in {GetASPrefixesResponse(as) : as \in InCountry(server.asntxt, cc)} :
              \E fam \in Families : resp.nets[fam] # {}}
  BY DEF GetCountryPrefixesResponse, InCountry
<1> QED
  BY <1>1, ASResponseIs

LEMMA ShowsCountry ==
    ASSUME LInv, NEW c, client.question.kind = "country",
           Finished(c, PrintCountryPrefixesResponse(GetCountryPrefixesResponse(client.question.key),
                                                    ShownBy(client)))
    PROVE  CountryOut(c, server.as2ip, server.asntxt)
<1> DEFINE cc == client.question.key
           resp == GetCountryPrefixesResponse(cc)
           show == ShownBy(client)
           out == PrintCountryPrefixesResponse(resp, show)
           some(fam) == UNION {r.nets[fam] : r \in resp}
<1>1. c.out = out /\ c.tool = client.tool /\ c.question = client.question /\ ShownBy(c) = show
  BY DEF Finished, ShownBy
<1>2. /\ out.kind = "prefixes"
      /\ out.nets = [fam \in Families |-> IF fam \in show THEN R!Minimal(some(fam)) ELSE {}]
  BY DEF PrintCountryPrefixesResponse, AggregatedNets
<1>3. /\ \A r \in resp : \E as \in InCountry(server.asntxt, cc) : r = GetASPrefixesResponse(as)
      /\ \A as \in InCountry(server.asntxt, cc), fam \in Families :
            server.as2ip[fam][as] # {} => GetASPrefixesResponse(as) \in resp
  BY CountryResponseIs
<1> HIDE DEF resp, show, out
<1>4. ASSUME NEW fam \in Families
      PROVE  some(fam) = CountryNetsOf(server.as2ip, server.asntxt, cc, fam)
  <2> DEFINE all == CountryNetsOf(server.as2ip, server.asntxt, cc, fam)
  <2>1. all = UNION {server.as2ip[fam][as] : as \in InCountry(server.asntxt, cc)}
    BY DEF CountryNetsOf
  <2> HIDE DEF all
  <2>2. ASSUME NEW p \in some(fam) PROVE p \in all
    <3>1. PICK r \in resp : p \in r.nets[fam]
      BY <2>2
    <3>2. PICK as \in InCountry(server.asntxt, cc) : r = GetASPrefixesResponse(as)
      BY <1>3
    <3>3. p \in server.as2ip[fam][as]
      BY <3>1, <3>2, ASResponseIs
    <3> QED
      BY <2>1, <3>3
  <2>3. ASSUME NEW p \in all PROVE p \in some(fam)
    <3>1. PICK as \in InCountry(server.asntxt, cc) : p \in server.as2ip[fam][as]
      BY <2>1, <2>3
    <3>2. GetASPrefixesResponse(as) \in resp
      BY <1>3, <3>1
    <3>3. p \in GetASPrefixesResponse(as).nets[fam]
      BY <3>1, ASResponseIs
    <3> QED
      BY <3>2, <3>3
  <2> QED
    BY <2>2, <2>3 DEF all
<1> HIDE DEF some
<1>5. out.nets = [fam \in Families |->
                     IF fam \in show
                     THEN R!Minimal(CountryNetsOf(server.as2ip, server.asntxt, cc, fam)) ELSE {}]
  BY <1>2, <1>4
<1> QED
  BY <1>1, <1>2, <1>5 DEF CountryOut

(* With -v.                                                                *)
LEMMA ShowsEach ==
    ASSUME LInv, NEW c, client.question.kind = "country",
           Finished(c, PrintEachAS(GetCountryPrefixesResponse(client.question.key), ShownBy(client)))
    PROVE  EachOut(c, server.as2ip, server.asntxt)
<1> DEFINE cc == client.question.key
           resp == GetCountryPrefixesResponse(cc)
           show == ShownBy(client)
           out == PrintEachAS(resp, show)
           tables == server.as2ip
           names == server.asntxt
           one(r) == [as |-> r.as, nets |-> PrintASPrefixesResponse(r, show).nets]
           said(as) == [as |-> Named(names, as, Unnamed), nets |-> NetsOf(tables, as, show)]
           shown == {x \in resp : \E fam \in show : x.nets[fam] # {}}
           have == {n \in InCountry(names, cc) : \E fam \in show : tables[fam][n] # {}}
<1>1. c.out = out /\ c.tool = client.tool /\ c.question = client.question /\ ShownBy(c) = show
  BY DEF Finished, ShownBy
<1>2. out.kind = "ases" /\ out.ases = {one(r) : r \in shown}
  BY DEF PrintEachAS
<1>3. /\ \A r \in resp : \E as \in InCountry(names, cc) : r = GetASPrefixesResponse(as)
      /\ \A as \in InCountry(names, cc), fam \in Families :
            tables[fam][as] # {} => GetASPrefixesResponse(as) \in resp
  BY CountryResponseIs
<1>4. show \subseteq Families
  BY ShownFamilies DEF ShownBy
<1>5. \A as : one(GetASPrefixesResponse(as)) = said(as)
  <2> SUFFICES ASSUME NEW as PROVE one(GetASPrefixesResponse(as)) = said(as)
    OBVIOUS
  <2> DEFINE r == GetASPrefixesResponse(as)
  <2>1. r.as = Named(names, as, Unnamed) /\ \A fam \in Families : r.nets[fam] = tables[fam][as]
    BY ASResponseIs
  <2> HIDE DEF r, show, tables, names
  <2>2. PrintASPrefixesResponse(r, show).nets = [fam \in Families |-> IF fam \in show THEN r.nets[fam] ELSE {}]
    BY DEF PrintASPrefixesResponse
  <2>3. PrintASPrefixesResponse(r, show).nets = NetsOf(tables, as, show)
    BY <2>1, <2>2 DEF NetsOf
  <2>4. one(r) = said(as)
    BY <2>1, <2>3
  <2> QED
    BY <2>4 DEF r
<1>6. \A as : \A fam \in Families : GetASPrefixesResponse(as).nets[fam] = tables[fam][as]
  BY ASResponseIs
<1> HIDE DEF resp, show, out, one, said, tables, names, cc
<1>7. \A r \in shown : \E as \in have : r = GetASPrefixesResponse(as)
  BY <1>3, <1>4, <1>6
<1>8. \A as \in have : GetASPrefixesResponse(as) \in shown
  BY <1>3, <1>4, <1>6
<1> HIDE DEF shown, have
<1>9. {one(r) : r \in shown} = {said(as) : as \in have}
  BY <1>5, <1>7, <1>8
<1>10. AskedOf(c.question, names) = InCountry(names, cc)
  BY <1>1 DEF AskedOf, cc
<1>11. c.out.ases = {said(as) : as \in {n \in AskedOf(c.question, names) :
                                           \E fam \in ShownBy(c) : tables[fam][n] # {}}}
  BY <1>1, <1>2, <1>9, <1>10 DEF have
<1> QED
  BY <1>1, <1>2, <1>11 DEF EachOut, said, tables, names

(* Over TCP the address of a question is an address, and asked for as it   *)
(* is.                                                                     *)
LEMMA AskedOverTcp ==
    ASSUME LInv, client.phase # "idle", client.tool \in Tcp
    PROVE  /\ client.tool # "dns"
           /\ client.question.kind \in {"ipv4", "ipv6"} => client.question.key \in Addresses
BY DEF LInv, ClientInv, Asks, Questions, Tcp

(* mccurtain and mccurtaincgi.                                             *)
LEMMA PrintResponseOut ==
    ASSUME LInv, PrintResponse
    PROVE  OutIs(client')
<1> DEFINE q == client.question
           out == Printed(q, client.flags, ShownBy(client), wire)
           c == client'
<1>1. /\ client.phase = "answered" /\ client.phase # "idle" /\ client.tool \in Tcp /\ client.tool # "udp"
      /\ FinishWith(out) /\ client.tool \notin {"udp", "mccdb"}
  BY DEF PrintResponse, Tcp, ShownBy
<1>2. q.kind \in {"ipv4", "ipv6", "as", "country"} /\ DOMAIN client = ClientFields
  BY <1>1 DEF LInv, ClientInv, Asks, Tcp, Understood
<1>3. wire = TcpAnswer(q)
  BY <1>1 DEF LInv, WireInv, TcpWire
<1>4. Finished(c, out)
  BY <1>1, <1>2, FinishedBy
<1>5. ReadFrom(c, server.as2ip, server.asntxt)
  BY <1>4, ServerReads
<1> HIDE DEF c
<1>6. CASE q.kind = "ipv4"
  <2>1. wire = MatchesOf(server.net2as[4], q.key, server.asntxt, Unnamed)
    BY <1>3, <1>6 DEF TcpAnswer, GetIpv4AddrResponse
  <2>2. out = [kind |-> "matches", entries |-> MatchesOf(server.net2as[4], q.key, server.asntxt, Unnamed)]
    BY <1>6, <2>1 DEF Printed, PrintIpv4AddrResponse
  <2>3. 4 = FamilyOf(client) /\ q.key = AddressOf(client) /\ 4 \in Families /\ q.key \in Addresses
    BY <1>1, <1>6, AskedAsNamed, AskedOverTcp DEF Family, Families
  <2>4. MatchesOut(c)
    BY <1>1, <1>4, <1>6, <2>2, <2>3, Blanks, ShowsMatches
  <2> QED
    BY <2>4 DEF OutIs, c
<1>7. CASE q.kind = "ipv6"
  <2>1. wire = MatchesOf(server.net2as[6], q.key, server.asntxt, Unnamed)
    BY <1>3, <1>7 DEF TcpAnswer, GetIpv6AddrResponse
  <2>2. out = [kind |-> "matches", entries |-> MatchesOf(server.net2as[6], q.key, server.asntxt, Unnamed)]
    BY <1>7, <2>1 DEF Printed, PrintIpv6AddrResponse
  <2>3. 6 = FamilyOf(client) /\ q.key = AddressOf(client) /\ 6 \in Families /\ q.key \in Addresses
    BY <1>1, <1>7, AskedAsNamed, AskedOverTcp DEF Family, Families
  <2>4. MatchesOut(c)
    BY <1>1, <1>4, <1>7, <2>2, <2>3, Blanks, ShowsMatches
  <2> QED
    BY <2>4 DEF OutIs, c
<1>8. CASE q.kind = "as"
  <2>1. out = PrintASPrefixesResponse(GetASPrefixesResponse(q.key), ShownBy(client))
    BY <1>3, <1>8 DEF TcpAnswer, Printed
  <2>2. ASOut(c, server.as2ip)
    BY <1>1, <1>4, <1>8, <2>1, ShowsAS
  <2> QED
    BY <1>5, <2>2 DEF OutIs, SetsOut, c
<1>9. CASE q.kind = "country" /\ "v" \in client.flags
  <2>1. out = PrintEachAS(GetCountryPrefixesResponse(q.key), ShownBy(client))
    BY <1>3, <1>9 DEF TcpAnswer, Printed
  <2>2. EachOut(c, server.as2ip, server.asntxt)
    BY <1>4, <1>9, <2>1, ShowsEach
  <2> QED
    BY <1>5, <2>2 DEF OutIs, SetsOut, c
<1>10. CASE q.kind = "country" /\ "v" \notin client.flags
  <2>1. out = PrintCountryPrefixesResponse(GetCountryPrefixesResponse(q.key), ShownBy(client))
    BY <1>3, <1>10 DEF TcpAnswer, Printed
  <2>2. CountryOut(c, server.as2ip, server.asntxt)
    BY <1>4, <1>10, <2>1, ShowsCountry
  <2> QED
    BY <1>5, <2>2 DEF OutIs, SetsOut, c
<1> QED
  BY <1>2, <1>6, <1>7, <1>8, <1>9, <1>10

(* mccurtain -u, as text and as JSON.                                      *)
LEMMA RecvResponseOut ==
    ASSUME LInv, RecvResponse
    PROVE  OutIs(client')
<1> DEFINE q == client.question
           resp == GetResponse(Request(q))
           cut == CutResponse(resp)
           msg == M!ReadMessage(wire)
           c == client'
           out == IF "j" \in client.flags
                  THEN [kind |-> "json", json |-> M!ResponseToJson(cut)]
                  ELSE [kind |-> "matches", entries |-> cut.prefixes]
<1>1. client.phase = "answered" /\ client.phase # "idle" /\ client.tool = "udp" /\ wire # <<>>
  BY DEF RecvResponse
<1>2. Accepted(msg) /\ msg.payload.data = cut
  BY <1>1, ResponseAccepted
<1>3. FinishWith(out)
  BY <1>2 DEF RecvResponse
<1>4. /\ q.kind \in {"ipv4", "ipv6"} /\ q \in Questions /\ DOMAIN client = ClientFields /\ ServerInv
  BY <1>1 DEF LInv, ClientInv, Asks, Understood
<1> HIDE DEF out
<1>5. Finished(c, out)
  BY <1>3, <1>4, FinishedBy
<1>6. /\ Family(q) \in Families /\ q.key \in Addresses /\ resp \in Responses /\ Len(resp.prefixes) < Byte
      /\ resp.prefixes = MatchesOf(server.net2as[Family(q)], q.key, server.asntxt, Dashes)
  BY <1>4, ResponseIs
<1>7. PICK pairs : TellsOf(Family(q), pairs)
          /\ Answers(MatchesOf(server.net2as[Family(q)], q.key, server.asntxt, Dashes), q.key, pairs,
                     server.asntxt, FALSE)
  BY <1>4, <1>6, Blanks, ServerAnswers
<1> HIDE DEF q, resp, c
<1>8. Answers(resp.prefixes, q.key, pairs, server.asntxt, FALSE)
  BY <1>6, <1>7, Zenon
<1>9. Answers(CutPrefixes(resp.prefixes), q.key, pairs, server.asntxt, TRUE)
  BY <1>8, CutAnswers
<1>10. cut.prefixes = CutPrefixes(resp.prefixes)
  BY DEF CutResponse
<1>11. M!ResponseFromJson(M!ResponseToJson(cut)) = cut
  <2>1. cut \in Responses
    BY <1>6, ReadWrittenResponse
  <2> HIDE DEF cut
  <2> QED
    BY <2>1, ResponseInJson
<1> HIDE DEF cut
<1>12. EntriesOf(out) = cut.prefixes /\ out.kind \in {"matches", "json"}
  <2>1. CASE "j" \in client.flags
    BY <1>11, <2>1 DEF out, EntriesOf
  <2>2. CASE "j" \notin client.flags
    BY <2>2 DEF out, EntriesOf
  <2> QED
    BY <2>1, <2>2
<1>13. /\ c.out = out /\ c.question = q /\ c.tool = "udp"
       /\ c.whole = TRUE => server.as2ip = db /\ server.asntxt = Names
  BY <1>1, <1>5 DEF Finished, q
<1>14. pairs \in SUBSET Pairs(db[Family(q)]) /\ (server.as2ip = db => pairs = Pairs(db[Family(q)]))
  BY <1>7 DEF TellsOf
<1>18. FamilyOf(c) = Family(q) /\ AddressOf(c) = q.key
  BY <1>13, AskedAsNamed
<1>15. Answers(EntriesOf(c.out), AddressOf(c), pairs, server.asntxt, TRUE)
  BY <1>9, <1>10, <1>12, <1>13, <1>18, Zenon
<1>16. AnswersTo(c, pairs, server.asntxt)
  BY <1>13, <1>14, <1>15, <1>18 DEF AnswersTo
<1>17. MatchesOut(c)
  BY <1>4, <1>12, <1>13, <1>16 DEF MatchesOut, TakenForNone, q
<1> QED
  BY <1>17 DEF OutIs, c

(* A resolver.                                                             *)
LEMMA DnsOut ==
    ASSUME LInv, ReceiveDnsResponse, wire # <<>>
    PROVE  OutIs(client')
<1> DEFINE q == client.question
           a == Ipv4Address(q)
           m == MatchesOf(server.net2as[4], a, server.asntxt, Dashes)
           out == [kind |-> "matches", entries |-> m]
           c == client'
<1>1. /\ client.phase = "answered" /\ client.phase # "idle" /\ client.tool = "dns"
      /\ client.tool \notin {"udp", "mccdb"}
      /\ FinishWith([kind |-> "matches", entries |-> wire])
  BY DEF ReceiveDnsResponse
<1>2. q.kind \in {"ipv4", "ipv6"} /\ q \in Questions /\ DOMAIN client = ClientFields /\ wire = m
  BY <1>1 DEF LInv, ClientInv, Asks, Understood, WireInv, DnsWire
<1>3. FinishWith(out)
  BY <1>1, <1>2
<1> HIDE DEF out
<1>4. Finished(c, out)
  BY <1>2, <1>3, FinishedBy
<1>5. 4 = FamilyOf(client) /\ 4 \in Families
  BY <1>1 DEF FamilyOf, FamilyAsked, Families
<1>7. a \in Addresses
  <2>1. InvalidIpv4 \in Addresses
    BY DEF InvalidIpv4, Addresses
  <2>2. q.kind = "ipv4" => q.key \in Addresses
    BY <1>2 DEF Questions
  <2> QED
    BY <2>1, <2>2 DEF Ipv4Address
<1>8. a = AddressOf(client)
  BY <1>1, <1>2 DEF AddressOf, AddressAsked, Ipv4Address
<1> HIDE DEF c, a
<1>6. MatchesOut(c)
  BY <1>1, <1>2, <1>4, <1>5, <1>7, <1>8, Blanks, ShowsMatches DEF out
<1> QED
  BY <1>6 DEF OutIs, c

(* mccdb: the matches among what it loaded.                                *)
LEMMA MccdbMatches ==
    ASSUME LInv, NEW tables, IsTable(tables), NEW fam \in Families, NEW c, c.tool = "mccdb",
           c.question.kind \in {"ipv4", "ipv6"}, c.question.key \in Addresses,
           ~TakenForNone(c.tool, c.question),
           fam = Family(c.question), c.whole = TRUE => tables = db, c.out.kind = "matches",
           c.out.entries = MatchesOf(LoadPairs(Pairs(tables[fam])), c.question.key, Names, Unnamed)
    PROVE  MatchesOut(c)
<1> DEFINE t == LoadPairs(Pairs(tables[fam]))
           pairs == Pairs(tables[fam])
           a == c.question.key
<1>1. db \in Databases /\ asnfile \in AsnTxts
  BY DEF LInv, ServerInv
<1>2. pairs \subseteq Pairs(db[fam]) /\ Tells(t, pairs)
  BY <1>1, TablePairs
<1>3. IsNames(Names) /\ Blank(Unnamed) /\ a \in Prefixes
  BY <1>1, NamesAre, Blanks, AddressIsPrefix
<1>4. c.whole = TRUE => pairs = Pairs(db[fam])
  OBVIOUS
<1>5. EntriesOf(c.out) = MatchesOf(t, a, Names, Unnamed)
  BY DEF EntriesOf
<1> HIDE DEF t, pairs
<1>6. Answers(MatchesOf(t, a, Names, Unnamed), a, pairs, Names, FALSE)
  BY <1>2, <1>3, MatchesAnswer
<1>9. FamilyOf(c) = fam /\ AddressOf(c) = a
  BY AskedAsNamed
<1>7. Answers(EntriesOf(c.out), AddressOf(c), pairs, Names, FALSE)
  BY <1>5, <1>6, <1>9, Zenon
<1>8. AnswersTo(c, pairs, Names)
  BY <1>2, <1>4, <1>7, <1>9 DEF AnswersTo
<1> QED
  BY <1>8 DEF MatchesOut

(* mccdb: the prefixes and the ASes it loaded.                             *)
LEMMA MccdbSets ==
    ASSUME NEW tables, NEW c, NEW q, c.question = q, q \in Questions, NEW flags,
           ShownBy(c) = ShownByMccdb(flags), q.kind \in {"as", "country", "all"},
           c.out = MccdbPrinted(tables, Names, q, flags)
    PROVE  SetsOut(c, tables, Names)
<1> DEFINE show == ShownByMccdb(flags)
<1>1. CASE q.kind = "as"
  <2>1. c.out = PrintOneAS(tables, show, q.key) /\ q.key \in ASes
    BY <1>1 DEF MccdbPrinted, Questions
  <2>2. c.out.kind = "prefixes" /\ c.out.nets = NetsOf(tables, q.key, show)
    BY <2>1 DEF PrintOneAS, NetsOf
  <2> QED
    BY <1>1, <2>1, <2>2 DEF SetsOut, ASOut
<1>2. CASE q.kind = "all"
  <2>1. c.out = PrintAllASes(tables, Names, show)
    BY <1>2 DEF MccdbPrinted
  <2>2. AskedOf(q, Names) = ASes
    BY <1>2 DEF AskedOf
  <2>3. EachOut(c, tables, Names)
    BY <1>2, <2>1, <2>2 DEF EachOut, PrintAllASes, NetsOf
  <2> QED
    BY <2>3 DEF SetsOut
<1>3. CASE q.kind = "country" /\ "p" \in flags
  <2>1. c.out = PrintCountryCodePrefixes(tables, Names, show, q.key)
    BY <1>3 DEF MccdbPrinted
  <2>2. CountryOut(c, tables, Names)
    BY <1>3, <2>1 DEF CountryOut, PrintCountryCodePrefixes, AggregatedNets, CountryNetsOf
  <2> QED
    BY <2>2 DEF SetsOut
<1>4. CASE q.kind = "country" /\ "p" \notin flags
  <2>1. c.out = PrintCountryCodeASes(Names, q.key)
    BY <1>4 DEF MccdbPrinted
  <2>2. NumbersOut(c, Names)
    BY <1>4, <2>1 DEF NumbersOut, PrintCountryCodeASes
  <2> QED
    BY <2>2 DEF SetsOut
<1> QED
  BY <1>1, <1>2, <1>3, <1>4

LEMMA MccdbOut ==
    ASSUME LInv, Mccdb
    PROVE  OutIs(client')
<1> DEFINE c == client'
           q == client.question
<1>1. client.phase = "hosts" /\ client.phase # "idle" /\ client.phase # "done" /\ client.tool = "mccdb"
  BY DEF Mccdb
<1>2. \E load \in DbLoads, asn \in AsnLoads : MccdbEnds(load, asn)
  BY Zenon DEF Mccdb, MccdbEnds
<1>3. PICK load \in DbLoads, asn \in AsnLoads : MccdbEnds(load, asn)
  BY <1>2
<1>4. /\ DOMAIN client = ClientFields /\ client.out = NoOutput /\ client.whole = FALSE
      /\ q \in Questions /\ db \in Databases /\ asnfile \in AsnTxts
  BY <1>1 DEF LInv, ServerInv, ClientInv, Asks
<1>5. CASE ~(load.ok /\ asn.status = "good")
  <2>1. Finish(NoOutput, IF load.ok /\ asn.status = "thrown" THEN 134 ELSE 1)
    BY <1>3, <1>5 DEF MccdbEnds
  <2>2. client'.out = NoOutput /\ client'.whole = FALSE
    BY <1>4, <2>1 DEF Finish, ClientFields
  <2> QED
    BY <2>2 DEF OutIs
<1>6. CASE load.ok /\ asn.status = "good"
  <2> DEFINE tables == load.as2ip
  <2>1. client' = [client EXCEPT !.phase = "done", !.whole = load.as2ip = db,
                       !.out = MccdbPrinted(load.as2ip, asn.names, client.question, client.flags)]
    BY <1>3, <1>6 DEF MccdbEnds
  <2>2. asn.names = Names
    BY <1>4, <1>6, AsnLoadIs
  <2>3. IsTable(tables)
    BY <1>4, LoadsAreTables
  <2>4. /\ c.tool = "mccdb" /\ c.question = q /\ c.flags = client.flags
        /\ c.out = MccdbPrinted(tables, Names, q, client.flags)
    BY <1>1, <1>4, <2>1, <2>2 DEF ClientFields
  <2>5. "whole" \in DOMAIN client
    BY <1>4 DEF ClientFields
  <2>6. c.whole = (load.as2ip = db)
    BY <2>1, <2>5
  <2>7. c.whole = TRUE => tables = db
    BY <2>6
  <2>8. ShownBy(c) = ShownByMccdb(client.flags)
    BY <2>4 DEF ShownBy, Shown
  <2>9. q.kind \in {"ipv4", "ipv6", "as", "country", "all"}
    BY <1>4 DEF Questions
  <2>10. ReadFrom(c, tables, Names)
    BY <2>3, <2>7 DEF ReadFrom
  <2> HIDE DEF tables, c, q
  <2>11. CASE q.kind = "ipv4"
    <3>1. c.out.kind = "matches" /\ q.key \in Addresses /\ Family(q) = 4 /\ 4 \in Families
      BY <1>4, <2>4, <2>11 DEF MccdbPrinted, PrintIpv4Matches, Questions, Family, Families
    <3>2. c.out.entries = MatchesOf(LoadPairs(Pairs(tables[4])), q.key, Names, Unnamed)
      BY <2>4, <2>11 DEF MccdbPrinted, PrintIpv4Matches, LoadIpv4Net2AS
    <3>3. MatchesOut(c)
      BY <2>3, <2>4, <2>7, <2>11, <3>1, <3>2, MccdbMatches DEF TakenForNone
    <3> QED
      BY <3>3 DEF OutIs, c
  <2>14. CASE q.kind = "ipv6" /\ q.key = Unspecified
    <3>1. c.out = NoOutput
      BY <2>4, <2>14 DEF MccdbPrinted, IsIpv6Address
    <3>2. TakenForNone(c.tool, c.question)
      BY <2>4, <2>14 DEF TakenForNone
    <3> QED
      BY <3>1, <3>2 DEF OutIs, c
  <2>12. CASE q.kind = "ipv6" /\ q.key # Unspecified
    <3>1. c.out.kind = "matches" /\ q.key \in Addresses /\ Family(q) = 6 /\ 6 \in Families
      BY <1>4, <2>4, <2>12 DEF MccdbPrinted, IsIpv6Address, PrintIpv6Matches, Questions, Family, Families
    <3>2. c.out.entries = MatchesOf(LoadPairs(Pairs(tables[6])), q.key, Names, Unnamed)
      BY <2>4, <2>12 DEF MccdbPrinted, IsIpv6Address, PrintIpv6Matches, LoadIpv6Net2AS
    <3>3. MatchesOut(c)
      BY <2>3, <2>4, <2>7, <2>12, <3>1, <3>2, MccdbMatches DEF TakenForNone
    <3> QED
      BY <3>3 DEF OutIs, c
  <2>13. CASE q.kind \in {"as", "country", "all"}
    <3>1. SetsOut(c, tables, Names)
      BY <1>4, <2>4, <2>8, <2>13, MccdbSets DEF q
    <3> QED
      BY <2>10, <3>1 DEF OutIs, c
  <2> QED
    BY <2>9, <2>11, <2>12, <2>13, <2>14
<1> QED
  BY <1>5, <1>6

-----------------------------------------------------------------------------
(* A client that ends without an answer prints nothing.                    *)
LEMMA NothingPrinted ==
    ASSUME LInv, client.phase # "done", DOMAIN client' = DOMAIN client,
           client'.out = client.out, client'.whole = client.whole
    PROVE  OutIs(client')
BY DEF LInv, ClientInv, OutIs

(* No step writes to the files.                                            *)
LEMMA FilesStay ==
    ASSUME [Next]_vars
    PROVE  UNCHANGED <<db, asnfile>>
<1>1. CASE UNCHANGED vars \/ InitDatabases
  BY <1>1 DEF vars, InitDatabases
<1>2. ASSUME NEW tool, NEW q, NEW hosts, NEW flags, Run(tool, q, flags, hosts)
      PROVE  UNCHANGED <<db, asnfile>>
  BY <1>2 DEF Run
<1>3. ASSUME NEW junk, SendRequest(junk) PROVE UNCHANGED <<db, asnfile>>
  BY <1>3 DEF SendRequest
<1>4. CASE GetPeer \/ HandleRequest \/ PeerFails \/ PrintResponse \/ AskDns \/ SendDnsResponse
           \/ ReceiveDnsResponse
  BY <1>4 DEF GetPeer, HandleRequest, PeerFails, PrintResponse, AskDns, SendDnsResponse, ReceiveDnsResponse
<1>5. CASE UnknownHostThrows \/ RespondBinary \/ DatagramLost \/ RecvTimeout \/ RecvResponse
           \/ NoHostAnswers \/ Exit
  BY <1>5 DEF UnknownHostThrows, RespondBinary, DatagramLost, RecvTimeout, RecvResponse, NoHostAnswers, Exit
<1>6. CASE Mccdb
  BY <1>6 DEF Mccdb
<1> QED
  BY <1>1, <1>2, <1>3, <1>4, <1>5, <1>6 DEF Next

(* Every step keeps what is printed right: it prints nothing, or what the  *)
(* lemmas above say.                                                       *)
LEMMA NextOutInv == LInv /\ OutInv /\ [Next]_vars => OutInv'
<1> SUFFICES ASSUME LInv, OutInv, [Next]_vars PROVE OutInv'
  OBVIOUS
<1>1. DOMAIN client = ClientFields
  BY DEF LInv, ClientInv
<1>2. UNCHANGED <<db, asnfile>>
  BY FilesStay
<1> SUFFICES ASSUME client'.phase = "done" PROVE OutIs(client')
  BY <1>2, SameOut DEF OutInv
<1>3. CASE client' = client
  BY <1>3 DEF OutInv
<1>4. CASE UNCHANGED vars \/ InitDatabases
  BY <1>3, <1>4 DEF vars, InitDatabases
<1>5. ASSUME NEW tool, NEW q, NEW hosts, NEW flags, Run(tool, q, flags, hosts) PROVE FALSE
  BY <1>5 DEF Run, Idle
<1>6. ASSUME Exit PROVE FALSE
  BY <1>6 DEF Exit, Idle
<1>7. ASSUME \/ HandleRequest \/ RespondBinary \/ RecvTimeout \/ AskDns \/ SendDnsResponse \/ DatagramLost
             \/ \E junk \in Junk : SendRequest(junk)
      PROVE  FALSE
  BY <1>1, <1>7 DEF HandleRequest, RespondBinary, RecvTimeout, AskDns, SendDnsResponse, SendRequest,
                    DatagramLost, ClientFields
<1>8. CASE PeerFails \/ UnknownHostThrows \/ NoHostAnswers
  <2>1. /\ client.phase # "done" /\ DOMAIN client' = DOMAIN client
        /\ client'.out = client.out /\ client'.whole = client.whole
    BY <1>1, <1>8 DEF PeerFails, UnknownHostThrows, NoHostAnswers, Finish, ClientFields, LInv, ClientInv
  <2> QED
    BY <2>1, NothingPrinted
<1>9. CASE GetPeer
  <2>1. Finish(NoOutput, 1) /\ client.phase # "done"
    BY <1>1, <1>9 DEF GetPeer, SkipHost, ClientFields
  <2>2. /\ DOMAIN client' = DOMAIN client
        /\ client'.out = client.out /\ client'.whole = client.whole
    BY <1>1, <2>1 DEF Finish, ClientFields, LInv, ClientInv
  <2> QED
    BY <2>1, <2>2, NothingPrinted
<1>10. CASE ReceiveDnsResponse /\ wire = <<>>
  <2>1. Finish(NoOutput, 1) /\ client.phase # "done"
    BY <1>10 DEF ReceiveDnsResponse
  <2>2. /\ DOMAIN client' = DOMAIN client
        /\ client'.out = client.out /\ client'.whole = client.whole
    BY <1>1, <2>1 DEF Finish, ClientFields, LInv, ClientInv
  <2> QED
    BY <2>1, <2>2, NothingPrinted
<1>11. CASE ReceiveDnsResponse /\ wire # <<>>
  BY <1>11, DnsOut
<1>12. CASE PrintResponse
  BY <1>12, PrintResponseOut
<1>13. CASE RecvResponse
  BY <1>13, RecvResponseOut
<1>14. CASE Mccdb
  BY <1>14, MccdbOut
<1> QED
  BY <1>4, <1>5, <1>6, <1>7, <1>8, <1>9, <1>10, <1>11, <1>12, <1>13, <1>14 DEF Next

(* What every client printed is what the files say.                        *)
LEMMA PrintedInvariant == Spec => []OutInv
<1>1. Init => OutInv
  BY DEF Init, Idle, OutInv
<1> QED
  BY <1>1, NextOutInv, LookupInvariant, PTL DEF Spec

(* Whatever became of the load, of the server and of the messages, no      *)
(* client prints a prefix for an address or an AS that the database does   *)
(* not have it for, and no country gets an address of another.             *)
THEOREM AnswersAreFromTheFiles == Spec => []NothingInvented
<1>1. LInv /\ OutInv => NothingInvented
  BY PrintedRight
<1> QED
  BY <1>1, LookupInvariant, PrintedInvariant, PTL

(* When both files were read completely, the clients print all that the    *)
(* database says, whichever way the question took.                         *)
THEOREM AnswersAreWhole == Spec => []AnswersAreComplete
<1>1. LInv /\ OutInv => AnswersAreComplete
  BY PrintedRight
<1> QED
  BY <1>1, LookupInvariant, PrintedInvariant, PTL
=============================================================================
