--------------------------- MODULE PrefixTrieProofs ---------------------------
(***************************************************************************)
(* Theorems about PrefixTrie: every object is a path-compressed trie that  *)
(* counts its entries, finds what a search would find and visits its       *)
(* entries in order, and is the map of OriginMap.  Aggregation and files   *)
(* come first, then the inductive invariant, the theorems that follow from *)
(* it, the loop backwards, the refinement, and the second class.           *)
(***************************************************************************)
EXTENDS Ipv6Trie, PrefixTrieLemmas

-----------------------------------------------------------------------------
(* Walks end: the entries after a node get fewer.                          *)
After(h, n) == {q \in ValueNodes(h) : Precedes(n, q)}
Rank(h) == [n \in Pointers(h) |-> IF n = Nil THEN 0 ELSE Cardinality(After(h, n)) + 1]

(* operator++ gets closer to the end.                                      *)
LEMMA RankIs ==
    ASSUME NEW t, Healthy(t)
    PROVE  /\ Rank(t.node) \in [Pointers(t.node) -> Nat]
           /\ Cardinality(ValueNodes(t.node)) + 2 \in Nat
           /\ \A n \in Pointers(t.node) : Rank(t.node)[n] < Cardinality(ValueNodes(t.node)) + 2
           /\ \A n \in DOMAIN t.node : /\ Successor(t.node, n) \in Pointers(t.node)
                                       /\ Rank(t.node)[Successor(t.node, n)] < Rank(t.node)[n]
<1> DEFINE h == t.node
           N == Cardinality(ValueNodes(h))
<1>1. IsFiniteSet(ValueNodes(h)) /\ N \in Nat
  BY HealthyFacts
<1>2. Tree(t) /\ Parents(t, FALSE)
  BY DEF Healthy
<1>3. ASSUME NEW n \in Pointers(h), n # Nil
      PROVE  IsFiniteSet(After(h, n)) /\ Cardinality(After(h, n)) \in Nat /\ Cardinality(After(h, n)) <= N
  <2>1. After(h, n) \in SUBSET ValueNodes(h)
    BY DEF After
  <2>2. IsFiniteSet(After(h, n)) /\ Cardinality(After(h, n)) <= N
    BY <1>1, <2>1, FS_Subset
  <2> QED
    BY <2>2, FS_CardinalityType
<1>4. \A n \in Pointers(h) : Rank(h)[n] = IF n = Nil THEN 0 ELSE Cardinality(After(h, n)) + 1
  BY DEF Rank
<1>5. ASSUME NEW n \in Pointers(h) PROVE Rank(h)[n] \in Nat /\ Rank(h)[n] < N + 2
  BY <1>1, <1>3, <1>4
<1>6. ASSUME NEW n \in DOMAIN h
      PROVE  Successor(h, n) \in Pointers(h) /\ Rank(h)[Successor(h, n)] < Rank(h)[n]
  <2> DEFINE s == Successor(h, n)
  <2>1. s # Nil => s \in ValueNodes(h) /\ Precedes(n, s)
    BY <1>2, SuccessorIs
  <2> HIDE DEF s
  <2>2. n \in Pointers(h) /\ n # Nil /\ n \in Prefixes
    BY <1>2, NilIsNoPrefix DEF Pointers, Tree
  <2>3. s \in Pointers(h)
    BY <2>1 DEF Pointers, ValueNodes
  <2>4. CASE s = Nil
    <3>1. Rank(h)[s] = 0 /\ Rank(h)[n] = Cardinality(After(h, n)) + 1 /\ Cardinality(After(h, n)) \in Nat
      BY <1>3, <1>4, <2>2, <2>3, <2>4
    <3> QED
      BY <2>3, <3>1 DEF s
  <2>5. CASE s # Nil
    <3>1. s \in Prefixes /\ s \in After(h, n) /\ s \notin After(h, s)
      BY <1>2, <2>1, <2>5, ValueNodeFacts, PrecedesIrreflexive DEF After
    <3>2. After(h, s) \subseteq After(h, n)
      BY <1>2, <2>1, <2>2, <2>5, <3>1, ValueNodeFacts, PrecedesTransitive DEF After
    <3>3. After(h, s) \in SUBSET After(h, n) /\ After(h, n) # After(h, s)
      BY <3>1, <3>2
    <3>4. IsFiniteSet(After(h, n))
      BY <1>3, <2>2
    <3>5. /\ Cardinality(After(h, s)) <= Cardinality(After(h, n))
          /\ Cardinality(After(h, n)) # Cardinality(After(h, s))
      BY <3>3, <3>4, FS_Subset
    <3>6. Cardinality(After(h, s)) \in Nat /\ Cardinality(After(h, n)) \in Nat
      BY <1>3, <2>2, <2>3, <2>5
    <3>7. Cardinality(After(h, s)) + 1 < Cardinality(After(h, n)) + 1
      BY <3>5, <3>6
    <3> QED
      BY <1>4, <2>2, <2>3, <2>5, <3>7 DEF s
  <2> QED
    BY <2>4, <2>5
<1>7. DOMAIN Rank(h) = Pointers(h)
  BY DEF Rank
<1>8. Rank(h) \in [Pointers(h) -> Nat]
  BY <1>5, <1>7 DEF Rank
<1>9. N + 2 \in Nat
  BY <1>1
<1> QED
  BY <1>5, <1>6, <1>8, <1>9

(* The search for the other half goes on as it does from the next entry.   *)
LEMMA SeekUnfolds ==
    ASSUME NEW t, Healthy(t), NEW other, NEW v
    PROVE  \A it \in Pointers(t.node) :
              Seek(t.node, it, other, v) =
                  IF it = Nil \/ (it # other /\ Precedes(other, it)) THEN Nil
                  ELSE IF it = other /\ t.node[it].value = v THEN it
                  ELSE Seek(t.node, Successor(t.node, it), other, v)
<1> DEFINE h == t.node
           S == Pointers(h)
           m == Rank(h)
           N == Cardinality(ValueNodes(h)) + 2
           E(f) == [n \in S |-> SeekStep(h, other, v, f, n)]
           d == CHOOSE f : f = E(f)
<1>1. m \in [S -> Nat] /\ (\A n \in S : m[n] < N) /\ N \in Nat
  BY RankIs
<1>2. ASSUME NEW n \in S, n # Nil PROVE Successor(h, n) \in S /\ m[Successor(h, n)] < m[n]
  BY <1>2, RankIs DEF Pointers
<1> HIDE DEF m, N, h
<1>4. \A f, x : Step("seek", h, other, v, f, x) = SeekStep(h, other, v, f, x)
  BY DEF Step
<1>5. Local("seek", h, other, v, S, m)
  BY <1>2, <1>4 DEF Local, SeekStep
<1>6. \E f : Follows("seek", h, other, v, S, f)
  BY <1>1, <1>5, Recursion
<1>7. \E f : f = E(f)
  BY <1>4, <1>6 DEF Follows
<1>8. d = E(d)
  BY <1>7
<1>9. \A n : Seek(h, n, other, v) = d[n]
  BY DEF Seek, SeekStep
<1>10. \A n \in S : d[n] = SeekStep(h, other, v, d, n)
  BY <1>8
<1> HIDE DEF d
<1> QED
  BY <1>9, <1>10 DEF h, SeekStep

(* The search finds the other half with the same value, or nothing.        *)
LEMMA SeekIs ==
    ASSUME NEW t, Healthy(t), NEW other, NEW v, v # NoValue, NEW it \in Pointers(t.node),
           Seek(t.node, it, other, v) # Nil
    PROVE  /\ Seek(t.node, it, other, v) = other /\ other \in ValueNodes(t.node)
           /\ t.node[other].value = v
<1> DEFINE h == t.node
           S == Pointers(h)
           seek(x) == Seek(h, x, other, v)
           T == {x \in S : seek(x) # Nil => seek(x) = other /\ other \in ValueNodes(h) /\ h[other].value = v}
           m == Rank(h)
<1>1. m \in [S -> Nat]
  BY RankIs
<1>2. ASSUME NEW x \in S, \A y \in S : m[y] < m[x] => y \in T PROVE x \in T
  <2>1. seek(x) = IF x = Nil \/ (x # other /\ Precedes(other, x)) THEN Nil
                  ELSE IF x = other /\ h[x].value = v THEN x
                  ELSE seek(Successor(h, x))
    BY SeekUnfolds
  <2>2. x # Nil => Successor(h, x) \in S /\ m[Successor(h, x)] < m[x]
    BY RankIs DEF Pointers
  <2>3. x # Nil => (Successor(h, x) \in T)
    BY <1>2, <2>2
  <2>4. x = other /\ x # Nil /\ h[x].value = v => other \in ValueNodes(h)
    BY DEF Pointers, ValueNodes, HasValue
  <2> HIDE DEF seek
  <2> QED
    BY <2>1, <2>3, <2>4
<1> HIDE DEF T, m
<1>3. S \subseteq T
  BY <1>1, <1>2, MeasureInduction
<1> QED
  BY <1>3 DEF T

(* What can be combined with an entry is the right half of the same        *)
(* prefix, with the same AS numbers.                                       *)
LEMMA CombinableIs ==
    ASSUME NEW t, Healthy(t), NEW it \in ValueNodes(t.node), FindCombinableAdjacent(t, it) # Nil
    PROVE  /\ FindCombinableAdjacent(t, it) \in ValueNodes(t.node)
           /\ FindCombinableAdjacent(t, it) # it
           /\ it # <<>> /\ it[Len(it)] # 1
           /\ FindCombinableAdjacent(t, it) = [it EXCEPT ![Len(it)] = 1]
           /\ t.node[FindCombinableAdjacent(t, it)].value = t.node[it].value
<1> DEFINE other == [it EXCEPT ![Len(it)] = 1]
           v == t.node[it].value
<1>1. it \in DOMAIN t.node /\ it \in Prefixes /\ v # NoValue
  BY ValueNodeFacts DEF Healthy, ValueNodes, HasValue
<1>2. ~(it = <<>> \/ it[Len(it)] = 1)
  BY DEF FindCombinableAdjacent
<1>3. FindCombinableAdjacent(t, it) = Seek(t.node, Successor(t.node, it), other, v)
  BY <1>2 DEF FindCombinableAdjacent
<1>4. Successor(t.node, it) \in Pointers(t.node)
  BY <1>1, RankIs
<1>5. other # it
  <2>1. it \in Seq({0, 1}) /\ Len(it) \in Nat /\ DOMAIN it = 1 .. Len(it)
    BY <1>1, PrefixIsSeq
  <2>2. Len(it) # 0
    BY <1>2, <2>1, EmptySeq
  <2>3. Len(it) \in DOMAIN it
    BY <2>1, <2>2
  <2>4. other[Len(it)] = 1
    BY <2>3
  <2> QED
    BY <1>2, <2>4
<1> HIDE DEF other, v
<1>6. /\ Seek(t.node, Successor(t.node, it), other, v) = other /\ other \in ValueNodes(t.node)
      /\ t.node[other].value = v
  BY <1>1, <1>3, <1>4, SeekIs
<1> QED
  BY <1>2, <1>3, <1>5, <1>6 DEF other, v

-----------------------------------------------------------------------------
(* Aggregate.                                                              *)

(* u comes from t and has no more entries.                                 *)
Shrinks(t, u) == Keeps(t, u) /\ u.size <= t.size

(* One operation after the other.                                          *)
LEMMA ShrinksTransitive ==
    ASSUME NEW t, NEW u, NEW w, Healthy(t), Shrinks(t, u), Shrinks(u, w) PROVE Shrinks(t, w)
<1>1. Keeps(t, w) /\ Healthy(u) /\ Healthy(w) /\ u.size <= t.size /\ w.size <= u.size
  BY KeepsTransitive DEF Shrinks, Keeps
<1>2. t.size \in Nat /\ u.size \in Nat /\ w.size \in Nat
  BY <1>1, HealthyFacts
<1> QED
  BY <1>1, <1>2 DEF Shrinks

(* The AS numbers any entry gives for an address.                          *)
OriginsOf(t, a) == UNION {t.node[p].value : p \in {q \in ValueNodes(t.node) : Contains(q, a)}}

(* u comes from t, has no more entries, and the same origins everywhere.   *)
SameOrigins(t, u) == \A a \in Addresses : OriginsOf(u, a) = OriginsOf(t, a)
Condenses(t, u) == Shrinks(t, u) /\ SameOrigins(t, u)

(* One operation after the other.                                          *)
LEMMA CondensesTransitive ==
    ASSUME NEW t, NEW u, NEW w, Healthy(t), Condenses(t, u), Condenses(u, w) PROVE Condenses(t, w)
BY ShrinksTransitive DEF Condenses, SameOrigins

(* What is left alone has the origins it had.                              *)
LEMMA CondensesItself ==
    ASSUME NEW t, Healthy(t) PROVE Condenses(t, t)
<1>1. t.size \in Nat /\ Keeps(t, t)
  BY HealthyFacts
<1>2. Shrinks(t, t)
  BY <1>1 DEF Shrinks
<1> QED
  BY <1>2 DEF Condenses, SameOrigins

(* An address is a prefix with all its bits.                               *)
LEMMA AddressIsPrefix ==
    ASSUME NEW a \in Addresses
    PROVE  a \in Prefixes /\ Len(a) = Width /\ a \in [1 .. Width -> {0, 1}]
<1>1. Width \in Nat /\ a \in [1 .. Width -> {0, 1}]
  BY TrieAssumption DEF Addresses
<1>2. Width \in 0 .. Width
  BY <1>1
<1>3. a \in Prefixes
  BY <1>1, <1>2 DEF Prefixes
<1>4. a \in Seq({0, 1}) /\ Len(a) = Width
  BY <1>1
<1> QED
  BY <1>1, <1>3, <1>4

(* An entry with a wider one that has all its ASes.                        *)
LEMMA WiderCoveringIs ==
    ASSUME NEW t, Healthy(t), NEW p \in ValueNodes(t.node), WiderCovering(t, p) # Nil
    PROVE  \E w \in ValueNodes(t.node) : /\ Contains(w, p) /\ w # p /\ w \in Prefixes
                                         /\ t.node[p].value \subseteq t.node[w].value
<1>1. Tree(t) /\ p \in Prefixes
  BY ValueNodeFacts DEF Healthy
<1> DEFINE S == Covering(t, p) \ {p}
           w == LastOrEnd(Wider(t, p))
<1>2. Rising(Wider(t, p), S) /\ S \subseteq Prefixes
  BY <1>1, MatchesFound
<1> HIDE DEF S
<1>3. IF S = {} THEN w = Nil ELSE w \in S
  BY <1>2, LastOfRising
<1>4. w # Nil /\ t.node[p].value \subseteq t.node[w].value
  BY DEF WiderCovering
<1> HIDE DEF w
<1>5. w \in S
  BY <1>3, <1>4
<1> QED
  BY <1>2, <1>4, <1>5 DEF S, Covering

(* The removal of a covered entry leaves every address its origins.        *)
LEMMA DroppedOrigins ==
    ASSUME NEW t, Healthy(t), NEW p \in ValueNodes(t.node), WiderCovering(t, p) # Nil
    PROVE  SameOrigins(t, Remove(t, p))
<1> DEFINE u == Remove(t, p)
<1>1. Tree(t) /\ p \in Prefixes
  BY ValueNodeFacts DEF Healthy
<1>2. ValueNodes(u.node) = ValueNodes(t.node) \ {p} /\ SameValues(t, u, p)
  BY <1>1, RemoveKeeps, RemoveValues
<1>3. PICK w \in ValueNodes(t.node) : /\ Contains(w, p) /\ w # p /\ w \in Prefixes
                                      /\ t.node[p].value \subseteq t.node[w].value
  BY WiderCoveringIs
<1> HIDE DEF u
<1>4. \A q \in ValueNodes(u.node) : u.node[q].value = t.node[q].value
  BY <1>2 DEF SameValues
<1>5. ASSUME NEW a \in Addresses PROVE OriginsOf(u, a) = OriginsOf(t, a)
  <2>1. a \in Prefixes
    BY AddressIsPrefix
  <2>2. Contains(p, a) => Contains(w, a)
    BY <1>1, <1>3, <2>1, ContainsTransitive
  <2>3. ASSUME NEW x \in OriginsOf(t, a) PROVE x \in OriginsOf(u, a)
    <3>1. PICK q \in ValueNodes(t.node) : Contains(q, a) /\ x \in t.node[q].value
      BY DEF OriginsOf
    <3>2. CASE q = p
      <4>1. w \in ValueNodes(u.node) /\ Contains(w, a) /\ x \in u.node[w].value
        BY <1>2, <1>3, <1>4, <2>2, <3>1, <3>2
      <4> QED
        BY <4>1 DEF OriginsOf
    <3>3. CASE q # p
      <4>1. q \in ValueNodes(u.node) /\ x \in u.node[q].value
        BY <1>2, <1>4, <3>1, <3>3
      <4> QED
        BY <3>1, <4>1 DEF OriginsOf
    <3> QED
      BY <3>2, <3>3
  <2>4. ASSUME NEW x \in OriginsOf(u, a) PROVE x \in OriginsOf(t, a)
    BY <1>2, <1>4 DEF OriginsOf
  <2> QED
    BY <2>3, <2>4
<1> QED
  BY <1>5 DEF SameOrigins, u

(* The two halves of a prefix.                                             *)
LEMMA Halves ==
    ASSUME NEW it \in Prefixes, it # <<>>, it[Len(it)] # 1
    PROVE  LET wide  == SubSeq(it, 1, Len(it) - 1)
               other == [it EXCEPT ![Len(it)] = 1]
           IN  /\ wide \in Prefixes /\ Len(wide) < Len(it)
               /\ other \in Prefixes /\ Len(other) = Len(it)
               /\ \A a \in Addresses : Contains(wide, a) <=> Contains(it, a) \/ Contains(other, a)
<1> DEFINE n == Len(it)
           wide  == SubSeq(it, 1, n - 1)
           other == [it EXCEPT ![n] = 1]
<1>1. /\ it \in Seq({0, 1}) /\ n \in Nat /\ n <= Width /\ it \in [1 .. n -> {0, 1}]
      /\ Width \in Nat /\ DOMAIN it = 1 .. n
  BY PrefixIsSeq, TrieAssumption
<1>2. n # 0
  BY <1>1, EmptySeq
<1> HIDE DEF n
<1>3. n \in 1 .. n /\ it[n] = 0 /\ n - 1 \in Nat /\ n - 1 < n
  BY <1>1, <1>2 DEF n
<1>4. wide \in Seq({0, 1}) /\ Len(wide) = n - 1 /\ \A i \in 1 .. n - 1 : wide[i] = it[i]
  <2>1. 1 \in 1 .. n + 1 /\ n - 1 \in 1 - 1 .. n
    BY <1>1, <1>3
  <2>2. /\ wide \in Seq({0, 1}) /\ Len(wide) = (n - 1 - 1) + 1
        /\ \A i \in 1 .. (n - 1 - 1) + 1 : wide[i] = it[(1 + i) - 1]
    BY <1>1, <2>1, SubSeqProperties DEF n
  <2> HIDE DEF wide
  <2>3. (n - 1 - 1) + 1 = n - 1 /\ \A i \in 1 .. n - 1 : (1 + i) - 1 = i
    BY <1>1
  <2> QED
    BY <2>2, <2>3
<1>5. other \in [1 .. n -> {0, 1}] /\ other[n] = 1 /\ \A i \in 1 .. n - 1 : other[i] = it[i]
  BY <1>1, <1>3
<1> HIDE DEF wide, other
<1>6. wide \in Prefixes /\ Len(wide) < n
  <2>1. Len(wide) <= Width /\ Len(wide) < n
    BY <1>1, <1>3, <1>4
  <2> QED
    BY <1>4, <2>1, SeqIsPrefix
<1>7. other \in Prefixes /\ Len(other) = n
  <2>1. other \in Seq({0, 1}) /\ Len(other) = n
    BY <1>1, <1>5
  <2> QED
    BY <1>1, <2>1, SeqIsPrefix
<1>8. ASSUME NEW a \in Addresses PROVE Contains(wide, a) <=> Contains(it, a) \/ Contains(other, a)
  <2>1. a \in Prefixes /\ Len(a) = Width /\ a \in [1 .. Width -> {0, 1}]
    BY AddressIsPrefix
  <2>2. Contains(wide, a) <=> \A i \in 1 .. n - 1 : it[i] = a[i]
    <3>1. Contains(wide, a) <=> Len(wide) <= Len(a) /\ \A i \in 1 .. Len(wide) : wide[i] = a[i]
      BY <1>6, <2>1, ContainsBits
    <3>2. n - 1 <= Len(a)
      BY <1>1, <2>1
    <3> QED
      BY <1>4, <3>1, <3>2
  <2>3. Contains(it, a) <=> \A i \in 1 .. n : it[i] = a[i]
    BY <1>1, <2>1, ContainsBits DEF n
  <2>4. Contains(other, a) <=> \A i \in 1 .. n : other[i] = a[i]
    BY <1>1, <1>7, <2>1, ContainsBits
  <2>5. \A i \in 1 .. n : i \in 1 .. n - 1 \/ i = n
    BY <1>1
  <2>6. \A i \in 1 .. n - 1 : i \in 1 .. n
    BY <1>1
  <2>7. a[n] = 0 \/ a[n] = 1
    <3>1. n \in 1 .. Width
      BY <1>1, <1>3
    <3> QED
      BY <2>1, <3>1
  <2>8. ASSUME Contains(wide, a) PROVE Contains(it, a) \/ Contains(other, a)
    BY <1>3, <1>5, <2>2, <2>3, <2>4, <2>5, <2>7, <2>8
  <2>9. ASSUME Contains(it, a) \/ Contains(other, a) PROVE Contains(wide, a)
    BY <1>5, <2>2, <2>3, <2>4, <2>6, <2>9
  <2> QED
    BY <2>8, <2>9
<1> QED
  BY <1>6, <1>7, <1>8 DEF wide, other, n

(* Two entries of the halves, with the same ASes, or one of the whole.      *)
Combined(t, u, it, nxt, wide, v) ==
    /\ it \in ValueNodes(t.node) /\ nxt \in ValueNodes(t.node) /\ wide # it /\ wide # nxt
    /\ ValueIs(t.node, it, v) /\ ValueIs(t.node, nxt, v)
    /\ \A a \in Addresses : Contains(wide, a) <=> Contains(it, a) \/ Contains(nxt, a)
    /\ ValueNodes(u.node) = (ValueNodes(t.node) \ {it, nxt}) \cup {wide}
    /\ \A q \in ValueNodes(t.node) \ {it, nxt, wide} : u.node[q].value = t.node[q].value
    /\ ValueIs(u.node, wide, Joined(t, wide, v))

(* Two halves with the same AS numbers, replaced by the whole, leave every *)
(* address its origins.                                                    *)
LEMMA CombinedOrigins ==
    ASSUME NEW t, NEW u, NEW it, NEW nxt, NEW wide, NEW v, Combined(t, u, it, nxt, wide, v)
    PROVE  SameOrigins(t, u)
<1>1. ASSUME NEW a \in Addresses, NEW x \in OriginsOf(t, a) PROVE x \in OriginsOf(u, a)
  <2>1. PICK q \in ValueNodes(t.node) : Contains(q, a) /\ x \in t.node[q].value
    BY <1>1 DEF OriginsOf
  <2>2. CASE q \in {it, nxt}
    <3>1. wide \in ValueNodes(u.node) /\ Contains(wide, a) /\ x \in u.node[wide].value
      BY <2>1, <2>2 DEF Combined, ValueIs, Joined
    <3> QED
      BY <3>1 DEF OriginsOf
  <2>3. CASE q = wide
    <3>1. wide \in ValueNodes(u.node) /\ x \in u.node[wide].value
      BY <2>1, <2>3 DEF Combined, ValueIs, Joined
    <3> QED
      BY <2>1, <2>3, <3>1 DEF OriginsOf
  <2>4. CASE q \notin {it, nxt, wide}
    <3>1. q \in ValueNodes(u.node) /\ x \in u.node[q].value
      BY <2>1, <2>4 DEF Combined
    <3> QED
      BY <2>1, <3>1 DEF OriginsOf
  <2> QED
    BY <2>2, <2>3, <2>4
<1>2. ASSUME NEW a \in Addresses, NEW x \in OriginsOf(u, a) PROVE x \in OriginsOf(t, a)
  <2>1. PICK q \in ValueNodes(u.node) : Contains(q, a) /\ x \in u.node[q].value
    BY <1>2 DEF OriginsOf
  <2>2. CASE q # wide
    <3>1. q \in ValueNodes(t.node) /\ x \in t.node[q].value
      BY <2>1, <2>2 DEF Combined
    <3> QED
      BY <2>1, <3>1 DEF OriginsOf
  <2>3. CASE q = wide /\ x \in v
    <3>1. PICK half \in {it, nxt} : Contains(half, a)
      BY <2>1, <2>3 DEF Combined
    <3>2. half \in ValueNodes(t.node) /\ x \in t.node[half].value
      BY <2>3, <3>1 DEF Combined, ValueIs
    <3> QED
      BY <3>1, <3>2 DEF OriginsOf
  <2>4. CASE q = wide /\ x \notin v
    <3>1. wide \in ValueNodes(t.node) /\ x \in t.node[wide].value
      BY <2>1, <2>4 DEF Combined, ValueIs, Joined
    <3> QED
      BY <2>1, <2>4, <3>1 DEF OriginsOf
  <2> QED
    BY <2>2, <2>3, <2>4
<1> QED
  BY <1>1, <1>2 DEF SameOrigins

(* The iterator is on an entry, or at the end.                             *)
OnEntry(s) == s.it # Nil => s.it \in ValueNodes(s.trie.node)

(* begin() is on an entry.                                                 *)
LEMMA FirstOnEntry ==
    ASSUME NEW t, Healthy(t), FirstValueNode(t.node, t.root) # Nil
    PROVE  FirstValueNode(t.node, t.root) \in ValueNodes(t.node)
<1>1. Tree(t) /\ t.root \in Pointers(t.node)
  BY DEF Healthy, Tree
<1> QED
  BY <1>1, FirstIs DEF IsFirstBelow

(* Removal adds no entry.                                                  *)
LEMMA RemoveShrinks ==
    ASSUME NEW t, Healthy(t), NEW p \in Prefixes PROVE Shrinks(t, Remove(t, p))
<1> DEFINE u == Remove(t, p)
<1>1. Keeps(t, u) /\ u.size = IF p \in ValueNodes(t.node) THEN t.size - 1 ELSE t.size
  BY RemoveKeeps
<1> HIDE DEF u
<1>2. t.size \in Nat
  BY HealthyFacts
<1>3. u.size <= t.size
  BY <1>1, <1>2
<1> QED
  BY <1>1, <1>3 DEF Shrinks, u

(* One round of the first loop of Aggregate.                               *)
LEMMA DropCoveredRoundIs ==
    ASSUME NEW s, Healthy(s.trie), OnEntry(s)
    PROVE  Condenses(s.trie, DropCoveredRound(s).trie) /\ OnEntry(DropCoveredRound(s))
<1> DEFINE t == s.trie  it == s.it
<1>0. Condenses(t, t)
  BY CondensesItself
<1>1. CASE it = Nil
  <2>1. DropCoveredRound(s) = s
    BY <1>1 DEF DropCoveredRound
  <2> QED
    BY <1>0, <2>1
<1>2. CASE it # Nil
  <2> DEFINE u == IF WiderCovering(t, it) # Nil THEN Remove(t, it) ELSE t
             next == Successor(t.node, it)
             after == DropCoveredRound(s)
  <2>1. after = [trie |-> u, it |-> next]
    BY <1>2 DEF DropCoveredRound
  <2>2. Tree(t) /\ Parents(t, FALSE) /\ it \in ValueNodes(t.node) /\ it \in DOMAIN t.node /\ it \in Prefixes
    BY <1>2, ValueNodeFacts DEF Healthy, OnEntry
  <2>3. Condenses(t, u) /\ ValueNodes(t.node) \ {it} \subseteq ValueNodes(u.node)
    <3>1. CASE WiderCovering(t, it) # Nil
      <4>1. Shrinks(t, Remove(t, it)) /\ ValueNodes(Remove(t, it).node) = ValueNodes(t.node) \ {it}
        BY <2>2, RemoveShrinks, RemoveKeeps
      <4>2. SameOrigins(t, Remove(t, it))
        BY <2>2, <3>1, DroppedOrigins
      <4> QED
        BY <3>1, <4>1, <4>2 DEF Condenses
    <3>2. CASE WiderCovering(t, it) = Nil
      BY <1>0, <3>2
    <3> QED
      BY <3>1, <3>2
  <2>4. next # Nil => next \in ValueNodes(t.node) /\ Precedes(it, next)
    BY <2>2, SuccessorIs
  <2>5. next # Nil => next # it
    BY <2>2, <2>4, PrecedesIrreflexive
  <2> HIDE DEF u, next, after
  <2>6. after.trie = u /\ after.it = next
    BY <2>1
  <2>7. OnEntry(after)
    BY <2>3, <2>4, <2>5, <2>6 DEF OnEntry
  <2> QED
    BY <2>3, <2>6, <2>7 DEF after
<1> QED
  BY <1>1, <1>2

(* The state of the loop of CombineAdjacents, and whether it is to go      *)
(* over the entries once more.                                             *)
IsRound(s) == s = [trie |-> s.trie, it |-> s.it, combining |-> s.combining]
Combines(s) == s.combining

(* A round goes on to the next entry, or there is an entry less.           *)
RoundOf(s, r) ==
    /\ IsRound(r)
    /\ \/ s.it = Nil /\ r = s
       \/ /\ s.it # Nil /\ FindCombinableAdjacent(s.trie, s.it) = Nil
          /\ r.trie = s.trie /\ r.it = Successor(s.trie.node, s.it) /\ (Combines(r) <=> Combines(s))
       \/ Combines(r) /\ 0 < r.trie.size /\ r.trie.size < s.trie.size

(* The round that finds nothing to combine.                                *)
LEMMA NextRound ==
    ASSUME NEW s, IsRound(s), NEW n, NEW r, r = [s EXCEPT !.it = n]
    PROVE  IsRound(r) /\ r.trie = s.trie /\ r.it = n /\ (Combines(r) <=> Combines(s))
<1> DEFINE t == s.trie  c == s.combining
<1>1. s = [trie |-> t, it |-> s.it, combining |-> c]
  BY DEF IsRound
<1>2. r = [trie |-> t, it |-> n, combining |-> c]
  BY <1>1
<1>3. r.trie = t /\ r.it = n /\ r.combining = c
  BY <1>2
<1> QED
  BY <1>2, <1>3 DEF IsRound, Combines

(* The round that combines.                                                *)
LEMMA CombinedRound ==
    ASSUME NEW t, NEW n, NEW r, r = [trie |-> t, it |-> n, combining |-> TRUE]
    PROVE  IsRound(r) /\ r.trie = t /\ r.it = n /\ Combines(r)
BY DEF IsRound, Combines

(* One round of the loop of CombineAdjacents.                              *)
LEMMA CombineRoundIs ==
    ASSUME NEW s, Healthy(s.trie), OnEntry(s), IsRound(s)
    PROVE  Condenses(s.trie, CombineRound(s).trie) /\ OnEntry(CombineRound(s)) /\ RoundOf(s, CombineRound(s))
<1> DEFINE t == s.trie  it == s.it
           nxt == FindCombinableAdjacent(t, it)
           wide == SubSeq(it, 1, Len(it) - 1)
           v == t.node[it].value
           after == CombineRound(s)
<1>0. Condenses(t, t)
  BY CondensesItself
<1>1. CASE it = Nil
  <2>1. after = s
    BY <1>1 DEF CombineRound
  <2> QED
    BY <1>0, <1>1, <2>1 DEF RoundOf
<1>2. CASE it # Nil /\ nxt = Nil
  <2> DEFINE next == Successor(t.node, it)
  <2>1. after = [s EXCEPT !.it = next]
    BY <1>2 DEF CombineRound
  <2>2. Tree(t) /\ Parents(t, FALSE) /\ it \in DOMAIN t.node
    BY <1>2, ValueNodeFacts DEF Healthy, OnEntry
  <2>3. next # Nil => next \in ValueNodes(t.node)
    BY <2>2, SuccessorIs
  <2> HIDE DEF next, after
  <2>4. IsRound(after) /\ after.trie = s.trie /\ after.it = next /\ (Combines(after) <=> Combines(s))
    BY <2>1, NextRound
  <2>5. OnEntry(after)
    BY <2>3, <2>4 DEF OnEntry
  <2>6. RoundOf(s, after)
    BY <1>2, <2>4 DEF RoundOf, next
  <2> QED
    BY <1>0, <2>4, <2>5, <2>6 DEF after
<1>3. CASE it # Nil /\ nxt # Nil
  <2> DEFINE t1 == Remove(t, nxt)
             t2 == Remove(t1, it)
             t3 == AddOrigins(t2, wide, v)
  <2>1. after = [trie |-> t3, it |-> wide, combining |-> TRUE]
    BY <1>3 DEF CombineRound
  <2>2. Tree(t) /\ it \in ValueNodes(t.node) /\ it \in DOMAIN t.node /\ it \in Prefixes
    BY <1>3, ValueNodeFacts DEF Healthy, OnEntry
  <2>3. nxt \in ValueNodes(t.node) /\ nxt # it /\ it # <<>> /\ it[Len(it)] # 1
    BY <1>3, <2>2, CombinableIs
  <2>3a. ValueIs(t.node, nxt, v) /\ nxt = [it EXCEPT ![Len(it)] = 1]
    BY <1>3, <2>2, CombinableIs DEF ValueIs
  <2>4. nxt \in Prefixes
    BY <2>2, <2>3, ValueNodeFacts
  <2>5. /\ wide \in Prefixes /\ wide # it /\ wide # nxt
        /\ \A a \in Addresses : Contains(wide, a) <=> Contains(it, a) \/ Contains(nxt, a)
    <3>1. /\ wide \in Prefixes /\ Len(wide) < Len(it) /\ Len(nxt) = Len(it)
          /\ \A a \in Addresses : Contains(wide, a) <=> Contains(it, a) \/ Contains(nxt, a)
      BY <2>2, <2>3, <2>3a, Halves
    <3>2. Len(it) \in Nat
      BY <2>2, PrefixIsSeq
    <3> HIDE DEF wide, nxt
    <3> QED
      BY <3>1, <3>2
  <2>6. v \in SUBSET ASes
    <3>1. t.node[it] \in Node /\ t.node[it].value # NoValue
      BY <2>2 DEF Tree, ValueNodes, HasValue
    <3> QED
      BY <3>1 DEF Node
  <2>7. /\ Keeps(t, t1) /\ ValueNodes(t1.node) = ValueNodes(t.node) \ {nxt} /\ t1.size = t.size - 1
        /\ SameValues(t, t1, nxt)
    BY <2>3, <2>4, RemoveKeeps, RemoveValues
  <2> HIDE DEF t1
  <2>8. Healthy(t1) /\ it \in ValueNodes(t1.node)
    BY <2>2, <2>3, <2>7 DEF Keeps
  <2>9. /\ Keeps(t1, t2) /\ ValueNodes(t2.node) = ValueNodes(t1.node) \ {it} /\ t2.size = t1.size - 1
        /\ SameValues(t1, t2, it)
    BY <2>2, <2>8, RemoveKeeps, RemoveValues
  <2> HIDE DEF t2, wide
  <2>10. Healthy(t2)
    BY <2>9 DEF Keeps
  <2>16. ValueIs(t.node, it, v)
    BY DEF ValueIs
  <2> HIDE DEF v
  <2>11. /\ Keeps(t2, t3) /\ ValueNodes(t3.node) = ValueNodes(t2.node) \cup {wide}
         /\ t3.size = IF wide \in ValueNodes(t2.node) THEN t2.size ELSE t2.size + 1
         /\ SameValues(t2, t3, wide) /\ ValueIs(t3.node, wide, Joined(t2, wide, v))
    BY <2>5, <2>6, <2>10, AddOriginsKeeps, AddOriginsValues
  <2> HIDE DEF t3, after, nxt
  <2>17. SameOrigins(t, t3)
    <3>1. ValueNodes(t3.node) = (ValueNodes(t.node) \ {it, nxt}) \cup {wide}
      BY <2>7, <2>9, <2>11
    <3>2. \A q \in ValueNodes(t.node) \ {it, nxt} : q \in ValueNodes(t2.node) /\ t2.node[q].value = t.node[q].value
      BY <2>7, <2>9 DEF SameValues
    <3>3. \A q \in ValueNodes(t.node) \ {it, nxt, wide} : t3.node[q].value = t.node[q].value
      BY <2>11, <3>2 DEF SameValues
    <3>4. Joined(t2, wide, v) = Joined(t, wide, v)
      BY <2>5, <2>7, <2>9, <3>2 DEF Joined
    <3>5. Combined(t, t3, it, nxt, wide, v)
      BY <2>2, <2>3, <2>3a, <2>5, <2>11, <2>16, <3>1, <3>3, <3>4 DEF Combined
    <3> QED
      BY <3>5, CombinedOrigins
  <2>12. Keeps(t, t3)
    BY <2>7, <2>9, <2>11, KeepsTransitive
  <2>13. t3.size <= t.size
    <3>1. t.size \in Nat
      BY HealthyFacts
    <3> QED
      BY <3>1, <2>7, <2>9, <2>11
  <2>14. after.trie = t3 /\ after.it = wide /\ IsRound(after) /\ Combines(after)
    BY <2>1, CombinedRound
  <2>15. OnEntry(after)
    BY <2>11, <2>14 DEF OnEntry
  <2>18. 0 < t3.size /\ t3.size < t.size
    <3>1. t.size \in Nat /\ t3.size \in Nat
      BY <2>12, HealthyFacts DEF Keeps
    <3>2. t3.size # 0
      <4>1. wide \in ValueNodes(t3.node) /\ IsFiniteSet(ValueNodes(t3.node))
        BY <2>11, <2>12, HealthyFacts DEF Keeps
      <4>2. Cardinality(ValueNodes(t3.node)) # 0
        BY <4>1, FS_EmptySet
      <4> QED
        BY <2>12, <4>2 DEF Keeps, Healthy
    <3> QED
      BY <3>1, <3>2, <2>7, <2>8, <2>9, <2>11, <2>2, <2>3
  <2>19. RoundOf(s, after)
    BY <2>14, <2>18 DEF RoundOf
  <2> QED
    BY <2>12, <2>13, <2>14, <2>15, <2>17, <2>19 DEF Shrinks, Condenses, after
<1> QED
  BY <1>1, <1>2, <1>3

(* A loop of so many rounds has a value for each.                          *)
LEMMA Rounds ==
    ASSUME NEW name, NEW first, NEW b, NEW N \in Nat,
           \A f, g : \A k \in 0 .. N :
               (k > 0 => f[k - 1] = g[k - 1]) => Step(name, first, b, b, f, k) = Step(name, first, b, b, g, k)
    PROVE  \E f : Follows(name, first, b, b, 0 .. N, f)
<1> DEFINE S == 0 .. N
           m == [k \in S |-> k]
<1>1. m \in [S -> Nat] /\ (\A k \in S : m[k] < N + 1) /\ N + 1 \in Nat
  OBVIOUS
<1>2. Local(name, first, b, b, S, m)
  <2> SUFFICES ASSUME NEW f, NEW g, NEW k \in S, \A y \in S : m[y] < m[k] => f[y] = g[y]
               PROVE  Step(name, first, b, b, f, k) = Step(name, first, b, b, g, k)
    BY DEF Local
  <2>1. k > 0 => k - 1 \in S /\ m[k - 1] < m[k]
    OBVIOUS
  <2>2. k > 0 => f[k - 1] = g[k - 1]
    BY <2>1
  <2> QED
    BY <2>2
<1> HIDE DEF S, m
<1> DEFINE M == N + 1
<1>3. M \in Nat /\ \A k \in S : m[k] < M
  BY <1>1
<1> HIDE DEF M
<1>4. \E f : Follows(name, first, b, b, S, f)
  BY <1>1, <1>2, <1>3, Recursion
<1> QED
  BY <1>4 DEF S

(* The first loop of Aggregate condenses.                                  *)
LEMMA DropCoveredIs ==
    ASSUME NEW t, Healthy(t)
    PROVE  Condenses(t, DropCovered(t))
<1> DEFINE N == Cardinality(ValueNodes(t.node))
           S == 0 .. N
           first == [trie |-> t, it |-> FirstValueNode(t.node, t.root)]
           E(f) == [k \in S |-> DropStep(first, f, k)]
           d == CHOOSE f : f = E(f)
           Good(s) == Condenses(t, s.trie) /\ OnEntry(s)
           T == {k \in Nat : k <= N => Good(d[k])}
<1>1. Cardinality(ValueNodes(t.node)) \in Nat /\ N \in Nat
  BY HealthyFacts
<1>2. DropCovered(t) = d[N].trie
  BY DEF DropCovered, DropStep
<1> HIDE DEF N
<1>3. Good(first)
  BY FirstOnEntry, CondensesItself DEF OnEntry
<1> HIDE DEF first
<1>4. \A f, k : Step("drop", first, t, t, f, k) = DropStep(first, f, k)
  BY DEF Step
<1>5. \A f, g : \A k \in S :
          (k > 0 => f[k - 1] = g[k - 1]) => Step("drop", first, t, t, f, k) = Step("drop", first, t, t, g, k)
  BY <1>1, <1>4 DEF DropStep
<1>6. \E f : Follows("drop", first, t, t, S, f)
  BY <1>1, <1>5, Rounds
<1>7. \E f : f = E(f)
  BY <1>4, <1>6 DEF Follows
<1>8. d = E(d)
  BY <1>7
<1>9. \A k \in S : d[k] = DropStep(first, d, k)
  BY <1>8
<1> HIDE DEF d
<1>10. d[0] = first /\ \A k \in Nat : k + 1 <= N => d[k + 1] = DropCoveredRound(d[k])
  BY <1>1, <1>9 DEF DropStep
<1>11. 0 \in T
  BY <1>3, <1>10
<1>12. ASSUME NEW k \in Nat, k \in T PROVE k + 1 \in T
  <2> SUFFICES ASSUME k + 1 <= N PROVE Good(d[k + 1])
    OBVIOUS
  <2>1. Good(d[k])
    BY <1>1, <1>12
  <2> DEFINE s == d[k]
             r == DropCoveredRound(s)
  <2>2. Healthy(s.trie)
    BY <2>1 DEF Condenses, Shrinks, Keeps
  <2>3. Condenses(s.trie, r.trie) /\ OnEntry(r)
    BY <2>1, <2>2, DropCoveredRoundIs
  <2>4. Condenses(t, r.trie)
    BY <2>1, <2>3, CondensesTransitive
  <2>5. d[k + 1] = r
    BY <1>10
  <2> QED
    BY <2>3, <2>4, <2>5
<1> HIDE DEF T
<1>13. N \in T
  BY <1>1, <1>11, <1>12, SetInduction
<1> QED
  BY <1>1, <1>2, <1>13 DEF T

(* The rounds of one pass.                                                 *)
PassStart(t) == [trie |-> t, it |-> FirstValueNode(t.node, t.root), combining |-> FALSE]
PassRounds(t) == Cardinality(ValueNodes(t.node)) * (Cardinality(ValueNodes(t.node)) + 1)
PassOf(t, d) ==
    /\ d[0] = PassStart(t) /\ CombinePass(t) = d[PassRounds(t)]
    /\ \A k \in Nat : k + 1 <= PassRounds(t) => d[k + 1] = CombineRound(d[k])

(* The recursive function of CombinePass has a value.                      *)
LEMMA PassHasRounds ==
    ASSUME NEW t, Healthy(t)
    PROVE  PassRounds(t) \in Nat /\ \E d : PassOf(t, d)
<1> DEFINE N == PassRounds(t)
           S == 0 .. N
           first == PassStart(t)
           E(f) == [k \in S |-> CombineStep(first, f, k)]
           d == CHOOSE f : f = E(f)
<1>1. N \in Nat
  BY HealthyFacts DEF PassRounds
<1>2. CombinePass(t) = d[N]
  BY DEF CombinePass, CombineStep, PassRounds, PassStart
<1> HIDE DEF N, first
<1>4. \A f, k : Step("combine", first, t, t, f, k) = CombineStep(first, f, k)
  BY DEF Step
<1>5. \A f, g : \A k \in S :
          (k > 0 => f[k - 1] = g[k - 1]) => Step("combine", first, t, t, f, k) = Step("combine", first, t, t, g, k)
  BY <1>1, <1>4 DEF CombineStep
<1>6. \E f : Follows("combine", first, t, t, S, f)
  BY <1>1, <1>5, Rounds
<1>7. \E f : f = E(f)
  BY <1>4, <1>6 DEF Follows
<1>8. d = E(d)
  BY <1>7
<1>9. \A k \in S : d[k] = CombineStep(first, d, k)
  BY <1>8
<1> HIDE DEF d
<1>10. d[0] = first /\ \A k \in Nat : k + 1 <= N => d[k + 1] = CombineRound(d[k])
  BY <1>1, <1>9 DEF CombineStep
<1>11. PassOf(t, d)
  BY <1>2, <1>10 DEF PassOf, N, first
<1> QED
  BY <1>1, <1>11 DEF N

(* Every round condenses.                                                  *)
LEMMA PassCondenses ==
    ASSUME NEW t, Healthy(t), NEW d, PassOf(t, d)
    PROVE  \A k \in 0 .. PassRounds(t) :
               Condenses(t, d[k].trie) /\ Healthy(d[k].trie) /\ OnEntry(d[k]) /\ IsRound(d[k])
<1> DEFINE N == PassRounds(t)
           first == PassStart(t)
           Good(s) == Condenses(t, s.trie) /\ Healthy(s.trie) /\ OnEntry(s) /\ IsRound(s)
           T == {k \in Nat : k <= N => Good(d[k])}
<1>1. N \in Nat
  BY PassHasRounds
<1>2. Good(first)
  BY FirstOnEntry, CondensesItself DEF OnEntry, PassStart, IsRound
<1>3. d[0] = first /\ \A k \in Nat : k + 1 <= N => d[k + 1] = CombineRound(d[k])
  BY DEF PassOf
<1> HIDE DEF N, first
<1>4. 0 \in T
  BY <1>2, <1>3
<1>5. ASSUME NEW k \in Nat, k \in T PROVE k + 1 \in T
  <2> SUFFICES ASSUME k + 1 <= N PROVE Good(d[k + 1])
    OBVIOUS
  <2>1. Good(d[k])
    BY <1>1, <1>5
  <2> DEFINE s == d[k]
             r == CombineRound(s)
  <2>2. Healthy(s.trie)
    BY <2>1
  <2>3. Condenses(s.trie, r.trie) /\ OnEntry(r) /\ IsRound(r)
    BY <2>1, <2>2, CombineRoundIs DEF RoundOf
  <2>4. Condenses(t, r.trie) /\ Healthy(r.trie)
    BY <2>1, <2>3, CondensesTransitive DEF Condenses, Shrinks, Keeps
  <2>5. d[k + 1] = r
    BY <1>3
  <2> QED
    BY <2>3, <2>4, <2>5
<1> HIDE DEF T
<1>6. \A k \in Nat : k \in T
  BY <1>4, <1>5, SetInduction
<1>7. \A k \in 0 .. N : k \in Nat /\ k <= N
  BY <1>1
<1> QED
  BY <1>6, <1>7 DEF T, N

(* One pass of CombineAdjacents condenses.                                 *)
LEMMA CombinePassIs ==
    ASSUME NEW t, Healthy(t)
    PROVE  Condenses(t, CombinePass(t).trie)
<1>1. PassRounds(t) \in Nat /\ \E d : PassOf(t, d)
  BY PassHasRounds
<1>2. PICK d : PassOf(t, d)
  BY <1>1
<1>3. PassRounds(t) \in 0 .. PassRounds(t)
  BY <1>1
<1> QED
  BY <1>2, <1>3, PassCondenses DEF PassOf

(* The passes.                                                             *)
LoopStart(t) == [trie |-> t, combining |-> TRUE]
LoopOf(t, d) ==
    /\ d[0] = LoopStart(t) /\ CombineLoop(t) = d[Cardinality(ValueNodes(t.node))].trie
    /\ \A k \in Nat : k + 1 <= Cardinality(ValueNodes(t.node)) => d[k + 1] = CombinePassAgain(d[k])

(* The recursive function of CombineLoop has a value.                      *)
LEMMA LoopHasPasses ==
    ASSUME NEW t, Healthy(t)
    PROVE  \E d : LoopOf(t, d)
<1> DEFINE N == Cardinality(ValueNodes(t.node))
           S == 0 .. N
           first == LoopStart(t)
           E(f) == [k \in S |-> PassStep(first, f, k)]
           d == CHOOSE f : f = E(f)
<1>1. N \in Nat
  BY HealthyFacts
<1>2. CombineLoop(t) = d[N].trie
  BY DEF CombineLoop, PassStep, LoopStart
<1> HIDE DEF N, first
<1>4. \A f, k : Step("pass", first, t, t, f, k) = PassStep(first, f, k)
  BY DEF Step
<1>5. \A f, g : \A k \in S :
          (k > 0 => f[k - 1] = g[k - 1]) => Step("pass", first, t, t, f, k) = Step("pass", first, t, t, g, k)
  BY <1>1, <1>4 DEF PassStep
<1>6. \E f : Follows("pass", first, t, t, S, f)
  BY <1>1, <1>5, Rounds
<1>7. \E f : f = E(f)
  BY <1>4, <1>6 DEF Follows
<1>8. d = E(d)
  BY <1>7
<1>9. \A k \in S : d[k] = PassStep(first, d, k)
  BY <1>8
<1> HIDE DEF d
<1>10. d[0] = first /\ \A k \in Nat : k + 1 <= N => d[k + 1] = CombinePassAgain(d[k])
  BY <1>1, <1>9 DEF PassStep
<1>11. LoopOf(t, d)
  BY <1>2, <1>10 DEF LoopOf, N, first
<1> QED
  BY <1>11

(* All the passes condense.                                                *)
LEMMA LoopCondenses ==
    ASSUME NEW t, Healthy(t), NEW d, LoopOf(t, d)
    PROVE  \A k \in 0 .. Cardinality(ValueNodes(t.node)) : Condenses(t, d[k].trie) /\ Healthy(d[k].trie)
<1> DEFINE N == Cardinality(ValueNodes(t.node))
           Good(s) == Condenses(t, s.trie) /\ Healthy(s.trie)
           T == {k \in Nat : k <= N => Good(d[k])}
<1>1. N \in Nat
  BY HealthyFacts
<1>2. Good(LoopStart(t))
  BY CondensesItself DEF LoopStart
<1>3. d[0] = LoopStart(t) /\ \A k \in Nat : k + 1 <= N => d[k + 1] = CombinePassAgain(d[k])
  BY DEF LoopOf
<1> HIDE DEF N
<1>4. 0 \in T
  BY <1>2, <1>3
<1>5. ASSUME NEW k \in Nat, k \in T PROVE k + 1 \in T
  <2> SUFFICES ASSUME k + 1 <= N PROVE Good(d[k + 1])
    OBVIOUS
  <2>1. Good(d[k])
    BY <1>1, <1>5
  <2> DEFINE s == d[k]
             r == CombinePassAgain(s)
  <2>2. Condenses(s.trie, r.trie)
    BY <2>1, CombinePassIs, CondensesItself DEF CombinePassAgain
  <2>3. Condenses(t, r.trie) /\ Healthy(r.trie)
    BY <2>1, <2>2, CondensesTransitive DEF Condenses, Shrinks, Keeps
  <2>4. d[k + 1] = r
    BY <1>3
  <2> QED
    BY <2>3, <2>4
<1> HIDE DEF T
<1>6. \A k \in Nat : k \in T
  BY <1>4, <1>5, SetInduction
<1>7. \A k \in 0 .. N : k \in Nat /\ k <= N
  BY <1>1
<1> QED
  BY <1>6, <1>7 DEF T, N

(* So does the loop of the passes.                                         *)
LEMMA CombineLoopIs ==
    ASSUME NEW t, Healthy(t)
    PROVE  Condenses(t, CombineLoop(t))
<1>1. PICK d : LoopOf(t, d)
  BY LoopHasPasses
<1>2. Cardinality(ValueNodes(t.node)) \in 0 .. Cardinality(ValueNodes(t.node))
  BY HealthyFacts
<1> QED
  BY <1>1, <1>2, LoopCondenses DEF LoopOf

(* Aggregate leaves a trie with no more entries that gives every address   *)
(* the same origins.                                                       *)
LEMMA AggregatedIs ==
    ASSUME NEW t, Healthy(t) PROVE Condenses(t, Aggregated(t))
<1> DEFINE u == DropCovered(t)
<1>1. Condenses(t, u) /\ Healthy(u)
  BY DropCoveredIs DEF Condenses, Shrinks, Keeps
<1> HIDE DEF u
<1>2. Condenses(u, CombineAdjacents(u))
  BY <1>1, CombineLoopIs, CondensesItself DEF CombineAdjacents
<1>3. Condenses(t, CombineAdjacents(u))
  BY <1>1, <1>2, CondensesTransitive
<1> QED
  BY <1>3 DEF Aggregated, u

-----------------------------------------------------------------------------
(* The passes end with nothing left to combine.                            *)

(* Entries with the same AS numbers that together are a wider prefix.      *)
SameHalves(t, p, q) ==
    /\ p \in ValueNodes(t.node) /\ q \in ValueNodes(t.node)
    /\ Len(p) = Len(q) /\ p # q /\ SubSeq(p, 1, Len(p) - 1) = SubSeq(q, 1, Len(q) - 1)
    /\ t.node[p].value = t.node[q].value

NothingToCombine(t) == \A p, q \in ValueNodes(t.node) : ~SameHalves(t, p, q)

(* Where all _parent pointers are right, the search reaches an entry that  *)
(* is ahead.                                                               *)
LEMMA SeekFinds ==
    ASSUME NEW t, Healthy(t), Parents(t, TRUE), NEW q \in ValueNodes(t.node), NEW v, ValueIs(t.node, q, v),
           NEW it \in ValueNodes(t.node), it = q \/ Precedes(it, q)
    PROVE  Seek(t.node, it, q, v) = q
<1> DEFINE h == t.node
           S == Pointers(h)
           seek(x) == Seek(h, x, q, v)
           T == {x \in S : x \in ValueNodes(h) /\ (x = q \/ Precedes(x, q)) => seek(x) = q}
           m == Rank(h)
<1>0. Tree(t) /\ Parents(t, FALSE)
  BY DEF Healthy
<1>1. m \in [S -> Nat]
  BY RankIs
<1>2. ASSUME NEW x \in S, \A y \in S : m[y] < m[x] => y \in T PROVE x \in T
  <2> SUFFICES ASSUME x \in ValueNodes(h), x = q \/ Precedes(x, q) PROVE seek(x) = q
    OBVIOUS
  <2>1. x \in DOMAIN h /\ x \in Prefixes /\ x # Nil /\ q \in Prefixes
    BY <1>0, ValueNodeFacts, NilIsNoPrefix
  <2>2. seek(x) = IF x = Nil \/ (x # q /\ Precedes(q, x)) THEN Nil
                  ELSE IF x = q /\ h[x].value = v THEN x
                  ELSE seek(Successor(h, x))
    BY SeekUnfolds
  <2>3. CASE x = q
    BY <2>1, <2>2, <2>3 DEF ValueIs
  <2>4. CASE x # q
    <3>1. Precedes(x, q) /\ ~Precedes(q, x)
      BY <2>1, <2>4, PrecedesAsymmetric
    <3> DEFINE s == Successor(h, x)
    <3>2. (s # Nil => s \in ValueNodes(h)) /\ IsNext(h, x, s) /\ s \in S /\ m[s] < m[x]
      BY <1>0, <2>1, SuccessorIs, RankIs
    <3> HIDE DEF seek, s
    <3>3. s \in ValueNodes(h) /\ (s = q \/ Precedes(s, q))
      BY <3>1, <3>2 DEF IsNext
    <3>4. s \in T
      BY <1>2, <3>2
    <3> QED
      BY <2>1, <2>2, <2>4, <3>1, <3>3, <3>4 DEF s
  <2> QED
    BY <2>3, <2>4
<1> HIDE DEF T, m
<1>3. S \subseteq T
  BY <1>1, <1>2, MeasureInduction
<1>4. it \in S
  BY DEF Pointers, ValueNodes
<1> QED
  BY <1>3, <1>4 DEF T

(* The right half comes after the left one.                                *)
LEMMA RightHalf ==
    ASSUME NEW p \in Prefixes, NEW q \in Prefixes, Len(p) = Len(q), p # q,
           SubSeq(p, 1, Len(p) - 1) = SubSeq(q, 1, Len(q) - 1)
    PROVE  /\ p # <<>> /\ q # <<>>
           /\ p[Len(p)] # 1 => Precedes(p, q) /\ q = [p EXCEPT ![Len(p)] = 1]
           /\ p[Len(p)] # 1 \/ q[Len(q)] # 1
<1> DEFINE n == Len(p)
<1>1. /\ p \in Seq({0, 1}) /\ q \in Seq({0, 1}) /\ n \in Nat /\ n <= Width /\ Width \in Nat
      /\ p \in [1 .. n -> {0, 1}] /\ q \in [1 .. n -> {0, 1}] /\ Len(q) = n
  BY PrefixIsSeq, TrieAssumption
<1>2. n # 0
  <2>1. n = 0 => p = <<>> /\ q = <<>>
    BY <1>1, EmptySeq
  <2> QED
    BY <2>1
<1> HIDE DEF n
<1>3. p # <<>> /\ q # <<>>
  BY <1>1, <1>2, EmptySeq DEF n
<1>4. n \in 1 .. n /\ n \in 1 .. Width /\ n - 1 \in Nat
  BY <1>1, <1>2
<1> DEFINE a == SubSeq(p, 1, n - 1)  b == SubSeq(q, 1, n - 1)
<1>5. \A i \in 1 .. n - 1 : a[i] = p[i] /\ b[i] = q[i]
  <2>1. 1 \in 1 .. n + 1 /\ n - 1 \in 1 - 1 .. n
    BY <1>1, <1>4
  <2>2. (n - 1 - 1) + 1 = n - 1 /\ \A i \in 1 .. n - 1 : (1 + i) - 1 = i
    BY <1>4
  <2>3. \A i \in 1 .. (n - 1 - 1) + 1 : a[i] = p[(1 + i) - 1]
    BY <1>1, <2>1, SubSeqProperties DEF n
  <2>4. \A i \in 1 .. (n - 1 - 1) + 1 : b[i] = q[(1 + i) - 1]
    BY <1>1, <2>1, SubSeqProperties
  <2> HIDE DEF a, b
  <2> QED
    BY <2>2, <2>3, <2>4
<1>6. a = b
  BY <1>1 DEF n
<1>7. \A i \in 1 .. n - 1 : p[i] = q[i]
  <2> HIDE DEF a, b
  <2> QED
    BY <1>5, <1>6
<1>8. \A i \in 1 .. n : i \in 1 .. n - 1 \/ i = n
  BY <1>1
<1>9. p[n] # q[n]
  BY <1>1, <1>7, <1>8
<1>10. p[n] \in {0, 1} /\ q[n] \in {0, 1}
  BY <1>1, <1>4
<1>11. ASSUME p[n] # 1 PROVE Precedes(p, q) /\ q = [p EXCEPT ![n] = 1]
  <2>1. p[n] = 0 /\ q[n] = 1
    BY <1>9, <1>10, <1>11
  <2>2. \A i \in 1 .. n : q[i] = [p EXCEPT ![n] = 1][i]
    BY <1>1, <1>7, <1>8, <2>1
  <2>3. q = [p EXCEPT ![n] = 1]
    BY <1>1, <2>2
  <2>4. n \in 1 .. Width /\ n <= Len(p) /\ n <= Len(q) /\ a = b /\ p[n] < q[n]
    BY <1>1, <1>4, <1>6, <2>1 DEF n
  <2> QED
    BY <2>3, <2>4 DEF Precedes
<1> QED
  BY <1>1, <1>3, <1>9, <1>10, <1>11 DEF n

(* Of two halves with the same AS numbers the left one finds the other.    *)
LEMMA HalvesFound ==
    ASSUME NEW t, Healthy(t), Parents(t, TRUE), NEW p \in ValueNodes(t.node), NEW q \in ValueNodes(t.node),
           SameHalves(t, p, q)
    PROVE  FindCombinableAdjacent(t, p) # Nil \/ FindCombinableAdjacent(t, q) # Nil
<1>1. ASSUME NEW x \in ValueNodes(t.node), NEW y \in ValueNodes(t.node), SameHalves(t, x, y), x[Len(x)] # 1
      PROVE  FindCombinableAdjacent(t, x) # Nil
  <2> DEFINE v == t.node[x].value
             h == t.node
             s == Successor(h, x)
  <2>1. Tree(t) /\ Parents(t, FALSE) /\ x \in DOMAIN h /\ x \in Prefixes /\ y \in Prefixes
    BY ValueNodeFacts DEF Healthy
  <2>2. x # <<>> /\ Precedes(x, y) /\ y = [x EXCEPT ![Len(x)] = 1]
    BY <1>1, <2>1, RightHalf DEF SameHalves
  <2>3. ValueIs(h, y, v)
    BY <1>1 DEF SameHalves, ValueIs
  <2>4. FindCombinableAdjacent(t, x) = Seek(h, s, y, v)
    BY <1>1, <2>2 DEF FindCombinableAdjacent
  <2>5. (s # Nil => s \in ValueNodes(h)) /\ IsNext(h, x, s)
    BY <2>1, SuccessorIs
  <2> HIDE DEF v, s
  <2>6. s \in ValueNodes(h) /\ (s = y \/ Precedes(s, y))
    BY <2>2, <2>5 DEF IsNext
  <2>7. Seek(h, s, y, v) = y
    BY <2>3, <2>6, SeekFinds
  <2> QED
    BY <2>1, <2>4, <2>7, NilIsNoPrefix
<1>2. p \in Prefixes /\ q \in Prefixes
  BY ValueNodeFacts DEF Healthy
<1>3. p[Len(p)] # 1 \/ q[Len(q)] # 1
  BY <1>2, RightHalf DEF SameHalves
<1>4. SameHalves(t, q, p)
  BY DEF SameHalves
<1> QED
  BY <1>1, <1>3, <1>4

(* Two entries are needed.                                                 *)
LEMMA OneEntry ==
    ASSUME NEW t, Healthy(t), t.size <= 1 PROVE NothingToCombine(t)
<1> DEFINE V == ValueNodes(t.node)
<1> SUFFICES ASSUME NEW p \in V, NEW q \in V, p # q PROVE FALSE
  BY DEF NothingToCombine, SameHalves
<1>1. IsFiniteSet(V) /\ Cardinality(V) \in Nat /\ Cardinality(V) <= 1
  BY HealthyFacts DEF Healthy
<1> HIDE DEF V
<1>2. IsFiniteSet(V \ {p}) /\ Cardinality(V \ {p}) = Cardinality(V) - 1
  BY <1>1, FS_RemoveElement
<1>3. Cardinality(V \ {p}) # 0
  BY <1>2, FS_EmptySet
<1>4. Cardinality(V \ {p}) \in Nat
  BY <1>2, FS_CardinalityType
<1> QED
  BY <1>1, <1>2, <1>3, <1>4

(* A pass that combines leaves fewer entries, but not none.                *)
LEMMA PassThatCombines ==
    ASSUME NEW t, Healthy(t), Combines(CombinePass(t))
    PROVE  0 < CombinePass(t).trie.size /\ CombinePass(t).trie.size < t.size
<1>1. PassRounds(t) \in Nat /\ \E d : PassOf(t, d)
  BY PassHasRounds
<1>2. PICK d : PassOf(t, d)
  BY <1>1
<1> DEFINE N == PassRounds(t)
           Fewer(s) == Combines(s) => 0 < s.trie.size /\ s.trie.size < t.size
           T == {k \in Nat : k <= N => Fewer(d[k])}
<1>3. /\ d[0] = PassStart(t) /\ CombinePass(t) = d[N]
      /\ \A k \in Nat : k + 1 <= N => d[k + 1] = CombineRound(d[k])
  BY <1>2 DEF PassOf
<1>4. \A k \in 0 .. N : Condenses(t, d[k].trie) /\ Healthy(d[k].trie) /\ OnEntry(d[k]) /\ IsRound(d[k])
  BY <1>2, PassCondenses
<1>5. ~Combines(PassStart(t))
  BY DEF PassStart, Combines
<1> HIDE DEF N
<1>6. 0 \in T
  BY <1>3, <1>5
<1>7. ASSUME NEW k \in Nat, k \in T PROVE k + 1 \in T
  <2> SUFFICES ASSUME k + 1 <= N PROVE Fewer(d[k + 1])
    OBVIOUS
  <2>1. k \in 0 .. N /\ Fewer(d[k])
    BY <1>1, <1>7 DEF N
  <2> DEFINE s == d[k]
             r == d[k + 1]
  <2>2. Condenses(t, s.trie) /\ Healthy(s.trie) /\ OnEntry(s) /\ IsRound(s)
    BY <1>4, <2>1
  <2>3. RoundOf(s, r) /\ Healthy(r.trie)
    <3>1. r = CombineRound(s)
      BY <1>3
    <3>2. RoundOf(s, CombineRound(s)) /\ Condenses(s.trie, CombineRound(s).trie)
      BY <2>2, CombineRoundIs
    <3> HIDE DEF r, s
    <3> QED
      BY <3>1, <3>2 DEF Condenses, Shrinks, Keeps
  <2>4. s.trie.size <= t.size /\ s.trie.size \in Nat /\ t.size \in Nat /\ r.trie.size \in Nat
    BY <2>2, <2>3, HealthyFacts DEF Condenses, Shrinks
  <2>5. Fewer(s)
    BY <2>1
  <2> HIDE DEF s, r
  <2>6. Fewer(r)
    BY <2>3, <2>4, <2>5 DEF RoundOf
  <2> QED
    BY <2>6 DEF r
<1> HIDE DEF T
<1>8. \A k \in Nat : k \in T
  BY <1>6, <1>7, SetInduction
<1>9. N \in T /\ N \in Nat
  BY <1>1, <1>8 DEF N
<1> QED
  BY <1>3, <1>9 DEF T

(* How far the loop is when it has combined nothing: the entries before    *)
(* the iterator have nothing to be combined with.                          *)
Past(e, it) == it = Nil \/ Precedes(e, it)
LookedAt(t, it) == \A e \in ValueNodes(t.node) : Past(e, it) => FindCombinableAdjacent(t, e) = Nil

(* At the beginning there are none.                                        *)
LEMMA NonePast ==
    ASSUME NEW t, Healthy(t), ValueNodes(t.node) # {}
    PROVE  /\ FirstValueNode(t.node, t.root) \in ValueNodes(t.node)
           /\ LookedAt(t, FirstValueNode(t.node, t.root))
<1> DEFINE s == FirstValueNode(t.node, t.root)
<1>1. Tree(t) /\ t.root \in Pointers(t.node)
  BY DEF Healthy, Tree
<1>2. PICK e \in ValueNodes(t.node) : TRUE
  OBVIOUS
<1>3. t.root \in DOMAIN t.node /\ DOMAIN t.node \subseteq Prefixes
  BY <1>1, <1>2, RootAbove DEF ValueNodes, Tree
<1>4. t.root # Nil
  BY <1>3, NilIsNoPrefix
<1>5. s # Nil /\ IsFirstBelow(t.node, t.root, s)
  BY <1>1, <1>4, FirstIs
<1> HIDE DEF s
<1>6. s \in ValueNodes(t.node) /\ s \in Prefixes
  BY <1>1, <1>5, ValueNodeFacts DEF IsFirstBelow
<1>7. ASSUME NEW q \in ValueNodes(t.node) PROVE ~Past(q, s)
  <2>1. q \in DOMAIN t.node /\ q \in Prefixes
    BY <1>1, ValueNodeFacts
  <2>2. Contains(t.root, q)
    BY <1>1, <2>1, RootAbove
  <2>3. q = s \/ Precedes(s, q)
    BY <1>5, <2>2 DEF IsFirstBelow
  <2> QED
    BY <1>5, <1>6, <2>1, <2>3, PrecedesAsymmetric, PrecedesIrreflexive DEF Past
<1> QED
  BY <1>6, <1>7 DEF LookedAt, s

(* A round that finds nothing leaves one entry more behind.                *)
LEMMA OneMorePast ==
    ASSUME NEW t, Healthy(t), Parents(t, TRUE), NEW it \in ValueNodes(t.node), LookedAt(t, it),
           FindCombinableAdjacent(t, it) = Nil
    PROVE  LookedAt(t, Successor(t.node, it))
<1> DEFINE s == Successor(t.node, it)
<1>1. Tree(t) /\ Parents(t, FALSE) /\ it \in DOMAIN t.node /\ it \in Prefixes /\ it # Nil
  BY ValueNodeFacts, NilIsNoPrefix DEF Healthy
<1>2. (s # Nil => s \in ValueNodes(t.node)) /\ IsNext(t.node, it, s)
  BY <1>1, SuccessorIs
<1> HIDE DEF s
<1>3. ASSUME NEW e \in ValueNodes(t.node), Past(e, s) PROVE FindCombinableAdjacent(t, e) = Nil
  <2>1. e \in Prefixes /\ (s # Nil => s \in Prefixes)
    BY <1>1, <1>2, ValueNodeFacts
  <2>2. CASE e = it
    BY <2>2
  <2>3. CASE Precedes(e, it)
    BY <2>3 DEF LookedAt, Past
  <2>4. CASE Precedes(it, e)
    <3>1. s # Nil /\ (e = s \/ Precedes(s, e))
      BY <1>2, <2>4 DEF IsNext
    <3>2. Precedes(e, s)
      BY <1>3, <3>1 DEF Past
    <3> QED
      BY <2>1, <3>1, <3>2, PrecedesAsymmetric, PrecedesIrreflexive
  <2> QED
    BY <1>1, <2>1, <2>2, <2>3, <2>4, PrecedesTotal
<1> QED
  BY <1>3 DEF LookedAt, s

(* As many rounds as there are entries bring the iterator to the end.      *)
LEMMA EnoughRounds ==
    ASSUME NEW t, Healthy(t), t.size > 1
    PROVE  Cardinality(ValueNodes(t.node)) + 2 <= PassRounds(t)
<1> DEFINE n == Cardinality(ValueNodes(t.node))
<1>0. n \in Nat /\ t.size = n
  BY HealthyFacts DEF Healthy
<1> HIDE DEF n
<1>1. n \in Nat /\ 2 <= n
  BY <1>0
<1>2. n + 1 \in Nat
  BY <1>1
<1>3. 2 * (n + 1) <= n * (n + 1) /\ n * (n + 1) \in Nat
  BY <1>1, <1>2, TimesMonotonic
<1>4. n + 2 <= 2 * (n + 1)
  BY <1>1
<1> DEFINE a == n * (n + 1)
<1>5. n + 2 <= a
  <2> HIDE DEF a
  <2>1. 2 * (n + 1) <= a /\ a \in Nat
    BY <1>3 DEF a
  <2> QED
    BY <1>1, <1>4, <2>1
<1> QED
  BY <1>5 DEF n, PassRounds

(* A pass that combines nothing leaves a trie alone in which there is      *)
(* nothing to combine.                                                     *)
LEMMA PassThatFindsNothing ==
    ASSUME NEW t, Healthy(t), Parents(t, TRUE), t.size > 1, ~Combines(CombinePass(t))
    PROVE  CombinePass(t).trie = t /\ NothingToCombine(t)
<1>1. PassRounds(t) \in Nat /\ \E d : PassOf(t, d)
  BY PassHasRounds
<1>2. PICK d : PassOf(t, d)
  BY <1>1
<1> DEFINE N == PassRounds(t)
           n == Cardinality(ValueNodes(t.node))
           rank == Rank(t.node)
           Far(s, k) == \/ Combines(s)
                        \/ /\ s.trie = t /\ LookedAt(t, s.it)
                           /\ s.it # Nil => s.it \in ValueNodes(t.node) /\ rank[s.it] + k <= n + 1
           T == {k \in Nat : k <= N => Far(d[k], k)}
<1>3. /\ d[0] = PassStart(t) /\ CombinePass(t) = d[N]
      /\ \A k \in Nat : k + 1 <= N => d[k + 1] = CombineRound(d[k])
  BY <1>2 DEF PassOf
<1>4. \A k \in 0 .. N : Condenses(t, d[k].trie) /\ Healthy(d[k].trie) /\ OnEntry(d[k]) /\ IsRound(d[k])
  BY <1>2, PassCondenses
<1>5. n \in Nat /\ t.size = n /\ n + 2 <= N
  BY HealthyFacts, EnoughRounds DEF Healthy
<1>6. /\ rank \in [Pointers(t.node) -> Nat] /\ (\A x \in Pointers(t.node) : rank[x] < n + 2)
      /\ \A x \in DOMAIN t.node : Successor(t.node, x) \in Pointers(t.node) /\ rank[Successor(t.node, x)] < rank[x]
  BY RankIs
<1>7. ValueNodes(t.node) \subseteq Pointers(t.node) /\ ValueNodes(t.node) \subseteq DOMAIN t.node
  BY DEF ValueNodes, Pointers
<1>8. ValueNodes(t.node) # {}
  <2> SUFFICES ASSUME ValueNodes(t.node) = {} PROVE FALSE
    OBVIOUS
  <2>1. n = 0
    BY FS_EmptySet
  <2> HIDE DEF n
  <2> QED
    BY <1>5, <2>1
<1>9. PassStart(t).trie = t /\ PassStart(t).it = FirstValueNode(t.node, t.root)
  BY DEF PassStart
<1> HIDE DEF N, n, rank
<1>10. Far(PassStart(t), 0)
  <2> DEFINE f == FirstValueNode(t.node, t.root)
  <2>1. f \in ValueNodes(t.node) /\ LookedAt(t, f)
    BY <1>8, NonePast
  <2> HIDE DEF f
  <2>2. rank[f] \in Nat /\ rank[f] < n + 2
    BY <1>6, <1>7, <2>1
  <2>3. rank[f] + 0 <= n + 1
    BY <1>5, <2>2
  <2> QED
    BY <1>9, <2>1, <2>3 DEF f
<1>11. 0 \in T
  BY <1>3, <1>10
<1>12. ASSUME NEW k \in Nat, k \in T PROVE k + 1 \in T
  <2> SUFFICES ASSUME k + 1 <= N PROVE Far(d[k + 1], k + 1)
    OBVIOUS
  <2>1. k \in 0 .. N /\ Far(d[k], k)
    BY <1>1, <1>12 DEF N
  <2> DEFINE s == d[k]
             r == d[k + 1]
  <2>2. Healthy(s.trie) /\ OnEntry(s) /\ IsRound(s)
    BY <1>4, <2>1
  <2>3. RoundOf(s, r)
    <3>1. r = CombineRound(s)
      BY <1>3
    <3>2. RoundOf(s, CombineRound(s))
      BY <2>2, CombineRoundIs
    <3> HIDE DEF r, s
    <3> QED
      BY <3>1, <3>2
  <2>4. Far(s, k)
    BY <2>1
  <2> HIDE DEF s, r
  <2> SUFFICES ASSUME ~Combines(r) PROVE Far(r, k + 1)
    BY DEF r
  <2>5. ~Combines(s)
    BY <2>3 DEF RoundOf
  <2>6. /\ s.trie = t /\ LookedAt(t, s.it)
        /\ s.it # Nil => s.it \in ValueNodes(t.node) /\ rank[s.it] + k <= n + 1
    BY <2>4, <2>5
  <2>7. CASE s.it = Nil
    <3>1. r = s
      BY <2>3, <2>7 DEF RoundOf
    <3> QED
      BY <2>6, <2>7, <3>1
  <2>8. CASE s.it # Nil
    <3> DEFINE x == s.it
               y == Successor(t.node, x)
    <3>1. r.trie = t /\ r.it = y /\ FindCombinableAdjacent(t, x) = Nil
      BY <2>3, <2>6, <2>8 DEF RoundOf
    <3>2. x \in ValueNodes(t.node) /\ x \in DOMAIN t.node /\ rank[x] + k <= n + 1 /\ LookedAt(t, x)
      BY <1>7, <2>6, <2>8
    <3> HIDE DEF x
    <3>3. LookedAt(t, y)
      BY <3>1, <3>2, OneMorePast
    <3>4. y # Nil => y \in ValueNodes(t.node)
      BY <3>2, SuccessorIs DEF Healthy
    <3>5. y \in Pointers(t.node) /\ x \in Pointers(t.node) /\ rank[y] < rank[x]
      BY <1>6, <1>7, <3>2
    <3>6. rank[x] \in Nat /\ rank[y] \in Nat
      BY <1>6, <3>5
    <3> HIDE DEF y
    <3>7. rank[y] + (k + 1) <= n + 1
      BY <1>5, <3>2, <3>5, <3>6
    <3> QED
      BY <3>1, <3>3, <3>4, <3>7
  <2> QED
    BY <2>7, <2>8
<1> HIDE DEF T
<1>13. \A k \in Nat : k \in T
  BY <1>11, <1>12, SetInduction
<1>14. N \in Nat /\ N \in T
  BY <1>1, <1>13 DEF N
<1> DEFINE e == CombinePass(t)
<1>15. Far(e, N)
  BY <1>3, <1>14 DEF T
<1> HIDE DEF e
<1>16. /\ e.trie = t /\ LookedAt(t, e.it)
       /\ e.it # Nil => e.it \in ValueNodes(t.node) /\ rank[e.it] + N <= n + 1
  BY <1>15 DEF e
<1>17. e.it = Nil
  <2> SUFFICES ASSUME e.it # Nil PROVE FALSE
    OBVIOUS
  <2> DEFINE x == e.it
  <2>1. rank[x] \in Nat /\ rank[x] + N <= n + 1
    BY <1>6, <1>7, <1>16
  <2> QED
    BY <1>5, <1>14, <2>1
<1>18. \A x \in ValueNodes(t.node) : FindCombinableAdjacent(t, x) = Nil
  BY <1>16, <1>17 DEF LookedAt, Past
<1>19. NothingToCombine(t)
  BY <1>18, HalvesFound DEF NothingToCombine
<1> QED
  BY <1>16, <1>19 DEF e

(* After so many passes as there are entries, one has combined nothing.    *)
LEMMA LoopCombinesAll ==
    ASSUME NEW t, Healthy(t), Parents(t, TRUE), t.size > 1
    PROVE  NothingToCombine(CombineLoop(t))
<1>1. PICK d : LoopOf(t, d)
  BY LoopHasPasses
<1> DEFINE N == Cardinality(ValueNodes(t.node))
           Fewer(s, k) == IF Combines(s) THEN 0 < s.trie.size /\ s.trie.size + k <= N
                                         ELSE NothingToCombine(s.trie)
           T == {k \in Nat : k <= N => Fewer(d[k], k)}
<1>2. /\ d[0] = LoopStart(t) /\ CombineLoop(t) = d[N].trie
      /\ \A k \in Nat : k + 1 <= N => d[k + 1] = CombinePassAgain(d[k])
  BY <1>1 DEF LoopOf
<1>3. N \in Nat /\ N = t.size
  BY HealthyFacts DEF Healthy
<1>4. \A k \in 0 .. N : Condenses(t, d[k].trie) /\ Healthy(d[k].trie)
  BY <1>1, LoopCondenses
<1>5. LoopStart(t).trie = t /\ Combines(LoopStart(t))
  BY DEF LoopStart, Combines
<1> HIDE DEF N
<1>6. Fewer(LoopStart(t), 0)
  BY <1>3, <1>5
<1>7. 0 \in T
  BY <1>2, <1>6
<1>8. ASSUME NEW k \in Nat, k \in T PROVE k + 1 \in T
  <2> SUFFICES ASSUME k + 1 <= N PROVE Fewer(d[k + 1], k + 1)
    OBVIOUS
  <2>1. k \in 0 .. N /\ Fewer(d[k], k)
    BY <1>3, <1>8
  <2> DEFINE s == d[k]
             r == d[k + 1]
  <2>2. Healthy(s.trie) /\ Parents(s.trie, TRUE)
    BY <1>4, <2>1 DEF Condenses, Shrinks, Keeps
  <2>3. Fewer(s, k) /\ r = CombinePassAgain(s)
    BY <1>2, <2>1
  <2> HIDE DEF s, r
  <2>4. CASE ~Combines(s)
    <3>1. r = s
      BY <2>3, <2>4 DEF CombinePassAgain, Combines
    <3> QED
      BY <2>3, <2>4, <3>1 DEF r
  <2>5. CASE Combines(s)
    <3> DEFINE u == s.trie
               e == CombinePass(u)
    <3>1. r = e
      BY <2>3, <2>5 DEF CombinePassAgain, Combines
    <3>2. 0 < u.size /\ u.size + k <= N /\ u.size \in Nat
      BY <2>2, <2>3, <2>5, HealthyFacts
    <3>3. Condenses(u, e.trie)
      BY <2>2, CombinePassIs
    <3>4. Combines(e) => 0 < e.trie.size /\ e.trie.size < u.size
      BY <2>2, PassThatCombines
    <3>5. u.size > 1 /\ ~Combines(e) => e.trie = u /\ NothingToCombine(u)
      BY <2>2, PassThatFindsNothing
    <3> HIDE DEF u, e
    <3>6. e.trie.size \in Nat /\ e.trie.size <= u.size /\ Healthy(e.trie)
      BY <3>3, HealthyFacts DEF Condenses, Shrinks, Keeps
    <3>7. CASE Combines(e)
      <4>1. e.trie.size + (k + 1) <= N
        BY <1>3, <3>2, <3>4, <3>6, <3>7
      <4> QED
        BY <3>1, <3>4, <3>7, <4>1 DEF r
    <3>8. CASE ~Combines(e) /\ u.size > 1
      <4>1. NothingToCombine(e.trie)
        BY <3>5, <3>8
      <4> QED
        BY <3>1, <3>8, <4>1 DEF r
    <3>9. CASE ~Combines(e) /\ ~(u.size > 1)
      <4>1. e.trie.size <= 1
        BY <3>2, <3>6, <3>9
      <4>2. NothingToCombine(e.trie)
        BY <3>6, <4>1, OneEntry
      <4> QED
        BY <3>1, <3>9, <4>2 DEF r
    <3> QED
      BY <3>7, <3>8, <3>9
  <2> QED
    BY <2>4, <2>5
<1> HIDE DEF T
<1>9. \A k \in Nat : k \in T
  BY <1>7, <1>8, SetInduction
<1>10. N \in T /\ N \in 0 .. N
  BY <1>3, <1>9
<1> DEFINE e == d[N]
<1>11. Fewer(e, N) /\ Healthy(e.trie)
  BY <1>3, <1>4, <1>10 DEF T
<1> HIDE DEF e
<1>12. e.trie.size \in Nat
  BY <1>11, HealthyFacts
<1>13. ~Combines(e)
  BY <1>3, <1>11, <1>12
<1>14. NothingToCombine(e.trie)
  BY <1>11, <1>13
<1> QED
  BY <1>2, <1>14 DEF e

(* Aggregate leaves nothing to combine.                                    *)
LEMMA AggregatedCombinesAll ==
    ASSUME NEW t, Healthy(t), Parents(t, TRUE)
    PROVE  NothingToCombine(Aggregated(t))
<1> DEFINE u == DropCovered(t)
<1>1. Healthy(u) /\ Parents(u, TRUE)
  BY DropCoveredIs DEF Condenses, Shrinks, Keeps
<1> HIDE DEF u
<1>2. u.size \in Nat
  BY <1>1, HealthyFacts
<1>3. u.size > 1 \/ u.size <= 1
  BY <1>2
<1>4. NothingToCombine(CombineAdjacents(u))
  BY <1>1, <1>3, LoopCombinesAll, OneEntry DEF CombineAdjacents
<1> QED
  BY <1>4 DEF Aggregated, u

-----------------------------------------------------------------------------
(* A loop over the entries.                                                *)
LEMMA FromUnfolds ==
    ASSUME NEW t, Healthy(t)
    PROVE  \A n \in Pointers(t.node) :
              From(t.node, n) = IF n = Nil THEN <<>> ELSE <<n>> \o From(t.node, Successor(t.node, n))
<1> DEFINE h == t.node
           S == Pointers(h)
           m == Rank(h)
           N == Cardinality(ValueNodes(h)) + 2
           E(f) == [n \in S |-> FromStep(h, f, n)]
           d == CHOOSE f : f = E(f)
<1>1. m \in [S -> Nat] /\ (\A n \in S : m[n] < N) /\ N \in Nat
  BY RankIs
<1>2. ASSUME NEW n \in S, n # Nil PROVE Successor(h, n) \in S /\ m[Successor(h, n)] < m[n]
  BY <1>2, RankIs DEF Pointers
<1> HIDE DEF m, N, h
<1>4. \A f, x : Step("from", h, h, h, f, x) = FromStep(h, f, x)
  BY DEF Step
<1>5. Local("from", h, h, h, S, m)
  <2> SUFFICES ASSUME NEW f, NEW g, NEW x \in S, \A y \in S : m[y] < m[x] => f[y] = g[y]
               PROVE  Step("from", h, h, h, f, x) = Step("from", h, h, h, g, x)
    BY DEF Local
  <2>1. x # Nil => f[Successor(h, x)] = g[Successor(h, x)]
    BY <1>2
  <2>2. FromStep(h, f, x) = FromStep(h, g, x)
    BY <2>1 DEF FromStep
  <2> QED
    BY <1>4, <2>2
<1>6. \E f : Follows("from", h, h, h, S, f)
  BY <1>1, <1>5, Recursion
<1>7. \E f : f = E(f)
  BY <1>4, <1>6 DEF Follows
<1>8. d = E(d)
  BY <1>7
<1>9. \A n : From(h, n) = d[n]
  BY DEF From, FromStep
<1>10. \A n \in S : d[n] = FromStep(h, d, n)
  BY <1>8
<1> HIDE DEF d
<1> QED
  BY <1>9, <1>10 DEF h, FromStep

(* s holds prefixes in order, each once, and they are those of S.          *)
Ordered(s, S) ==
    /\ s \in Seq(Prefixes)
    /\ \A q : q \in S <=> \E i \in 1 .. Len(s) : s[i] = q
    /\ \A i, j \in 1 .. Len(s) : i < j => Precedes(s[i], s[j])

(* No entries, in order.                                                   *)
LEMMA OrderedEmpty == Ordered(<<>>, {})
BY DEF Ordered

(* An element before the others.                                           *)
LEMMA Prepended ==
    ASSUME NEW n \in Prefixes, NEW s \in Seq(Prefixes)
    PROVE  /\ <<n>> \o s \in Seq(Prefixes) /\ Len(<<n>> \o s) = Len(s) + 1 /\ Len(s) \in Nat
           /\ (<<n>> \o s)[1] = n
           /\ \A i \in 1 .. Len(s) : (<<n>> \o s)[i + 1] = s[i]
<1> DEFINE u == <<n>> \o s
<1>1. <<n>> \in Seq(Prefixes) /\ Len(<<n>>) = 1 /\ <<n>>[1] = n /\ Len(s) \in Nat
  OBVIOUS
<1>2. /\ u \in Seq(Prefixes) /\ Len(u) = Len(<<n>>) + Len(s)
      /\ \A i \in 1 .. Len(<<n>>) + Len(s) :
            u[i] = IF i <= Len(<<n>>) THEN <<n>>[i] ELSE s[i - Len(<<n>>)]
  BY <1>1, ConcatProperties
<1> HIDE DEF u
<1>3. Len(u) = 1 + Len(s) /\ \A i \in 1 .. 1 + Len(s) : u[i] = IF i <= 1 THEN <<n>>[i] ELSE s[i - 1]
  BY <1>1, <1>2
<1>4. u[1] = n
  BY <1>1, <1>3
<1>5. ASSUME NEW i \in 1 .. Len(s) PROVE u[i + 1] = s[i]
  <2>1. i + 1 \in 1 .. 1 + Len(s) /\ ~(i + 1 <= 1) /\ (i + 1) - 1 = i
    BY <1>1
  <2>2. u[i + 1] = s[(i + 1) - 1]
    BY <1>3, <2>1
  <2> QED
    BY <2>1, <2>2
<1> QED
  BY <1>1, <1>2, <1>3, <1>4, <1>5 DEF u

(* The first one before the others, in order.                              *)
LEMMA OrderedPrepend ==
    ASSUME NEW n \in Prefixes, NEW s, NEW S, Ordered(s, S), \A q \in S : Precedes(n, q)
    PROVE  Ordered(<<n>> \o s, {n} \cup S)
<1> DEFINE u == <<n>> \o s
<1>1. s \in Seq(Prefixes) /\ Len(s) \in Nat
  BY DEF Ordered
<1>2. u \in Seq(Prefixes) /\ Len(u) = Len(s) + 1 /\ u[1] = n /\ \A i \in 1 .. Len(s) : u[i + 1] = s[i]
  BY <1>1, Prepended
<1> HIDE DEF u
<1>3. 1 \in 1 .. Len(u) /\ \A i \in 1 .. Len(s) : i + 1 \in 1 .. Len(u)
  BY <1>1, <1>2
<1>4. ASSUME NEW i \in 1 .. Len(u), i # 1 PROVE i - 1 \in 1 .. Len(s) /\ u[i] = s[i - 1]
  <2>1. i - 1 \in 1 .. Len(s) /\ (i - 1) + 1 = i
    BY <1>1, <1>2, <1>4
  <2> QED
    BY <1>2, <2>1
<1>5. ASSUME NEW i \in 1 .. Len(s) PROVE s[i] \in S
  BY <1>5 DEF Ordered
<1>6. \A q : q \in {n} \cup S <=> \E i \in 1 .. Len(u) : u[i] = q
  <2>1. ASSUME NEW q, q \in S PROVE \E i \in 1 .. Len(u) : u[i] = q
    <3>1. PICK i \in 1 .. Len(s) : s[i] = q
      BY <2>1 DEF Ordered
    <3> QED
      BY <3>1, <1>2, <1>3
  <2>2. ASSUME NEW i \in 1 .. Len(u) PROVE u[i] \in {n} \cup S
    BY <1>2, <1>4, <1>5
  <2> QED
    BY <1>2, <1>3, <2>1, <2>2
<1>7. ASSUME NEW i \in 1 .. Len(u), NEW j \in 1 .. Len(u), i < j PROVE Precedes(u[i], u[j])
  <2>1. j # 1
    BY <1>7
  <2>2. j - 1 \in 1 .. Len(s) /\ u[j] = s[j - 1]
    BY <1>4, <2>1
  <2>3. CASE i = 1
    BY <1>2, <1>5, <2>2, <2>3
  <2>4. CASE i # 1
    <3>1. i - 1 \in 1 .. Len(s) /\ u[i] = s[i - 1]
      BY <1>4, <2>4
    <3>2. i - 1 < j - 1
      BY <1>7
    <3>3. Precedes(s[i - 1], s[j - 1])
      BY <2>2, <3>1, <3>2 DEF Ordered
    <3> QED
      BY <2>2, <3>1, <3>3
  <2> QED
    BY <2>3, <2>4
<1> QED
  BY <1>2, <1>6, <1>7 DEF u, Ordered

(* Entries in order are sorted.                                            *)
LEMMA OrderedSorts ==
    ASSUME NEW s, NEW S, Ordered(s, S) PROVE Sorts(s, S)
<1>1. s \in Seq(Prefixes) /\ DOMAIN s = 1 .. Len(s)
  BY LenProperties DEF Ordered
<1>2. Ext!ToSet(s) = S
  BY <1>1 DEF Ordered, Ext!ToSet
<1> QED
  BY <1>1, <1>2 DEF Ordered, Sorts

(* The entries the loop goes on with, from n.                              *)
Rest(h, n) == IF n = Nil THEN {} ELSE {n} \cup After(h, n)

(* s holds some of S in order, each once.                                  *)
Visits(s, S) ==
    /\ s \in Seq(Prefixes)
    /\ \A i \in 1 .. Len(s) : s[i] \in S
    /\ \A i, j \in 1 .. Len(s) : i < j => Precedes(s[i], s[j])

(* The first one before the others the loop visits.                        *)
LEMMA VisitsPrepend ==
    ASSUME NEW n \in Prefixes, NEW s, NEW S, Visits(s, S), \A q \in S : Precedes(n, q)
    PROVE  Visits(<<n>> \o s, {n} \cup S)
<1> DEFINE R == {q \in S : \E i \in 1 .. Len(s) : s[i] = q}
<1>1. Ordered(s, R)
  BY DEF Visits, Ordered
<1>2. \A q \in R : Precedes(n, q)
  OBVIOUS
<1>3. R \subseteq S
  OBVIOUS
<1> HIDE DEF R
<1>4. Ordered(<<n>> \o s, {n} \cup R)
  BY <1>1, <1>2, OrderedPrepend
<1> DEFINE u == <<n>> \o s
<1> HIDE DEF u
<1>5. Ordered(u, {n} \cup R)
  BY <1>4 DEF u
<1>6. Visits(u, {n} \cup S)
  BY <1>3, <1>5 DEF Visits, Ordered
<1> QED
  BY <1>6 DEF u

(* The loop from an entry visits what comes after it in order: all of it   *)
(* when all _parent pointers are right.                                    *)
LEMMA FromIs ==
    ASSUME NEW t, Healthy(t), NEW n \in Pointers(t.node), n = Nil \/ n \in ValueNodes(t.node)
    PROVE  /\ Visits(From(t.node, n), Rest(t.node, n))
           /\ Parents(t, TRUE) => Ordered(From(t.node, n), Rest(t.node, n))
<1> DEFINE h == t.node
           S == Pointers(h)
           from(x) == From(h, x)
           On(x) == x = Nil \/ x \in ValueNodes(h)
           Good(x) == Visits(from(x), Rest(h, x)) /\ (Parents(t, TRUE) => Ordered(from(x), Rest(h, x)))
           T == {x \in S : On(x) => Good(x)}
           m == Rank(h)
<1>0. Tree(t) /\ Parents(t, FALSE)
  BY DEF Healthy
<1>1. m \in [S -> Nat]
  BY RankIs
<1>2. ASSUME NEW x \in S, \A y \in S : m[y] < m[x] => y \in T PROVE x \in T
  <2> SUFFICES ASSUME On(x) PROVE Good(x)
    OBVIOUS
  <2>1. CASE x = Nil
    <3>1. from(x) = <<>>
      BY <2>1, FromUnfolds
    <3>2. Visits(<<>>, Rest(h, x)) /\ Rest(h, x) = {}
      BY <2>1 DEF Visits, Rest
    <3> QED
      BY <3>1, <3>2, OrderedEmpty
  <2>2. CASE x # Nil
    <3> DEFINE s == Successor(h, x)
    <3>1. from(x) = <<x>> \o from(s)
      BY <2>2, FromUnfolds
    <3>2. x \in ValueNodes(h) /\ x \in DOMAIN h /\ x \in Prefixes
      BY <1>0, <2>2, ValueNodeFacts
    <3>3. s \in S /\ m[s] < m[x]
      BY <3>2, RankIs
    <3>4. /\ s # Nil => s \in ValueNodes(h) /\ Precedes(x, s)
          /\ Parents(t, TRUE) => IsNext(h, x, s)
      BY <1>0, <3>2, SuccessorIs
    <3> HIDE DEF s
    <3>5. Good(s)
      BY <1>2, <3>3, <3>4
    <3>6. Visits(<<x>> \o from(s), Rest(h, x))
      <4>1. ASSUME NEW q \in ValueNodes(h), s # Nil, Precedes(s, q) PROVE Precedes(x, q)
        BY <1>0, <3>2, <3>4, <4>1, ValueNodeFacts, PrecedesTransitive
      <4>2. Rest(h, s) \subseteq After(h, x)
        BY <3>4, <4>1 DEF Rest, After
      <4>3. Visits(from(s), After(h, x))
        BY <3>5, <4>2 DEF Visits
      <4>4. \A q \in After(h, x) : Precedes(x, q)
        BY DEF After
      <4>5. Rest(h, x) = {x} \cup After(h, x)
        BY <2>2 DEF Rest
      <4> HIDE DEF from
      <4> QED
        BY <3>2, <4>3, <4>4, <4>5, VisitsPrepend
    <3>7. ASSUME Parents(t, TRUE) PROVE Ordered(<<x>> \o from(s), Rest(h, x))
      <4>1. Rest(h, s) = After(h, x)
        <5>1. ASSUME NEW q \in ValueNodes(h), s # Nil, Precedes(s, q) PROVE Precedes(x, q)
          BY <1>0, <3>2, <3>4, <5>1, ValueNodeFacts, PrecedesTransitive
        <5>2. IsNext(h, x, s)
          BY <3>4, <3>7
        <5>3. CASE s = Nil
          BY <5>2, <5>3 DEF Rest, After, IsNext
        <5>4. CASE s # Nil
          BY <3>4, <5>1, <5>2, <5>4 DEF Rest, After, IsNext
        <5> QED
          BY <5>3, <5>4
      <4>2. Ordered(from(s), After(h, x))
        BY <3>5, <3>7, <4>1
      <4>3. \A q \in After(h, x) : Precedes(x, q)
        BY DEF After
      <4>4. Rest(h, x) = {x} \cup After(h, x)
        BY <2>2 DEF Rest
      <4> HIDE DEF from
      <4> QED
        BY <3>2, <4>2, <4>3, <4>4, OrderedPrepend
    <3> QED
      BY <3>1, <3>6, <3>7
  <2> QED
    BY <2>1, <2>2
<1> HIDE DEF T, m
<1>3. S \subseteq T
  BY <1>1, <1>2, MeasureInduction
<1> QED
  BY <1>3 DEF T

(* The loop visits entries in order: all of them when all _parent pointers *)
(* are right.                                                              *)
LEMMA ForwardIs ==
    ASSUME NEW t, Healthy(t)
    PROVE  /\ Visits(Forward(t), ValueNodes(t.node))
           /\ Parents(t, TRUE) => Ordered(Forward(t), ValueNodes(t.node))
<1> DEFINE h == t.node
           first == FirstValueNode(h, t.root)
<1>1. Tree(t) /\ t.root \in Pointers(h)
  BY DEF Healthy, Tree
<1>2. first = Nil \/ first \in ValueNodes(h)
  BY FirstOnEntry
<1>3. first \in Pointers(h)
  BY <1>2 DEF Pointers, ValueNodes
<1>4. Rest(h, first) = ValueNodes(h)
  <2>1. CASE t.root = Nil
    <3>1. first = Nil /\ ValueNodes(h) = {}
      BY <1>1, <2>1, FirstIs DEF Tree, AllHang, ValueNodes
    <3> QED
      BY <3>1 DEF Rest
  <2>2. CASE t.root # Nil
    <3>1. first # Nil /\ IsFirstBelow(h, t.root, first)
      BY <1>1, <2>2, FirstIs
    <3>2. \A q \in ValueNodes(h) : Contains(t.root, q)
      BY <1>1, RootAbove DEF ValueNodes
    <3>3. first \in ValueNodes(h) /\ \A q \in ValueNodes(h) : q = first \/ Precedes(first, q)
      BY <3>1, <3>2 DEF IsFirstBelow
    <3> HIDE DEF first
    <3> QED
      BY <3>1, <3>3 DEF Rest, After
  <2> QED
    BY <2>1, <2>2
<1> HIDE DEF first
<1>5. /\ Visits(From(h, first), Rest(h, first))
      /\ Parents(t, TRUE) => Ordered(From(h, first), Rest(h, first))
  BY <1>2, <1>3, FromIs
<1> QED
  BY <1>4, <1>5 DEF Forward, first

-----------------------------------------------------------------------------
(* A file: what is after the number of entries are entries of s.           *)
Entry(e, s) == e.prefix \in ValueNodes(s.node) /\ e.value = s.node[e.prefix].value
IsFile(f, s) == Len(f) \in Nat /\ \A k \in 2 .. Len(f) : Entry(f[k], s)

(* What the entries of a file make: a part of s.                           *)
Read(u, s) ==
    /\ Healthy(u) /\ Parents(u, TRUE)
    /\ ValueNodes(u.node) \subseteq ValueNodes(s.node)
    /\ \A q \in ValueNodes(u.node) : u.node[q].value = s.node[q].value

(* The first entries of the file are there.                                *)
Holds(u, f, n) == \A k \in 2 .. n : f[k].prefix \in ValueNodes(u.node)

(* An empty object holds no other entries.                                 *)
LEMMA EmptyRead == ASSUME NEW s PROVE Read(EmptyTrie, s)
<1>1. DOMAIN EmptyTrie.node = {}
  BY DEF EmptyTrie
<1>2. ValueNodes(EmptyTrie.node) = {}
  BY <1>1 DEF ValueNodes
<1> QED
  BY <1>2, EmptyHealthy DEF Read

(* The value of an entry is a set of AS numbers.                           *)
LEMMA EntryValue ==
    ASSUME NEW t, Healthy(t), NEW q \in ValueNodes(t.node)
    PROVE  t.node[q].value \in SUBSET ASes
<1>1. t.node[q] \in Node /\ t.node[q].value # NoValue
  BY DEF Healthy, Tree, ValueNodes, HasValue
<1> QED
  BY <1>1 DEF Node

(* Reading makes a trie of the entries that are in the file.               *)
LEMMA InsertAllIs ==
    ASSUME NEW t, Healthy(t), NEW s, Healthy(s), NEW file, IsFile(file, s)
    PROVE  Read(InsertAll(t, file), s) /\ Holds(InsertAll(t, file), file, Len(file))
<1> DEFINE N == Len(file)
           S == 0 .. N
           E(f) == [k \in S |-> ReadStep(t, file, f, k)]
           d == CHOOSE f : f = E(f)
           Good(k) == Read(d[k], s) /\ Holds(d[k], file, k)
           T == {k \in Nat : k <= N => Good(k)}
<1>1. N \in Nat
  BY DEF IsFile
<1>2. InsertAll(t, file) = d[N]
  BY DEF InsertAll, ReadStep
<1>3. ASSUME NEW k \in S PROVE k <= 1 \/ (k \in 2 .. N /\ k > 0)
  BY <1>1
<1> HIDE DEF N
<1>4. \A f, k : Step("read", t, file, file, f, k) = ReadStep(t, file, f, k)
  BY DEF Step
<1>5. \A f, g : \A k \in S :
          (k > 0 => f[k - 1] = g[k - 1]) => Step("read", t, file, file, f, k) = Step("read", t, file, file, g, k)
  BY <1>3, <1>4 DEF ReadStep
<1>6. \E f : Follows("read", t, file, file, S, f)
  BY <1>1, <1>5, Rounds
<1>7. \E f : f = E(f)
  BY <1>4, <1>6 DEF Follows
<1>8. d = E(d)
  BY <1>7
<1>9. \A k \in S : d[k] = ReadStep(t, file, d, k)
  BY <1>8
<1> HIDE DEF d
<1>10. 0 \in S /\ 0 <= 1
  BY <1>1
<1>11. ASSUME NEW k \in S, k <= 1 PROVE Good(k)
  <2>1. d[k] = EmptyTrie
    BY <1>9, <1>11, ClearedIs DEF ReadStep
  <2>2. 2 .. k = {}
    BY <1>1, <1>11
  <2>3. Holds(d[k], file, k)
    BY <2>2 DEF Holds
  <2> QED
    BY <2>1, <2>3, EmptyRead
<1>12. 0 \in T
  BY <1>10, <1>11
<1>13. ASSUME NEW k \in Nat, k \in T PROVE k + 1 \in T
  <2> SUFFICES ASSUME k + 1 <= N PROVE Good(k + 1)
    OBVIOUS
  <2>1. k + 1 \in S /\ Good(k) /\ (k + 1) - 1 = k
    BY <1>1, <1>13
  <2>2. CASE k + 1 <= 1
    BY <1>11, <2>1, <2>2
  <2>3. CASE ~(k + 1 <= 1)
    <3> DEFINE p == file[k + 1].prefix
               v == file[k + 1].value
               u == d[k]
    <3>1. k + 1 \in 2 .. N
      BY <1>3, <2>1, <2>3
    <3>2. p \in ValueNodes(s.node) /\ v = s.node[p].value
      BY <3>1 DEF IsFile, Entry, N
    <3>3. d[k + 1] = AddNode(d[(k + 1) - 1], p, v)
      BY <1>9, <2>1, <2>3 DEF ReadStep
    <3>4. d[k + 1] = AddNode(u, p, v)
      BY <2>1, <3>3
    <3>5. Healthy(u)
      BY <2>1 DEF Read
    <3>6. p \in Prefixes /\ v \in SUBSET ASes
      BY <3>2, EntryValue, ValueNodeFacts DEF Healthy
    <3> HIDE DEF p, v, u
    <3> DEFINE w == AddNode(u, p, v)
    <3>7. /\ Keeps(u, w) /\ ValueNodes(w.node) = ValueNodes(u.node) \cup {p} /\ SameValues(u, w, p)
          /\ ValueIs(w.node, p, IF p \in ValueNodes(u.node) THEN u.node[p].value ELSE v)
      BY <3>5, <3>6, AddNodeKeeps, AddNodeValues
    <3> HIDE DEF w
    <3>8. Read(u, s) /\ Holds(u, file, k)
      BY <2>1 DEF u
    <3>9. Read(w, s)
      <4>1. \A q \in ValueNodes(w.node) : w.node[q].value = s.node[q].value
        BY <3>2, <3>7, <3>8 DEF Read, SameValues, ValueIs
      <4> QED
        BY <3>2, <3>7, <3>8, <4>1 DEF Read, Keeps
    <3>10. Holds(w, file, k + 1)
      <4>1. \A i \in 2 .. k + 1 : i \in 2 .. k \/ i = k + 1
        OBVIOUS
      <4> QED
        BY <3>7, <3>8, <4>1 DEF Holds, p
    <3> QED
      BY <3>4, <3>9, <3>10 DEF w
  <2> QED
    BY <2>2, <2>3
<1> HIDE DEF T
<1>14. N \in T
  BY <1>1, <1>12, <1>13, SetInduction
<1> QED
  BY <1>1, <1>2, <1>14 DEF T, N

(* What is written: a count and the entries the loop visits.               *)
LEMMA ContentsIs ==
    ASSUME NEW t, Healthy(t)
    PROVE  Contents(t) \in Seq(Nat \cup [prefix : ValueNodes(t.node), value : SUBSET ASes])
           /\ IsFile(Contents(t), t)
           /\ Contents(t)[1] = t.size /\ Len(Contents(t)) = 1 + Len(Forward(t))
           /\ \A k \in 2 .. Len(Contents(t)) : Contents(t)[k].prefix = Forward(t)[k - 1]
<1> DEFINE V == ValueNodes(t.node)
           R == [prefix : V, value : SUBSET ASes]
           order == Forward(t)
           body == [i \in DOMAIN order |-> [prefix |-> order[i], value |-> t.node[order[i]].value]]
           f == Contents(t)
<1>1. order \in Seq(Prefixes) /\ \A i \in 1 .. Len(order) : order[i] \in V
  BY ForwardIs DEF Visits
<1>2. DOMAIN order = 1 .. Len(order) /\ Len(order) \in Nat
  BY <1>1, LenProperties
<1>3. ASSUME NEW q \in V PROVE t.node[q].value \in SUBSET ASes
  BY EntryValue
<1>4. body \in [1 .. Len(order) -> R]
  BY <1>1, <1>2, <1>3
<1>5. t.size \in Nat /\ <<t.size>> \in Seq(Nat \cup R)
  BY HealthyFacts
<1>6. f = <<t.size>> \o body
  BY DEF Contents, WriteOrder
<1> HIDE DEF order, body, f, V
<1>7. body \in Seq(Nat \cup R) /\ DOMAIN body = 1 .. Len(order)
  BY <1>2, <1>4, SeqDef
<1>8. Len(body) = Len(order)
  BY <1>2, <1>7
<1>9. /\ f \in Seq(Nat \cup R) /\ Len(f) = Len(<<t.size>>) + Len(body)
      /\ \A i \in 1 .. Len(<<t.size>>) + Len(body) :
            f[i] = IF i <= Len(<<t.size>>) THEN <<t.size>>[i] ELSE body[i - Len(<<t.size>>)]
  BY <1>5, <1>6, <1>7, ConcatProperties
<1>10. Len(<<t.size>>) = 1
  OBVIOUS
<1>11. f[1] = t.size /\ Len(f) = 1 + Len(order)
  BY <1>2, <1>8, <1>9, <1>10
<1>12. ASSUME NEW k \in 2 .. Len(f) PROVE Entry(f[k], t) /\ f[k].prefix = order[k - 1]
  <2>2. k \in 1 .. 1 + Len(order) /\ ~(k <= 1) /\ k - 1 \in 1 .. Len(order)
    BY <1>2, <1>11
  <2>3. f[k] = body[k - 1]
    BY <1>8, <1>9, <1>10, <2>2
  <2>4. f[k] = [prefix |-> order[k - 1], value |-> t.node[order[k - 1]].value] /\ order[k - 1] \in V
    BY <1>1, <1>2, <2>2, <2>3 DEF body
  <2> QED
    BY <2>4 DEF Entry, V
<1>13. Len(f) \in Nat
  BY <1>2, <1>11
<1>14. IsFile(f, t)
  BY <1>12, <1>13 DEF IsFile
<1> QED
  BY <1>9, <1>11, <1>12, <1>14 DEF f, V, order

(* What reaches the disk of it: still entries of the trie.                 *)
LEMMA WrittenFile ==
    ASSUME NEW t, Healthy(t), NEW n \in 0 .. Len(Contents(t))
    PROVE  IsFile(SubSeq(Contents(t), 1, n), t)
<1> DEFINE f == Contents(t)
           R == Nat \cup [prefix : ValueNodes(t.node), value : SUBSET ASes]
           g == SubSeq(f, 1, n)
<1>1. f \in Seq(R) /\ IsFile(f, t)
  BY ContentsIs
<1> HIDE DEF f, R
<1>2. Len(f) \in Nat /\ n \in Nat /\ n <= Len(f)
  BY <1>1, LenProperties DEF f
<1>3. Len(g) = n /\ \A i \in 1 .. n : g[i] = f[i]
  <2>1. 1 \in 1 .. Len(f) + 1 /\ n \in 1 - 1 .. Len(f)
    BY <1>2
  <2>2. Len(g) = (n - 1) + 1 /\ \A i \in 1 .. (n - 1) + 1 : g[i] = f[(1 + i) - 1]
    BY <1>1, <2>1, SubSeqProperties
  <2> HIDE DEF g
  <2>3. \A i \in 1 .. n : i \in 1 .. (n - 1) + 1 /\ (1 + i) - 1 = i
    BY <1>2
  <2>4. (n - 1) + 1 = n
    BY <1>2
  <2> QED
    BY <2>2, <2>3, <2>4
<1> HIDE DEF g
<1>4. \A k \in 2 .. n : k \in 1 .. n /\ k \in 2 .. Len(f)
  BY <1>2
<1>5. IsFile(g, t)
  BY <1>1, <1>2, <1>3, <1>4 DEF IsFile
<1> QED
  BY <1>5 DEF g, f

(* All six ways to read insert the entries, or leave the object alone.     *)
LEMMA ReadBackIs ==
    ASSUME NEW form \in Forms, NEW t, NEW f
    PROVE  /\ ReadBack(form, t, f).trie = t \/ ReadBack(form, t, f).trie = InsertAll(t, f)
           /\ ReadBack(form, t, f).good => ReadBack(form, t, f).trie = InsertAll(t, f) /\ Whole(f)
<1> DEFINE r == ReadBack(form, t, f)
<1>0. BytesOrFailure(Whole(f), f) > 0 => Whole(f)
  BY DEF BytesOrFailure
<1>1. CASE form = "ostream"
  BY <1>1 DEF ReadBack, ReadIstream
<1>2. CASE form = "descriptor"
  <2> DEFINE good == BytesOrFailure(Whole(f), f) > 0
  <2>1. r = [trie |-> InsertAll(t, f), good |-> good]
    BY <1>2 DEF ReadBack, ReadDescriptor
  <2>2. good => Whole(f)
    BY <1>0
  <2> HIDE DEF good, r
  <2>3. r.trie = InsertAll(t, f) /\ r.good = good
    BY <2>1
  <2> QED
    BY <2>2, <2>3 DEF r
<1>3. CASE form = "FILE"
  <2> DEFINE good == (IF Whole(f) THEN 1 ELSE 0) = 1
  <2>1. r = [trie |-> InsertAll(t, f), good |-> good]
    BY <1>3 DEF ReadBack, ReadFILE
  <2>2. good => Whole(f)
    BY <1>0
  <2> HIDE DEF good, r
  <2>3. r.trie = InsertAll(t, f) /\ r.good = good
    BY <2>1
  <2> QED
    BY <2>2, <2>3 DEF r
<1>4. CASE form = "gz"
  <2> DEFINE good == BytesOrFailure(Whole(f), f) > 0
  <2>1. r = [trie |-> InsertAll(t, f), good |-> good]
    BY <1>4 DEF ReadBack, ReadGZ
  <2>2. good => Whole(f)
    BY <1>0
  <2> HIDE DEF good, r
  <2>3. r.trie = InsertAll(t, f) /\ r.good = good
    BY <2>1
  <2> QED
    BY <2>2, <2>3 DEF r
<1>5. CASE form = "bz2"
  <2> DEFINE good == BytesOrFailure(Whole(f), f) > 0
  <2>1. r = [trie |-> InsertAll(t, f), good |-> good]
    BY <1>5 DEF ReadBack, BZRead
  <2>2. good => Whole(f)
    BY <1>0
  <2> HIDE DEF good, r
  <2>3. r.trie = InsertAll(t, f) /\ r.good = good
    BY <2>1
  <2> QED
    BY <2>2, <2>3 DEF r
<1>6. CASE form = "path"
  BY <1>6 DEF ReadBack, Load, ReadIstream
<1> QED
  BY <1>1, <1>2, <1>3, <1>4, <1>5, <1>6 DEF Forms

-----------------------------------------------------------------------------
(* The inductive invariant.  An object whose nodes were not copied has     *)
(* every _parent; one with copies has the right ones or none.              *)
Object(t, copies) == Healthy(t) /\ (~copies => Parents(t, TRUE)) /\ t.size <= MaxEntries

Results == {"inserted", "present", "erased", "absent", "index", "clear", "copy", "move",
            "aggregate", "reloaded", "unwritten", "unread"}

Objects(tr, co) ==
    /\ DOMAIN tr = Tries
    /\ co \in [Tries -> BOOLEAN]
    /\ \A o \in Tries : Object(tr[o], co[o])

IInv == Objects(trie, copied) /\ ret \in Results

(* An empty object is one.                                                 *)
LEMMA EmptyObject == ASSUME NEW c PROVE Object(EmptyTrie, c)
<1>1. 0 <= MaxEntries
  BY BoundAssumption
<1>2. Healthy(EmptyTrie) /\ Parents(EmptyTrie, TRUE) /\ EmptyTrie.size <= MaxEntries
  BY <1>1, EmptyHealthy
<1> QED
  BY <1>2 DEF Object

(* An operation that adds at most one entry for which there is room.       *)
LEMMA ObjectGrows ==
    ASSUME NEW t, NEW c, Object(t, c), NEW u, NEW p, Keeps(t, u),
           t.size < MaxEntries \/ p \in ValueNodes(t.node),
           u.size = IF p \in ValueNodes(t.node) THEN t.size ELSE t.size + 1
    PROVE  Object(u, c)
<1>1. t.size \in Nat /\ MaxEntries \in Nat
  BY HealthyFacts, BoundAssumption DEF Object
<1>2. u.size <= MaxEntries
  BY <1>1 DEF Object
<1> QED
  BY <1>2 DEF Object, Keeps

(* An operation that adds no entry.                                        *)
LEMMA ObjectShrinks ==
    ASSUME NEW t, NEW c, Object(t, c), NEW u, Shrinks(t, u)
    PROVE  Object(u, c)
<1>1. Healthy(t) /\ Healthy(u) /\ u.size <= t.size /\ t.size <= MaxEntries
  BY DEF Object, Shrinks, Keeps
<1>2. t.size \in Nat /\ u.size \in Nat /\ MaxEntries \in Nat
  BY <1>1, HealthyFacts, BoundAssumption
<1>3. u.size <= MaxEntries
  BY <1>1, <1>2
<1> QED
  BY <1>3 DEF Object, Shrinks, Keeps

(* What the file of an object makes is no larger.                          *)
LEMMA ObjectRead ==
    ASSUME NEW t, NEW c, Object(t, c), NEW u, Read(u, t), NEW cc
    PROVE  Object(u, cc)
<1>1. /\ Healthy(t) /\ Healthy(u) /\ t.size <= MaxEntries
      /\ t.size = Cardinality(ValueNodes(t.node)) /\ u.size = Cardinality(ValueNodes(u.node))
  BY DEF Object, Read, Healthy
<1>2. IsFiniteSet(ValueNodes(t.node)) /\ ValueNodes(u.node) \in SUBSET ValueNodes(t.node)
  BY <1>1, HealthyFacts DEF Read
<1>3. Cardinality(ValueNodes(u.node)) <= Cardinality(ValueNodes(t.node))
  BY <1>2, FS_Subset
<1>4. t.size \in Nat /\ u.size \in Nat /\ MaxEntries \in Nat
  BY <1>1, HealthyFacts, BoundAssumption
<1>5. u.size <= MaxEntries
  BY <1>1, <1>3, <1>4
<1> QED
  BY <1>5 DEF Object, Read

(* An operation on one object.                                             *)
LEMMA OneObject ==
    ASSUME NEW tr, NEW co, Objects(tr, co), NEW o \in Tries, NEW u, NEW c \in BOOLEAN, Object(u, c)
    PROVE  Objects([tr EXCEPT ![o] = u], [co EXCEPT ![o] = c])
<1> DEFINE tr1 == [tr EXCEPT ![o] = u]  co1 == [co EXCEPT ![o] = c]
<1>1. DOMAIN tr1 = Tries /\ co1 \in [Tries -> BOOLEAN]
  BY DEF Objects
<1>2. ASSUME NEW x \in Tries PROVE Object(tr1[x], co1[x])
  <2>1. CASE x = o
    <3>1. tr1[x] = u /\ co1[x] = c
      BY <2>1 DEF Objects
    <3> QED
      BY <3>1
  <2>2. CASE x # o
    <3>1. tr1[x] = tr[x] /\ co1[x] = co[x]
      BY <2>2 DEF Objects
    <3> QED
      BY <3>1 DEF Objects
  <2> QED
    BY <2>1, <2>2
<1> QED
  BY <1>1, <1>2 DEF Objects

(* copied stays what it was.                                               *)
LEMMA SameCopied ==
    ASSUME NEW tr, NEW co, Objects(tr, co), NEW o \in Tries, NEW u, Object(u, co[o])
    PROVE  Objects([tr EXCEPT ![o] = u], co)
<1>1. co[o] \in BOOLEAN /\ [co EXCEPT ![o] = co[o]] = co
  BY DEF Objects
<1>2. Objects([tr EXCEPT ![o] = u], [co EXCEPT ![o] = co[o]])
  BY <1>1, OneObject
<1> QED
  BY <1>1, <1>2

(* The first state.                                                        *)
LEMMA InitObjects == Init => IInv
<1> SUFFICES ASSUME Init PROVE IInv
  OBVIOUS
<1>1. \A o \in Tries : trie[o] = EmptyTrie /\ copied[o] = FALSE
  BY DEF Init
<1>2. \A o \in Tries : Object(trie[o], copied[o])
  BY <1>1, EmptyObject
<1>3. DOMAIN trie = Tries /\ copied \in [Tries -> BOOLEAN] /\ ret \in Results
  BY DEF Init, Results
<1> QED
  BY <1>2, <1>3 DEF IInv, Objects

(* Insert keeps every object.                                              *)
LEMMA InsertObjects ==
    ASSUME IInv, NEW o \in Tries, NEW p \in Prefixes, NEW v \in SUBSET ASes, Insert(o, p, v)
    PROVE  IInv'
<1> DEFINE t == trie[o]
           u == AddNode(t, p, v)
<1>1. Object(t, copied[o])
  BY DEF IInv, Objects
<1>2. Keeps(t, u) /\ u.size = IF p \in ValueNodes(t.node) THEN t.size ELSE t.size + 1
  BY <1>1, AddNodeKeeps DEF Object
<1>3. t.size < MaxEntries \/ p \in ValueNodes(t.node)
  BY DEF Insert, Room
<1>4. trie' = [trie EXCEPT ![o] = u] /\ copied' = copied /\ ret' \in Results
  BY DEF Insert, Results
<1> HIDE DEF u
<1>5. Object(u, copied[o])
  BY <1>1, <1>2, <1>3, ObjectGrows
<1> HIDE DEF t
<1>6. Objects(trie, copied)
  BY DEF IInv
<1>7. Objects([trie EXCEPT ![o] = u], copied)
  BY <1>5, <1>6, SameCopied
<1> QED
  BY <1>4, <1>7 DEF IInv

(* operator[] keeps every object.                                          *)
LEMMA IndexObjects ==
    ASSUME IInv, NEW o \in Tries, NEW p \in Prefixes, NEW as \in ASes, Index(o, p, as)
    PROVE  IInv'
<1> DEFINE t == trie[o]
           v == {as}
           u == AddOrigins(t, p, v)
<1>1. Object(t, copied[o]) /\ v \in SUBSET ASes
  BY DEF IInv, Objects
<1>4. trie' = [trie EXCEPT ![o] = u] /\ copied' = copied /\ ret' \in Results
  BY DEF Index, Results
<1> HIDE DEF v
<1>2. Keeps(t, u) /\ u.size = IF p \in ValueNodes(t.node) THEN t.size ELSE t.size + 1
  BY <1>1, AddOriginsKeeps DEF Object
<1>3. t.size < MaxEntries \/ p \in ValueNodes(t.node)
  BY DEF Index, Room
<1> HIDE DEF u
<1>5. Object(u, copied[o])
  BY <1>1, <1>2, <1>3, ObjectGrows
<1> HIDE DEF t
<1>6. Objects(trie, copied)
  BY DEF IInv
<1>7. Objects([trie EXCEPT ![o] = u], copied)
  BY <1>5, <1>6, SameCopied
<1> QED
  BY <1>4, <1>7 DEF IInv

(* Erase keeps every object.                                               *)
LEMMA EraseObjects ==
    ASSUME IInv, NEW o \in Tries, NEW p \in Prefixes, Erase(o, p)
    PROVE  IInv'
<1> DEFINE t == trie[o]
           u == Remove(t, p)
<1>1. Object(t, copied[o])
  BY DEF IInv, Objects
<1>2. Shrinks(t, u)
  BY <1>1, RemoveShrinks DEF Object
<1>4. trie' = [trie EXCEPT ![o] = u] /\ copied' = copied /\ ret' \in Results
  BY DEF Erase, Results
<1> HIDE DEF u
<1>5. Object(u, copied[o])
  BY <1>1, <1>2, ObjectShrinks
<1> HIDE DEF t
<1>6. Objects(trie, copied)
  BY DEF IInv
<1>7. Objects([trie EXCEPT ![o] = u], copied)
  BY <1>5, <1>6, SameCopied
<1> QED
  BY <1>4, <1>7 DEF IInv

(* Clear keeps every object.                                               *)
LEMMA ClearObjects ==
    ASSUME IInv, NEW o \in Tries, Clear(o)
    PROVE  IInv'
<1>1. Object(trie[o], copied[o])
  BY DEF IInv, Objects
<1>2. Cleared(trie[o]) = EmptyTrie
  BY <1>1, ClearedIs DEF Object
<1>3. trie' = [trie EXCEPT ![o] = EmptyTrie] /\ copied' = [copied EXCEPT ![o] = FALSE] /\ ret' \in Results
  BY <1>2 DEF Clear, Results
<1>4. Objects([trie EXCEPT ![o] = EmptyTrie], [copied EXCEPT ![o] = FALSE])
  BY EmptyObject, OneObject DEF IInv
<1> QED
  BY <1>3, <1>4 DEF IInv

(* Aggregate keeps every object.                                           *)
LEMMA AggregateObjects ==
    ASSUME IInv, NEW o \in Tries, Aggregate(o)
    PROVE  IInv'
<1> DEFINE t == trie[o]
           u == Aggregated(t)
<1>1. Object(t, copied[o])
  BY DEF IInv, Objects
<1>2. Shrinks(t, u)
  BY <1>1, AggregatedIs DEF Object, Condenses
<1>4. trie' = [trie EXCEPT ![o] = u] /\ copied' = copied /\ ret' \in Results
  BY DEF Aggregate, Results
<1> HIDE DEF u
<1>5. Object(u, copied[o])
  BY <1>1, <1>2, ObjectShrinks
<1> HIDE DEF t
<1>6. Objects(trie, copied)
  BY DEF IInv
<1>7. Objects([trie EXCEPT ![o] = u], copied)
  BY <1>5, <1>6, SameCopied
<1> QED
  BY <1>4, <1>7 DEF IInv

(* Copying keeps every object.                                             *)
LEMMA CopyObjects ==
    ASSUME IInv, NEW o \in Tries, NEW src \in Tries, Copy(o, src)
    PROVE  IInv'
<1>1. CASE o = src /\ UNCHANGED <<trie, copied>>
  BY <1>1 DEF IInv, Copy, Results
<1>2. CASE o # src
  <2> DEFINE t == trie[src]
             u == CopyNodes(t)
             c == t.root # Nil
  <2>1. Object(t, copied[src])
    BY DEF IInv, Objects
  <2>2. Healthy(u) /\ u.size = t.size /\ (t.root = Nil => Parents(u, TRUE))
    BY <2>1, CopyHealthy DEF Object
  <2>3. trie' = [trie EXCEPT ![o] = u] /\ copied' = [copied EXCEPT ![o] = c] /\ ret' \in Results
    BY <1>2 DEF Copy, Results
  <2> HIDE DEF u
  <2>4. Object(u, c) /\ c \in BOOLEAN
    BY <2>1, <2>2 DEF Object
  <2> HIDE DEF c
  <2>5. Objects([trie EXCEPT ![o] = u], [copied EXCEPT ![o] = c])
    BY <2>4, OneObject DEF IInv
  <2> QED
    BY <2>3, <2>5 DEF IInv
<1> QED
  BY <1>1, <1>2 DEF Copy

(* Moving keeps every object.                                              *)
LEMMA MoveObjects ==
    ASSUME IInv, NEW o \in Tries, NEW src \in Tries, Move(o, src)
    PROVE  IInv'
<1>1. CASE o = src /\ UNCHANGED <<trie, copied>>
  BY <1>1 DEF IInv, Move, Results
<1>2. CASE o # src
  <2> DEFINE t == trie[src]
             c == copied[src]
             tr == [trie EXCEPT ![o] = t]
             co == [copied EXCEPT ![o] = c]
  <2>1. Object(t, c) /\ c \in BOOLEAN
    BY DEF IInv, Objects
  <2>2. /\ trie' = [tr EXCEPT ![src] = EmptyTrie] /\ copied' = [co EXCEPT ![src] = FALSE]
        /\ ret' \in Results
    BY <1>2 DEF Move, Results
  <2> HIDE DEF t, c
  <2>3. Objects(tr, co)
    BY <2>1, OneObject DEF IInv
  <2> HIDE DEF tr, co
  <2>4. Objects([tr EXCEPT ![src] = EmptyTrie], [co EXCEPT ![src] = FALSE])
    BY <2>3, EmptyObject, OneObject
  <2> QED
    BY <2>2, <2>4 DEF IInv
<1> QED
  BY <1>1, <1>2 DEF Move

(* Writing and reading keep every object.                                  *)
LEMMA ReloadObjects ==
    ASSUME IInv, NEW o \in Tries, NEW src \in Tries, NEW form \in Forms, NEW room \in 0 .. MaxEntries + 1,
           Reload(o, src, form, room)
    PROVE  IInv'
<1> DEFINE s == trie[src]
           t == trie[o]
           f == Contents(s)
           n == IF room < Len(f) THEN room ELSE Len(f)
           file == SubSeq(f, 1, n)
           u == ReadBack(form, t, file).trie
           c == copied[o] /\ u = t
<1>1. Object(s, copied[src]) /\ Object(t, copied[o]) /\ copied[o] \in BOOLEAN
  BY DEF IInv, Objects
<1>2. trie' = [trie EXCEPT ![o] = u] /\ copied' = [copied EXCEPT ![o] = c] /\ ret' \in Results
  BY DEF Reload, Results
<1>3. Healthy(s) /\ Healthy(t)
  BY <1>1 DEF Object
<1>4. n \in 0 .. Len(f)
  <2>1. Len(f) \in Nat
    BY <1>3, ContentsIs, LenProperties
  <2> HIDE DEF f
  <2>2. room \in Nat
    BY BoundAssumption
  <2> QED
    BY <2>1, <2>2
<1> HIDE DEF n
<1>5. IsFile(file, s)
  BY <1>3, <1>4, WrittenFile
<1> HIDE DEF file
<1>7. Read(InsertAll(t, file), s)
  BY <1>3, <1>5, InsertAllIs
<1>8. u = t \/ u = InsertAll(t, file)
  BY ReadBackIs
<1> HIDE DEF u
<1>9. Object(u, c)
  <2>1. CASE u = t
    BY <1>1, <2>1
  <2>2. CASE u = InsertAll(t, file)
    <3>1. Read(u, s)
      BY <1>7, <2>2
    <3> HIDE DEF s, c
    <3> QED
      BY <1>1, <3>1, ObjectRead
  <2> QED
    BY <1>8, <2>1, <2>2
<1>10. c \in BOOLEAN
  OBVIOUS
<1> HIDE DEF c
<1>11. Objects([trie EXCEPT ![o] = u], [copied EXCEPT ![o] = c])
  BY <1>9, <1>10, OneObject DEF IInv
<1> QED
  BY <1>2, <1>11 DEF IInv

(* Every step keeps every object.                                          *)
LEMMA NextObjects == IInv /\ [Next]_trieVars => IInv'
<1> SUFFICES ASSUME IInv, [Next]_trieVars PROVE IInv'
  OBVIOUS
<1>1. CASE UNCHANGED trieVars
  BY <1>1 DEF IInv, trieVars
<1>2. ASSUME NEW o \in Tries, NEW p \in Prefixes, NEW v \in SUBSET ASes \ {{}}, Insert(o, p, v) PROVE IInv'
  <2>1. v \in SUBSET ASes
    OBVIOUS
  <2> QED
    BY <1>2, <2>1, InsertObjects
<1>3. ASSUME NEW o \in Tries, NEW p \in Prefixes, NEW as \in ASes, Index(o, p, as) PROVE IInv'
  BY <1>3, IndexObjects
<1>4. ASSUME NEW o \in Tries, NEW p \in Prefixes, Erase(o, p) PROVE IInv'
  BY <1>4, EraseObjects
<1>5. ASSUME NEW o \in Tries, Clear(o) PROVE IInv'
  BY <1>5, ClearObjects
<1>6. ASSUME NEW o \in Tries, Aggregate(o) PROVE IInv'
  BY <1>6, AggregateObjects
<1>7. ASSUME NEW o \in Tries, NEW src \in Tries, Copy(o, src) PROVE IInv'
  BY <1>7, CopyObjects
<1>8. ASSUME NEW o \in Tries, NEW src \in Tries, Move(o, src) PROVE IInv'
  BY <1>8, MoveObjects
<1>9. ASSUME NEW o \in Tries, NEW src \in Tries, NEW form \in Forms, NEW room \in 0 .. MaxEntries + 1,
             Reload(o, src, form, room)
      PROVE  IInv'
  BY <1>9, ReloadObjects
<1> QED
  BY <1>1, <1>2, <1>3, <1>4, <1>5, <1>6, <1>7, <1>8, <1>9 DEF Next

(* The inductive invariant.                                                *)
LEMMA ObjectsInvariant == Spec => []IInv
BY InitObjects, NextObjects, PTL DEF Spec

-----------------------------------------------------------------------------
(* Every object is made of nodes with prefixes, values and pointers to     *)
(* nodes, and has no more entries than there is room for: what TypeOK      *)
(* says, for any width of the addresses, AS numbers and objects, after any *)
(* calls.                                                                  *)
THEOREM TrieTypeCorrect == Spec => []TypeOK
<1>1. IInv => TypeOK
  <2> SUFFICES ASSUME IInv PROVE TypeOK
    OBVIOUS
  <2>1. ASSUME NEW o \in Tries
        PROVE  /\ trie[o].root \in DOMAIN trie[o].node \cup {Nil}
               /\ DOMAIN trie[o].node \subseteq Prefixes
               /\ \A n \in DOMAIN trie[o].node : trie[o].node[n] \in Node
               /\ trie[o].size \in 0 .. MaxEntries
    <3>1. Object(trie[o], copied[o])
      BY DEF IInv, Objects
    <3>2. Tree(trie[o]) /\ trie[o].size <= MaxEntries
      BY <3>1 DEF Object, Healthy
    <3>3. trie[o].size \in Nat /\ MaxEntries \in Nat
      BY <3>1, HealthyFacts, BoundAssumption DEF Object
    <3>4. trie[o].size \in 0 .. MaxEntries
      BY <3>2, <3>3
    <3> QED
      BY <3>2, <3>4 DEF Tree, Pointers
  <2>2. copied \in [Tries -> BOOLEAN] /\ ret \in Results
    BY DEF IInv, Objects
  <2> QED
    BY <2>1, <2>2 DEF TypeOK, Results
<1> QED
  BY <1>1, ObjectsInvariant, PTL

(* The _parent pointers of an object without copied nodes are the child    *)
(* pointers reversed.                                                      *)
LEMMA ParentsReversed ==
    ASSUME NEW t, Healthy(t), Parents(t, TRUE) PROVE ParentsReverse(t)
<1> SUFFICES ASSUME NEW n \in DOMAIN t.node
             PROVE  IF n = t.root THEN t.node[n].parent = Nil
                    ELSE t.node[n].parent \in DOMAIN t.node /\ IsKid(t.node, n, t.node[n].parent)
  BY DEF ParentsReverse
<1>1. Tree(t) /\ Parents(t, FALSE)
  BY DEF Healthy
<1> DEFINE up == t.node[n].parent
<1>2. (up # Nil => up \in DOMAIN t.node /\ IsKid(t.node, n, up)) /\ (n # t.root => up # Nil)
  BY DEF Parents
<1>3. ASSUME up # Nil PROVE n # t.root
  <2>1. up \in Prefixes /\ n \in Prefixes /\ Len(up) < Len(n) /\ up \in DOMAIN t.node
    BY <1>1, <1>3, ParentFacts
  <2>2. Contains(t.root, up) /\ t.root \in Prefixes
    BY <1>1, <2>1, RootAbove DEF Tree
  <2>3. Len(t.root) <= Len(up) /\ Len(up) \in Nat /\ Len(n) \in Nat /\ Len(t.root) \in Nat
    BY <2>1, <2>2, ContainsLen, PrefixIsSeq
  <2> QED
    BY <2>1, <2>3
<1> QED
  BY <1>2, <1>3

(* Path compression: through insertion, removal with compaction,           *)
(* aggregation, copying, moving and reading, nodes without a value have    *)
(* two children, every child extends its node by the bit it hangs on, and  *)
(* nothing is lost from the root. _parent reverses the children in every   *)
(* object that has no copied nodes.                                        *)
THEOREM TrieWellFormed == Spec => []WellFormed
<1>1. IInv => WellFormed
  <2> SUFFICES ASSUME IInv, NEW o \in Tries
               PROVE  /\ KidsExtend(trie[o]) /\ AllHang(trie[o])
                      /\ ~copied[o] => ParentsReverse(trie[o])
    BY DEF WellFormed
  <2>1. Object(trie[o], copied[o])
    BY DEF IInv, Objects
  <2>2. Healthy(trie[o]) /\ Tree(trie[o])
    BY <2>1 DEF Object, Healthy
  <2> QED
    BY <2>1, <2>2, ParentsReversed DEF Object, Tree
<1> QED
  BY <1>1, ObjectsInvariant, PTL

(* _size, which each operation adjusts on its own, is the number of        *)
(* entries.                                                                *)
THEOREM SizeIsExact == Spec => []SizeCountsEntries
<1>1. IInv => SizeCountsEntries
  BY DEF IInv, Objects, Object, Healthy, SizeCountsEntries
<1> QED
  BY <1>1, ObjectsInvariant, PTL

(* find_matches, find_wider, find and find_longest answer from one path    *)
(* through the trie what a search of all the entries would.                *)
THEOREM LookupsFindAll == Spec => []LookupsAgree
<1>1. IInv => LookupsAgree
  <2> SUFFICES ASSUME IInv, NEW o \in Tries, NEW p \in Prefixes
               PROVE  LET covering == {q \in ValueNodes(trie[o].node) : Contains(q, p)}
                          longest  == FindLongest(trie[o], p)
                      IN  /\ Sorts(FindMatches(trie[o], p), covering)
                          /\ Sorts(FindWider(trie[o], p), covering \ {p})
                          /\ Find(trie[o], p) = IF p \in covering THEN p ELSE Nil
                          /\ IF covering = {} THEN longest = Nil
                             ELSE longest \in covering /\ \A q \in covering : Len(q) <= Len(longest)
    BY DEF LookupsAgree
  <2> DEFINE t == trie[o]
  <2>1. Tree(t)
    BY DEF IInv, Objects, Object, Healthy
  <2> HIDE DEF t
  <2>2. LET covering == {q \in ValueNodes(t.node) : Contains(q, p)}
            longest  == FindLongest(t, p)
        IN  /\ Sorts(FindMatches(t, p), covering)
            /\ Sorts(FindWider(t, p), covering \ {p})
            /\ Find(t, p) = IF p \in covering THEN p ELSE Nil
            /\ IF covering = {} THEN longest = Nil
               ELSE longest \in covering /\ \A q \in covering : Len(q) <= Len(longest)
    BY <2>1, LookupsOf
  <2> QED
    BY <2>2 DEF t
<1> QED
  BY <1>1, ObjectsInvariant, PTL

-----------------------------------------------------------------------------
(* The loop backwards.                                                     *)
LEMMA LastUnfolds ==
    ASSUME NEW t, Tree(t)
    PROVE  \A n \in Pointers(t.node) :
              LastValueNode(t.node, n) =
                  IF n = Nil THEN Nil
                  ELSE IF LastValueNode(t.node, t.node[n].kids[1]) # Nil
                  THEN LastValueNode(t.node, t.node[n].kids[1])
                  ELSE IF LastValueNode(t.node, t.node[n].kids[0]) # Nil
                  THEN LastValueNode(t.node, t.node[n].kids[0])
                  ELSE IF HasValue(t.node, n) THEN n ELSE Nil
<1> DEFINE h == t.node
           S == Pointers(h)
           m == Below(h)
           N == Width + 2
           E(f) == [n \in S |-> LastStep(h, f, n)]
           d == CHOOSE f : f = E(f)
<1>1. m \in [S -> Nat] /\ \A n \in S : m[n] < N
  BY BelowIsMeasure
<1>2. N \in Nat
  BY TrieAssumption
<1>3. ASSUME NEW n \in S, n # Nil, NEW b \in {0, 1}
      PROVE  h[n].kids[b] \in S /\ m[h[n].kids[b]] < m[n]
  <2>1. n \in DOMAIN h
    BY <1>3 DEF Pointers
  <2> QED
    BY <2>1, KidFacts, BelowIsMeasure
<1> HIDE DEF m, N, h
<1>4. \A f, x : Step("last", h, h, h, f, x) = LastStep(h, f, x)
  BY DEF Step
<1>5. Local("last", h, h, h, S, m)
  BY <1>3, <1>4 DEF Local, LastStep
<1>6. \E f : Follows("last", h, h, h, S, f)
  BY <1>1, <1>2, <1>5, Recursion
<1>7. \E f : f = E(f)
  BY <1>4, <1>6 DEF Follows
<1>8. d = E(d)
  BY <1>7
<1>9. \A n : LastValueNode(h, n) = d[n]
  BY DEF LastValueNode, LastStep
<1>10. \A n \in S : d[n] = LastStep(h, d, n)
  BY <1>8
<1> HIDE DEF d
<1> QED
  BY <1>9, <1>10 DEF h, LastStep

(* The last of the entries at n or below.                                  *)
IsLastBelow(h, n, s) ==
    /\ s \in ValueNodes(h) /\ Contains(n, s)
    /\ \A q \in ValueNodes(h) : Contains(n, q) => q = s \/ Precedes(q, s)

(* An entry at n, or below the child it hangs on.                          *)
LEMMA BelowSide ==
    ASSUME NEW t, Tree(t), NEW n \in DOMAIN t.node, NEW q \in ValueNodes(t.node), Contains(n, q), q # n
    PROVE  /\ q \in Prefixes /\ n \in Prefixes /\ Len(n) < Len(q) /\ Bit(q, Len(n)) \in {0, 1}
           /\ t.node[n].kids[Bit(q, Len(n))] # Nil
           /\ Contains(t.node[n].kids[Bit(q, Len(n))], q)
           /\ Precedes(n, q)
<1>1. q \in DOMAIN t.node /\ q \in Prefixes /\ n \in Prefixes
  BY ValueNodeFacts DEF Tree
<1>2. Len(n) < Len(q)
  BY <1>1, ContainsLen
<1>3. Bit(q, Len(n)) \in {0, 1}
  BY <1>1, <1>2, SideBit
<1>4. Precedes(n, q)
  BY <1>1, PrecedesBits
<1>5. t.node[n].kids[Bit(q, Len(n))] # Nil /\ Contains(t.node[n].kids[Bit(q, Len(n))], q)
  BY <1>1, Through
<1> QED
  BY <1>1, <1>2, <1>3, <1>4, <1>5

(* The last entry below a child is below the node.                         *)
LEMMA KidLast ==
    ASSUME NEW t, Tree(t), NEW n \in DOMAIN t.node, NEW b \in {0, 1}, t.node[n].kids[b] # Nil,
           NEW s, IsLastBelow(t.node, t.node[n].kids[b], s)
    PROVE  /\ s \in ValueNodes(t.node) /\ s \in Prefixes /\ s # Nil /\ n \in Prefixes
           /\ Contains(n, s) /\ Len(n) < Len(s) /\ Bit(s, Len(n)) = b /\ Precedes(n, s)
<1> DEFINE kid == t.node[n].kids[b]
<1>1. /\ n \in Prefixes /\ kid # Nil /\ kid \in Prefixes
      /\ Contains(n, kid) /\ Len(n) < Len(kid) /\ Bit(kid, Len(n)) = b
  BY KidFacts
<1>2. s \in ValueNodes(t.node) /\ Contains(kid, s)
  BY DEF IsLastBelow
<1> HIDE DEF kid
<1>3. s \in Prefixes /\ s # Nil
  BY <1>2, ValueNodeFacts
<1>4. Contains(n, s) /\ Bit(s, Len(n)) = b
  BY <1>1, <1>2, <1>3, ContainsTransitive, SideBitBelow
<1>5. Len(n) < Len(s)
  <2>1. Len(kid) <= Len(s) /\ Len(kid) \in Nat /\ Len(s) \in Nat /\ Len(n) \in Nat
    BY <1>1, <1>2, <1>3, ContainsLen, PrefixIsSeq
  <2> QED
    BY <2>1, <1>1
<1>6. n # s
  BY <1>1, <1>3, <1>5, PrefixIsSeq
<1>7. Precedes(n, s)
  BY <1>1, <1>3, <1>4, <1>6, PrecedesBits
<1> QED
  BY <1>1, <1>2, <1>3, <1>4, <1>5, <1>7

(* lastValueNode finds the last of the entries at a node or below it.      *)
LEMMA LastIs ==
    ASSUME NEW t, Tree(t), NEW n \in Pointers(t.node)
    PROVE  IF n = Nil THEN LastValueNode(t.node, n) = Nil
           ELSE LastValueNode(t.node, n) # Nil /\ IsLastBelow(t.node, n, LastValueNode(t.node, n))
<1> DEFINE h == t.node
           S == Pointers(h)
           last(x) == LastValueNode(h, x)
           Good(x) == IF x = Nil THEN last(x) = Nil ELSE last(x) # Nil /\ IsLastBelow(h, x, last(x))
           T == {x \in S : Good(x)}
           m == Below(h)
<1>1. m \in [S -> Nat]
  BY BelowIsMeasure
<1>2. \A x \in S : last(x) = IF x = Nil THEN Nil
                             ELSE IF last(h[x].kids[1]) # Nil THEN last(h[x].kids[1])
                             ELSE IF last(h[x].kids[0]) # Nil THEN last(h[x].kids[0])
                             ELSE IF HasValue(h, x) THEN x ELSE Nil
  BY LastUnfolds
<1>3. ASSUME NEW x \in S, \A y \in S : m[y] < m[x] => y \in T PROVE Good(x)
  <2>1. CASE x = Nil
    BY <1>2, <2>1
  <2>2. CASE x # Nil
    <3> DEFINE kid(b) == h[x].kids[b]
    <3>1. x \in DOMAIN h /\ x \in Prefixes
      BY <2>2 DEF Pointers, Tree
    <3>2. \A b \in {0, 1} : kid(b) \in S /\ m[kid(b)] < m[x] /\ (kid(b) = Nil => HasValue(h, x))
      BY <3>1, KidFacts, BelowIsMeasure
    <3> HIDE DEF last
    <3>3. \A b \in {0, 1} : Good(kid(b))
      BY <1>3, <3>2
    <3>4. ASSUME NEW b \in {0, 1}, kid(b) # Nil, NEW s, s = last(kid(b)), b = 1 \/ kid(1) = Nil
          PROVE  s # Nil /\ IsLastBelow(h, x, s)
      <4>1. s # Nil /\ IsLastBelow(h, kid(b), s)
        BY <3>3, <3>4
      <4>2. s \in ValueNodes(h) /\ s \in Prefixes /\ Contains(x, s) /\ Len(x) < Len(s)
            /\ Bit(s, Len(x)) = b /\ Precedes(x, s)
        BY <3>1, <3>4, <4>1, KidLast
      <4>3. ASSUME NEW q \in ValueNodes(h), Contains(x, q) PROVE q = s \/ Precedes(q, s)
        <5>1. CASE q = x
          BY <4>2, <5>1
        <5>2. CASE q # x
          <6>1. /\ q \in Prefixes /\ Len(x) < Len(q) /\ Bit(q, Len(x)) \in {0, 1}
                /\ kid(Bit(q, Len(x))) # Nil /\ Contains(kid(Bit(q, Len(x))), q)
            BY <3>1, <4>3, <5>2, BelowSide
          <6>2. CASE Bit(q, Len(x)) = b
            BY <4>1, <6>1, <6>2 DEF IsLastBelow
          <6>3. CASE Bit(q, Len(x)) # b
            <7>1. Bit(q, Len(x)) = 0 /\ b = 1
              BY <3>4, <6>1, <6>3
            <7> QED
              BY <3>1, <4>2, <4>3, <6>1, <7>1, LeftPrecedesRight
          <6> QED
            BY <6>2, <6>3
        <5> QED
          BY <5>1, <5>2
      <4> QED
        BY <4>1, <4>2, <4>3 DEF IsLastBelow
    <3>5. CASE kid(1) # Nil
      BY <1>2, <2>2, <3>3, <3>4, <3>5
    <3>6. CASE kid(1) = Nil /\ kid(0) # Nil
      BY <1>2, <2>2, <3>3, <3>4, <3>6
    <3>7. CASE kid(1) = Nil /\ kid(0) = Nil
      <4>1. HasValue(h, x) /\ x \in ValueNodes(h)
        BY <3>1, <3>2, <3>7 DEF ValueNodes
      <4>2. last(kid(1)) = Nil /\ last(kid(0)) = Nil
        BY <3>3, <3>7
      <4>3. last(x) = x
        BY <1>2, <2>2, <4>1, <4>2
      <4>4. \A q \in ValueNodes(h) : Contains(x, q) => q = x
        BY <3>1, <3>7, BelowSide
      <4>5. IsLastBelow(h, x, x)
        BY <3>1, <4>1, <4>4, ContainsReflexive DEF IsLastBelow
      <4> QED
        BY <2>2, <4>3, <4>5
    <3> QED
      BY <3>5, <3>6, <3>7
  <2> QED
    BY <2>1, <2>2
<1>4. \A x \in S : (\A y \in S : m[y] < m[x] => y \in T) => x \in T
  BY <1>3
<1> HIDE DEF T, m
<1>5. S \subseteq T
  BY <1>1, <1>4, MeasureInduction
<1> QED
  BY <1>5 DEF T

(* operator-- climbs as it does from the parent.                           *)
LEMMA BeforeUnfolds ==
    ASSUME NEW t, Tree(t), Parents(t, FALSE)
    PROVE  \A n \in DOMAIN t.node : LET up == t.node[n].parent IN
              Predecessor(t.node, n) =
                  IF up = Nil THEN Nil
                  ELSE IF t.node[up].kids[1] = n /\ t.node[up].kids[0] # Nil
                  THEN LastValueNode(t.node, t.node[up].kids[0])
                  ELSE IF HasValue(t.node, up) THEN up ELSE Predecessor(t.node, up)
<1> DEFINE h == t.node
           S == DOMAIN h
           m == [n \in S |-> Len(n)]
           N == Width + 1
           E(f) == [n \in S |-> BeforeStep(h, f, n)]
           d == CHOOSE f : f = E(f)
<1>1. m \in [S -> Nat] /\ (\A n \in S : m[n] < N) /\ N \in Nat
  <2>1. Width \in Nat /\ \A n \in S : Len(n) \in Nat /\ Len(n) <= Width
    BY PrefixIsSeq, TrieAssumption DEF Tree
  <2> QED
    BY <2>1
<1>2. \A n \in S : h[n].parent # Nil => h[n].parent \in S /\ m[h[n].parent] < m[n]
  BY ParentFacts
<1> HIDE DEF m, N, h
<1>4. \A f, x : Step("before", h, h, h, f, x) = BeforeStep(h, f, x)
  BY DEF Step
<1>5. Local("before", h, h, h, S, m)
  BY <1>2, <1>4 DEF Local, BeforeStep
<1>6. \E f : Follows("before", h, h, h, S, f)
  BY <1>1, <1>5, Recursion
<1>7. \E f : f = E(f)
  BY <1>4, <1>6 DEF Follows
<1>8. d = E(d)
  BY <1>7
<1>9. \A n : Predecessor(h, n) = d[n]
  BY DEF Predecessor, BeforeStep
<1>10. \A n \in S : d[n] = BeforeStep(h, d, n)
  BY <1>8
<1> HIDE DEF d
<1> QED
  BY <1>9, <1>10 DEF h, BeforeStep

(* s is the last of the entries before n; Nil if there is none.            *)
IsPrevious(h, n, s) ==
    /\ s # Nil => s \in ValueNodes(h) /\ Precedes(s, n)
    /\ \A q \in ValueNodes(h) : Precedes(q, n) => s # Nil /\ (q = s \/ Precedes(q, s))

(* What is before a node is before its parent, or the parent, or below the *)
(* other child.                                                            *)
LEMMA BeforeKid ==
    ASSUME NEW t, Tree(t), NEW up \in DOMAIN t.node, NEW x \in DOMAIN t.node, NEW b \in {0, 1},
           KidAt(t.node, up, b, x), NEW q \in ValueNodes(t.node), Precedes(q, x)
    PROVE  \/ q = up
           \/ Precedes(q, up)
           \/ b = 1 /\ t.node[up].kids[0] # Nil /\ Contains(t.node[up].kids[0], q)
<1> DEFINE h == t.node
<1>1. h[up].kids[b] = x /\ x # Nil
  BY NilIsNoPrefix DEF KidAt, Tree
<1>2. up \in Prefixes /\ x \in Prefixes /\ Contains(up, x) /\ Len(up) < Len(x) /\ Bit(x, Len(up)) = b
  BY <1>1, KidFacts
<1>3. q \in Prefixes /\ q \in DOMAIN h
  BY ValueNodeFacts
<1>4. ~Precedes(x, q) /\ q # x
  BY <1>2, <1>3, PrecedesAsymmetric
<1>5. CASE Contains(up, q) /\ q # up
  <2>1. /\ Len(up) < Len(q) /\ Bit(q, Len(up)) \in {0, 1}
        /\ h[up].kids[Bit(q, Len(up))] # Nil /\ Contains(h[up].kids[Bit(q, Len(up))], q)
    BY <1>5, BelowSide
  <2>2. Bit(q, Len(up)) # b
    <3>1. ASSUME Contains(x, q) PROVE FALSE
      BY <1>2, <1>3, <1>4, <3>1, PrecedesBits
    <3> QED
      BY <1>1, <2>1, <3>1
  <2>3. ~(b = 0 /\ Bit(q, Len(up)) = 1)
    BY <1>2, <1>3, <1>4, <1>5, <2>1, LeftPrecedesRight
  <2>4. b = 1 /\ Bit(q, Len(up)) = 0
    BY <2>1, <2>2, <2>3
  <2> QED
    BY <2>1, <2>4
<1>6. CASE ~Contains(up, q)
  <2>1. ASSUME Precedes(up, q) PROVE FALSE
    BY <1>2, <1>3, <1>4, <1>6, <2>1, PrecedesBelow, ContainsReflexive
  <2>2. q # up
    BY <1>2, <1>6, ContainsReflexive
  <2> QED
    BY <1>2, <1>3, <2>1, <2>2, PrecedesTotal
<1> QED
  BY <1>5, <1>6

(* operator-- goes to the entry before.                                    *)
LEMMA PredecessorIs ==
    ASSUME NEW t, Tree(t), Parents(t, FALSE), Parents(t, TRUE), NEW n \in DOMAIN t.node
    PROVE  IsPrevious(t.node, n, Predecessor(t.node, n))
<1> DEFINE h == t.node
           S == DOMAIN h
           before(x) == Predecessor(h, x)
           T == {x \in S : IsPrevious(h, x, before(x))}
           m == [x \in S |-> Len(x)]
<1>1. m \in [S -> Nat]
  BY PrefixIsSeq DEF Tree
<1>2. ASSUME NEW x \in S, \A y \in S : m[y] < m[x] => y \in T PROVE IsPrevious(h, x, before(x))
  <2> DEFINE up == h[x].parent
             left == h[up].kids[0]
  <2>1. before(x) = IF up = Nil THEN Nil
                    ELSE IF h[up].kids[1] = x /\ left # Nil THEN LastValueNode(h, left)
                    ELSE IF HasValue(h, up) THEN up ELSE before(up)
    BY BeforeUnfolds
  <2>2. CASE up = Nil
    <3>1. before(x) = Nil
      BY <2>1, <2>2
    <3>2. x = t.root
      BY <2>2 DEF Parents
    <3>3. ASSUME NEW q \in ValueNodes(h) PROVE ~Precedes(q, x)
      <4>1. q \in Prefixes /\ q \in DOMAIN h /\ x \in Prefixes
        BY ValueNodeFacts DEF Tree
      <4>2. Contains(x, q)
        BY <3>2, <4>1, RootAbove
      <4>3. x = q \/ Precedes(x, q)
        BY <4>1, <4>2, PrecedesBits
      <4> QED
        BY <4>1, <4>3, PrecedesAsymmetric, PrecedesIrreflexive
    <3> HIDE DEF before
    <3> QED
      BY <3>1, <3>3 DEF IsPrevious
  <2>3. CASE up # Nil
    <3>1. PICK b \in {0, 1} :
              /\ up \in S /\ up \in Prefixes /\ x \in Prefixes /\ x # Nil
              /\ h[up].kids[b] = x
              /\ Contains(up, x) /\ Len(up) < Len(x) /\ Bit(x, Len(up)) = b
      BY <2>3, ParentFacts
    <3>2. m[up] < m[x]
      BY <3>1
    <3> HIDE DEF T
    <3>3. up \in T
      BY <1>2, <3>1, <3>2
    <3>4. IsPrevious(h, up, before(up))
      BY <3>3 DEF T
    <3>5. h[up].kids[1] = x <=> b = 1
      <4>1. h[up].kids[1] = x => b = 1
        BY <3>1, KidFacts
      <4> QED
        BY <3>1, <4>1
    <3>6. Precedes(up, x)
      BY <3>1, PrecedesBits
    <3>7. KidAt(h, up, b, x)
      BY <3>1 DEF KidAt
    <3> HIDE DEF up
    <3>8. ASSUME NEW q \in ValueNodes(h), Precedes(q, x)
          PROVE  q = up \/ Precedes(q, up) \/ (b = 1 /\ left # Nil /\ Contains(left, q))
      BY <3>1, <3>7, <3>8, BeforeKid
    <3>9. CASE b = 1 /\ left # Nil
      <4> DEFINE s == LastValueNode(h, left)
      <4>1. left \in Pointers(h)
        BY <3>1, KidFacts
      <4>2. s # Nil /\ IsLastBelow(h, left, s)
        BY <3>9, <4>1, LastIs
      <4>3. before(x) = s
        BY <2>1, <2>3, <3>5, <3>9 DEF up
      <4> HIDE DEF s, before
      <4>4. /\ s \in ValueNodes(h) /\ s \in Prefixes
            /\ Contains(up, s) /\ Len(up) < Len(s) /\ Bit(s, Len(up)) = 0 /\ Precedes(up, s)
        BY <3>1, <3>9, <4>2, KidLast
      <4>5. Precedes(s, x)
        BY <3>1, <3>9, <4>4, LeftPrecedesRight
      <4>6. ASSUME NEW q \in ValueNodes(h), Precedes(q, x) PROVE q = s \/ Precedes(q, s)
        <5>1. q \in Prefixes
          BY ValueNodeFacts
        <5>2. CASE q = up
          BY <4>4, <5>2
        <5>3. CASE Precedes(q, up)
          BY <3>1, <4>4, <5>1, <5>3, PrecedesTransitive
        <5>4. CASE Contains(left, q)
          BY <4>2, <5>4 DEF IsLastBelow
        <5> QED
          BY <3>8, <4>6, <5>2, <5>3, <5>4
      <4> QED
        BY <4>2, <4>3, <4>4, <4>5, <4>6 DEF IsPrevious
    <3>10. CASE ~(b = 1 /\ left # Nil) /\ HasValue(h, up)
      <4>1. before(x) = up
        BY <2>1, <2>3, <3>5, <3>10 DEF up
      <4>2. up \in ValueNodes(h) /\ up # Nil
        BY <2>3, <3>1, <3>10 DEF ValueNodes, up
      <4> HIDE DEF before
      <4> QED
        BY <3>6, <3>8, <3>10, <4>1, <4>2 DEF IsPrevious
    <3>11. CASE ~(b = 1 /\ left # Nil) /\ ~HasValue(h, up)
      <4>1. before(x) = before(up)
        BY <2>1, <2>3, <3>5, <3>11 DEF up
      <4>2. up \notin ValueNodes(h)
        BY <3>11 DEF ValueNodes
      <4> DEFINE s == before(up)
      <4>3. IsPrevious(h, up, s) /\ before(x) = s
        BY <3>4, <4>1
      <4> HIDE DEF s, before, left
      <4>4. ASSUME s # Nil PROVE s \in ValueNodes(h) /\ Precedes(s, x)
        <5>1. s \in ValueNodes(h) /\ Precedes(s, up) /\ s \in Prefixes
          BY <4>3, <4>4, ValueNodeFacts DEF IsPrevious
        <5> QED
          BY <3>1, <3>6, <5>1, PrecedesTransitive
      <4>5. ASSUME NEW q \in ValueNodes(h), Precedes(q, x) PROVE s # Nil /\ (q = s \/ Precedes(q, s))
        <5>1. Precedes(q, up)
          BY <3>8, <3>11, <4>2, <4>5
        <5> QED
          BY <4>3, <5>1 DEF IsPrevious
      <4> QED
        BY <4>3, <4>4, <4>5 DEF IsPrevious
    <3> QED
      BY <3>9, <3>10, <3>11
  <2> QED
    BY <2>2, <2>3
<1>3. \A x \in S : (\A y \in S : m[y] < m[x] => y \in T) => x \in T
  BY <1>2
<1> HIDE DEF T, m
<1>4. S \subseteq T
  BY <1>1, <1>3, MeasureInduction
<1> QED
  BY <1>4 DEF T

(* Walks backwards end: the entries before a node get fewer.               *)
Earlier(h, n) == {q \in ValueNodes(h) : Precedes(q, n)}
BackRank(h) == [n \in Pointers(h) |-> IF n = Nil THEN 0 ELSE Cardinality(Earlier(h, n)) + 1]

(* operator-- gets closer to the beginning.                                *)
LEMMA BackRankIs ==
    ASSUME NEW t, Healthy(t), Parents(t, TRUE)
    PROVE  /\ BackRank(t.node) \in [Pointers(t.node) -> Nat]
           /\ Cardinality(ValueNodes(t.node)) + 2 \in Nat
           /\ \A n \in Pointers(t.node) : BackRank(t.node)[n] < Cardinality(ValueNodes(t.node)) + 2
           /\ \A n \in DOMAIN t.node : /\ Predecessor(t.node, n) \in Pointers(t.node)
                                       /\ BackRank(t.node)[Predecessor(t.node, n)] < BackRank(t.node)[n]
<1> DEFINE h == t.node
           N == Cardinality(ValueNodes(h))
<1>1. IsFiniteSet(ValueNodes(h)) /\ N \in Nat
  BY HealthyFacts
<1>2. Tree(t) /\ Parents(t, FALSE)
  BY DEF Healthy
<1>3. ASSUME NEW n \in Pointers(h), n # Nil
      PROVE  IsFiniteSet(Earlier(h, n)) /\ Cardinality(Earlier(h, n)) \in Nat /\ Cardinality(Earlier(h, n)) <= N
  <2>1. Earlier(h, n) \in SUBSET ValueNodes(h)
    BY DEF Earlier
  <2>2. IsFiniteSet(Earlier(h, n)) /\ Cardinality(Earlier(h, n)) <= N
    BY <1>1, <2>1, FS_Subset
  <2> QED
    BY <2>2, FS_CardinalityType
<1>4. \A n \in Pointers(h) : BackRank(h)[n] = IF n = Nil THEN 0 ELSE Cardinality(Earlier(h, n)) + 1
  BY DEF BackRank
<1>5. ASSUME NEW n \in Pointers(h) PROVE BackRank(h)[n] \in Nat /\ BackRank(h)[n] < N + 2
  BY <1>1, <1>3, <1>4
<1>6. ASSUME NEW n \in DOMAIN h
      PROVE  Predecessor(h, n) \in Pointers(h) /\ BackRank(h)[Predecessor(h, n)] < BackRank(h)[n]
  <2> DEFINE s == Predecessor(h, n)
  <2>0. IsPrevious(h, n, s)
    BY <1>2, PredecessorIs
  <2> HIDE DEF s
  <2>1. s # Nil => s \in ValueNodes(h) /\ Precedes(s, n)
    BY <2>0 DEF IsPrevious
  <2>2. n \in Pointers(h) /\ n # Nil /\ n \in Prefixes
    BY <1>2, NilIsNoPrefix DEF Pointers, Tree
  <2>3. s \in Pointers(h)
    BY <2>1 DEF Pointers, ValueNodes
  <2>4. CASE s = Nil
    <3>1. BackRank(h)[s] = 0 /\ BackRank(h)[n] = Cardinality(Earlier(h, n)) + 1 /\ Cardinality(Earlier(h, n)) \in Nat
      BY <1>3, <1>4, <2>2, <2>3, <2>4
    <3> QED
      BY <2>3, <3>1 DEF s
  <2>5. CASE s # Nil
    <3>1. s \in Prefixes /\ s \in Earlier(h, n) /\ s \notin Earlier(h, s)
      BY <1>2, <2>1, <2>5, ValueNodeFacts, PrecedesIrreflexive DEF Earlier
    <3>2. Earlier(h, s) \subseteq Earlier(h, n)
      BY <1>2, <2>1, <2>2, <2>5, <3>1, ValueNodeFacts, PrecedesTransitive DEF Earlier
    <3>3. Earlier(h, s) \in SUBSET Earlier(h, n) /\ Earlier(h, n) # Earlier(h, s)
      BY <3>1, <3>2
    <3>4. IsFiniteSet(Earlier(h, n))
      BY <1>3, <2>2
    <3>5. /\ Cardinality(Earlier(h, s)) <= Cardinality(Earlier(h, n))
          /\ Cardinality(Earlier(h, n)) # Cardinality(Earlier(h, s))
      BY <3>3, <3>4, FS_Subset
    <3>6. Cardinality(Earlier(h, s)) \in Nat /\ Cardinality(Earlier(h, n)) \in Nat
      BY <1>3, <2>2, <2>3, <2>5
    <3>7. Cardinality(Earlier(h, s)) + 1 < Cardinality(Earlier(h, n)) + 1
      BY <3>5, <3>6
    <3> QED
      BY <1>4, <2>2, <2>3, <2>5, <3>7 DEF s
  <2> QED
    BY <2>4, <2>5
<1>7. DOMAIN BackRank(h) = Pointers(h)
  BY DEF BackRank
<1>8. BackRank(h) \in [Pointers(h) -> Nat]
  BY <1>5, <1>7 DEF BackRank
<1>9. N + 2 \in Nat
  BY <1>1
<1> QED
  BY <1>5, <1>6, <1>8, <1>9

(* The loop backwards goes on as it does from the entry before.            *)
LEMMA BackFromUnfolds ==
    ASSUME NEW t, Healthy(t), Parents(t, TRUE)
    PROVE  \A n \in Pointers(t.node) :
              BackFrom(t.node, n) = IF n = Nil THEN <<>> ELSE <<n>> \o BackFrom(t.node, Predecessor(t.node, n))
<1> DEFINE h == t.node
           S == Pointers(h)
           m == BackRank(h)
           N == Cardinality(ValueNodes(h)) + 2
           E(f) == [n \in S |-> BackStep(h, f, n)]
           d == CHOOSE f : f = E(f)
<1>1. m \in [S -> Nat] /\ (\A n \in S : m[n] < N) /\ N \in Nat
  BY BackRankIs
<1>2. ASSUME NEW n \in S, n # Nil PROVE Predecessor(h, n) \in S /\ m[Predecessor(h, n)] < m[n]
  BY <1>2, BackRankIs DEF Pointers
<1> HIDE DEF m, N, h
<1>4. \A f, x : Step("back", h, h, h, f, x) = BackStep(h, f, x)
  BY DEF Step
<1>5. Local("back", h, h, h, S, m)
  <2> SUFFICES ASSUME NEW f, NEW g, NEW x \in S, \A y \in S : m[y] < m[x] => f[y] = g[y]
               PROVE  Step("back", h, h, h, f, x) = Step("back", h, h, h, g, x)
    BY DEF Local
  <2>1. x # Nil => f[Predecessor(h, x)] = g[Predecessor(h, x)]
    BY <1>2
  <2>2. BackStep(h, f, x) = BackStep(h, g, x)
    BY <2>1 DEF BackStep
  <2> QED
    BY <1>4, <2>2
<1>6. \E f : Follows("back", h, h, h, S, f)
  BY <1>1, <1>5, Recursion
<1>7. \E f : f = E(f)
  BY <1>4, <1>6 DEF Follows
<1>8. d = E(d)
  BY <1>7
<1>9. \A n : BackFrom(h, n) = d[n]
  BY DEF BackFrom, BackStep
<1>10. \A n \in S : d[n] = BackStep(h, d, n)
  BY <1>8
<1> HIDE DEF d
<1> QED
  BY <1>9, <1>10 DEF h, BackStep

(* s holds prefixes in the reverse order, and they are those of S.         *)
Descending(s, S) ==
    /\ s \in Seq(Prefixes)
    /\ \A q : q \in S <=> \E i \in 1 .. Len(s) : s[i] = q
    /\ \A i, j \in 1 .. Len(s) : i < j => Precedes(s[j], s[i])

(* No entries, in the reverse order.                                       *)
LEMMA DescendingEmpty == Descending(<<>>, {})
BY DEF Descending

(* The last one before the others, in the reverse order.                   *)
LEMMA DescendingPrepend ==
    ASSUME NEW n \in Prefixes, NEW s, NEW S, Descending(s, S), \A q \in S : Precedes(q, n)
    PROVE  Descending(<<n>> \o s, {n} \cup S)
<1> DEFINE u == <<n>> \o s
<1>1. s \in Seq(Prefixes) /\ Len(s) \in Nat
  BY DEF Descending
<1>2. u \in Seq(Prefixes) /\ Len(u) = Len(s) + 1 /\ u[1] = n /\ \A i \in 1 .. Len(s) : u[i + 1] = s[i]
  BY <1>1, Prepended
<1> HIDE DEF u
<1>3. 1 \in 1 .. Len(u) /\ \A i \in 1 .. Len(s) : i + 1 \in 1 .. Len(u)
  BY <1>1, <1>2
<1>4. ASSUME NEW i \in 1 .. Len(u), i # 1 PROVE i - 1 \in 1 .. Len(s) /\ u[i] = s[i - 1]
  <2>1. i - 1 \in 1 .. Len(s) /\ (i - 1) + 1 = i
    BY <1>1, <1>2, <1>4
  <2> QED
    BY <1>2, <2>1
<1>5. ASSUME NEW i \in 1 .. Len(s) PROVE s[i] \in S
  BY <1>5 DEF Descending
<1>6. \A q : q \in {n} \cup S <=> \E i \in 1 .. Len(u) : u[i] = q
  <2>1. ASSUME NEW q, q \in S PROVE \E i \in 1 .. Len(u) : u[i] = q
    <3>1. PICK i \in 1 .. Len(s) : s[i] = q
      BY <2>1 DEF Descending
    <3> QED
      BY <3>1, <1>2, <1>3
  <2>2. ASSUME NEW i \in 1 .. Len(u) PROVE u[i] \in {n} \cup S
    BY <1>2, <1>4, <1>5
  <2> QED
    BY <1>2, <1>3, <2>1, <2>2
<1>7. ASSUME NEW i \in 1 .. Len(u), NEW j \in 1 .. Len(u), i < j PROVE Precedes(u[j], u[i])
  <2>1. j # 1
    BY <1>7
  <2>2. j - 1 \in 1 .. Len(s) /\ u[j] = s[j - 1]
    BY <1>4, <2>1
  <2>3. CASE i = 1
    BY <1>2, <1>5, <2>2, <2>3
  <2>4. CASE i # 1
    <3>1. i - 1 \in 1 .. Len(s) /\ u[i] = s[i - 1]
      BY <1>4, <2>4
    <3>2. i - 1 < j - 1
      BY <1>7
    <3>3. Precedes(s[j - 1], s[i - 1])
      BY <2>2, <3>1, <3>2 DEF Descending
    <3> QED
      BY <2>2, <3>1, <3>3
  <2> QED
    BY <2>3, <2>4
<1> QED
  BY <1>2, <1>6, <1>7 DEF u, Descending

(* The entries the loop backwards goes on with, from n.                    *)
BackRest(h, n) == IF n = Nil THEN {} ELSE {n} \cup Earlier(h, n)

(* The loop backwards from an entry visits all that come before it.        *)
LEMMA BackFromIs ==
    ASSUME NEW t, Healthy(t), Parents(t, TRUE), NEW n \in Pointers(t.node), n = Nil \/ n \in ValueNodes(t.node)
    PROVE  Descending(BackFrom(t.node, n), BackRest(t.node, n))
<1> DEFINE h == t.node
           S == Pointers(h)
           from(x) == BackFrom(h, x)
           On(x) == x = Nil \/ x \in ValueNodes(h)
           Good(x) == Descending(from(x), BackRest(h, x))
           T == {x \in S : On(x) => Good(x)}
           m == BackRank(h)
<1>0. Tree(t) /\ Parents(t, FALSE)
  BY DEF Healthy
<1>1. m \in [S -> Nat]
  BY BackRankIs
<1>2. ASSUME NEW x \in S, \A y \in S : m[y] < m[x] => y \in T PROVE x \in T
  <2> SUFFICES ASSUME On(x) PROVE Good(x)
    OBVIOUS
  <2>1. CASE x = Nil
    <3>1. from(x) = <<>>
      BY <2>1, BackFromUnfolds
    <3>2. BackRest(h, x) = {}
      BY <2>1 DEF BackRest
    <3> QED
      BY <3>1, <3>2, DescendingEmpty
  <2>2. CASE x # Nil
    <3> DEFINE s == Predecessor(h, x)
    <3>1. from(x) = <<x>> \o from(s)
      BY <2>2, BackFromUnfolds
    <3>2. x \in ValueNodes(h) /\ x \in DOMAIN h /\ x \in Prefixes
      BY <1>0, <2>2, ValueNodeFacts
    <3>3. s \in S /\ m[s] < m[x]
      BY <3>2, BackRankIs
    <3>4. IsPrevious(h, x, s)
      BY <1>0, <3>2, PredecessorIs
    <3> HIDE DEF s
    <3>5. Good(s)
      BY <1>2, <3>3, <3>4 DEF IsPrevious
    <3>6. BackRest(h, s) = Earlier(h, x)
      <4>1. ASSUME NEW q \in ValueNodes(h), s # Nil, Precedes(q, s) PROVE Precedes(q, x)
        <5>1. s \in ValueNodes(h) /\ Precedes(s, x)
          BY <3>4, <4>1 DEF IsPrevious
        <5> QED
          BY <1>0, <3>2, <4>1, <5>1, ValueNodeFacts, PrecedesTransitive
      <4>2. CASE s = Nil
        BY <3>4, <4>2 DEF BackRest, Earlier, IsPrevious
      <4>3. CASE s # Nil
        BY <3>4, <4>1, <4>3 DEF BackRest, Earlier, IsPrevious
      <4> QED
        BY <4>2, <4>3
    <3>7. Descending(from(s), Earlier(h, x))
      BY <3>5, <3>6
    <3>8. \A q \in Earlier(h, x) : Precedes(q, x)
      BY DEF Earlier
    <3>9. BackRest(h, x) = {x} \cup Earlier(h, x)
      BY <2>2 DEF BackRest
    <3> HIDE DEF from
    <3>10. Descending(<<x>> \o from(s), BackRest(h, x))
      BY <3>2, <3>7, <3>8, <3>9, DescendingPrepend
    <3> QED
      BY <3>1, <3>10
  <2> QED
    BY <2>1, <2>2
<1> HIDE DEF T, m
<1>3. S \subseteq T
  BY <1>1, <1>2, MeasureInduction
<1> QED
  BY <1>3 DEF T

(* The loop backwards visits all entries.                                  *)
LEMMA BackwardIs ==
    ASSUME NEW t, Healthy(t), Parents(t, TRUE)
    PROVE  Descending(Backward(t), ValueNodes(t.node))
<1> DEFINE h == t.node
           last == LastValueNode(h, t.root)
<1>1. Tree(t) /\ t.root \in Pointers(h)
  BY DEF Healthy, Tree
<1>2. CASE t.root = Nil
  <2>1. last = Nil /\ ValueNodes(h) = {}
    BY <1>1, <1>2, LastIs DEF Tree, AllHang, ValueNodes
  <2> HIDE DEF last
  <2>2. last \in Pointers(h) /\ BackRest(h, last) = ValueNodes(h)
    BY <2>1 DEF Pointers, BackRest
  <2>3. Descending(BackFrom(h, last), BackRest(h, last))
    BY <2>1, <2>2, BackFromIs
  <2> QED
    BY <2>2, <2>3 DEF Backward, last
<1>3. CASE t.root # Nil
  <2>1. last # Nil /\ IsLastBelow(h, t.root, last)
    BY <1>1, <1>3, LastIs
  <2>2. \A q \in ValueNodes(h) : Contains(t.root, q)
    BY <1>1, RootAbove DEF ValueNodes
  <2>3. last \in ValueNodes(h) /\ \A q \in ValueNodes(h) : q = last \/ Precedes(q, last)
    BY <2>1, <2>2 DEF IsLastBelow
  <2> HIDE DEF last
  <2>4. last \in Pointers(h) /\ BackRest(h, last) = ValueNodes(h)
    BY <2>1, <2>3 DEF Pointers, ValueNodes, BackRest, Earlier
  <2>5. Descending(BackFrom(h, last), BackRest(h, last))
    BY <2>3, <2>4, BackFromIs
  <2> QED
    BY <2>4, <2>5 DEF Backward, last
<1> QED
  BY <1>2, <1>3

(* There is one order.                                                     *)
LEMMA Agree ==
    ASSUME NEW s, NEW u, NEW S, Ordered(s, S), Ordered(u, S)
    PROVE  \A k \in 1 .. Len(s) : k \in 1 .. Len(u) /\ u[k] = s[k]
<1> DEFINE T == {k \in Nat : \A i \in 1 .. k : i <= Len(s) => i \in 1 .. Len(u) /\ u[i] = s[i]}
<1>1. Len(s) \in Nat /\ Len(u) \in Nat /\ s \in Seq(Prefixes) /\ u \in Seq(Prefixes)
  BY DEF Ordered
<1>2. 0 \in T
  OBVIOUS
<1>3. ASSUME NEW m \in Nat, m \in T PROVE m + 1 \in T
  <2> DEFINE k == m + 1
  <2>1. SUFFICES ASSUME k <= Len(s) PROVE k \in 1 .. Len(u) /\ u[k] = s[k]
    <3>1. \A i \in 1 .. k : i \in 1 .. m \/ i = k
      OBVIOUS
    <3>2. k \in Nat
      OBVIOUS
    <3> QED
      BY <1>3, <3>1, <3>2
  <2>2. k \in 1 .. Len(s) /\ k \in Nat /\ m < k
    BY <1>1, <2>1
  <2>3. \A i \in 1 .. Len(s) : i < k => i \in 1 .. Len(u) /\ u[i] = s[i]
    <3>1. \A i \in 1 .. Len(s) : i < k => i \in 1 .. m /\ i <= Len(s)
      BY <1>1
    <3> QED
      BY <1>3, <3>1
  <2> HIDE DEF k
  <2>4. \A i \in 1 .. Len(s) : s[i] \in Prefixes
    BY <1>1
  <2>5. \A i \in 1 .. Len(u) : u[i] \in Prefixes
    BY <1>1
  <2>6. PICK j \in 1 .. Len(u) : u[j] = s[k]
    BY <2>2 DEF Ordered
  <2>7. ~(j < k)
    <3> SUFFICES ASSUME j < k PROVE FALSE
      OBVIOUS
    <3>1. j \in 1 .. Len(s)
      BY <1>1, <2>2
    <3>2. u[j] = s[j] /\ Precedes(s[j], s[k])
      BY <2>2, <2>3, <3>1 DEF Ordered
    <3> QED
      BY <2>2, <2>4, <2>6, <3>2, PrecedesIrreflexive
  <2>8. k \in 1 .. Len(u)
    BY <1>1, <2>2, <2>7
  <2>9. PICK l \in 1 .. Len(s) : s[l] = u[k]
    BY <2>8 DEF Ordered
  <2>10. ~(l < k)
    <3> SUFFICES ASSUME l < k PROVE FALSE
      OBVIOUS
    <3>1. l \in 1 .. Len(u) /\ u[l] = s[l]
      BY <2>3
    <3>2. Precedes(u[l], u[k])
      BY <2>8, <3>1 DEF Ordered
    <3> QED
      BY <2>5, <2>8, <2>9, <3>1, <3>2, PrecedesIrreflexive
  <2>11. CASE j = k
    BY <2>6, <2>8, <2>11
  <2>12. CASE j # k
    <3>1. k < j
      BY <2>2, <2>7, <2>12
    <3>2. Precedes(u[k], s[k])
      BY <2>6, <2>8, <3>1 DEF Ordered
    <3>3. CASE l = k
      BY <2>8, <2>9, <3>3
    <3>4. CASE l # k
      <4>1. k < l
        BY <2>2, <2>10, <3>4
      <4>2. Precedes(s[k], u[k])
        BY <2>2, <2>9, <4>1 DEF Ordered
      <4> QED
        BY <2>2, <2>4, <2>5, <2>8, <3>2, <4>2, PrecedesAsymmetric
    <3> QED
      BY <3>3, <3>4
  <2> QED
    BY <2>11, <2>12
<1> HIDE DEF T
<1>4. Len(s) \in T
  BY <1>1, <1>2, <1>3, SetInduction
<1> QED
  BY <1>1, <1>4 DEF T

(* The elements of a reversed sequence.                                    *)
LEMMA ReverseIs ==
    ASSUME NEW s \in Seq(Prefixes)
    PROVE  /\ Ext!Reverse(s) \in Seq(Prefixes) /\ Len(Ext!Reverse(s)) = Len(s) /\ Len(s) \in Nat
           /\ \A i \in 1 .. Len(s) : /\ Ext!Reverse(s)[i] = s[(Len(s) - i) + 1]
                                     /\ (Len(s) - i) + 1 \in 1 .. Len(s)
<1> DEFINE r == Ext!Reverse(s)
<1>1. Len(s) \in Nat
  OBVIOUS
<1>2. \A i \in 1 .. Len(s) : (Len(s) - i) + 1 \in 1 .. Len(s)
  BY <1>1
<1>3. r = [i \in 1 .. Len(s) |-> s[(Len(s) - i) + 1]]
  BY DEF Ext!Reverse
<1> HIDE DEF r
<1>4. r \in [1 .. Len(s) -> Prefixes]
  BY <1>2, <1>3
<1>5. r \in Seq(Prefixes) /\ DOMAIN r = 1 .. Len(s)
  BY <1>1, <1>4, SeqDef
<1>6. Len(r) = Len(s)
  BY <1>1, <1>5
<1> QED
  BY <1>1, <1>2, <1>3, <1>5, <1>6 DEF r

(* Two loops over the same entries, in the two orders.                     *)
LEMMA BackwardReverses ==
    ASSUME NEW s, NEW b, NEW S, Ordered(s, S), Descending(b, S)
    PROVE  b = Ext!Reverse(s)
<1> DEFINE r == Ext!Reverse(b)
           N == Len(b)
<1>1. s \in Seq(Prefixes) /\ b \in Seq(Prefixes) /\ N \in Nat
  BY DEF Ordered, Descending
<1>2. /\ r \in Seq(Prefixes) /\ Len(r) = N
      /\ \A i \in 1 .. N : r[i] = b[(N - i) + 1] /\ (N - i) + 1 \in 1 .. N
  BY <1>1, ReverseIs
<1> HIDE DEF r
<1>3. Ordered(r, S)
  <2>1. ASSUME NEW q, q \in S PROVE \E i \in 1 .. Len(r) : r[i] = q
    <3>1. PICK i \in 1 .. N : b[i] = q
      BY <2>1 DEF Descending
    <3> DEFINE j == (N - i) + 1
    <3>2. j \in 1 .. N /\ (N - j) + 1 = i
      BY <1>1
    <3>3. r[j] = b[(N - j) + 1]
      BY <1>2, <3>2
    <3> QED
      BY <1>2, <3>1, <3>2, <3>3
  <2>2. ASSUME NEW i \in 1 .. Len(r) PROVE r[i] \in S
    BY <1>2 DEF Descending
  <2>3. ASSUME NEW i \in 1 .. Len(r), NEW j \in 1 .. Len(r), i < j PROVE Precedes(r[i], r[j])
    <3>1. (N - j) + 1 < (N - i) + 1
      BY <1>1, <1>2, <2>3
    <3> QED
      BY <1>2, <3>1 DEF Descending
  <2> QED
    BY <1>2, <2>1, <2>2, <2>3 DEF Ordered
<1>4. \A k \in 1 .. Len(s) : k \in 1 .. Len(r) /\ r[k] = s[k]
  BY <1>3, Agree
<1>5. \A k \in 1 .. Len(r) : k \in 1 .. Len(s) /\ s[k] = r[k]
  BY <1>3, Agree
<1>6. Len(s) = N
  BY <1>1, <1>2, <1>4, <1>5
<1> DEFINE v == Ext!Reverse(s)
<1>7. /\ v \in Seq(Prefixes) /\ Len(v) = N
      /\ \A i \in 1 .. N : v[i] = s[(N - i) + 1]
  BY <1>1, <1>6, ReverseIs
<1> HIDE DEF v
<1>8. ASSUME NEW i \in 1 .. N PROVE v[i] = b[i]
  <2> DEFINE j == (N - i) + 1
  <2>1. j \in 1 .. N /\ (N - j) + 1 = i
    BY <1>1
  <2>2. v[i] = s[j] /\ r[j] = b[(N - j) + 1]
    BY <1>2, <1>7, <2>1
  <2>3. s[j] = r[j]
    BY <1>2, <1>5, <2>1
  <2> QED
    BY <2>1, <2>2, <2>3
<1>9. v = b
  BY <1>1, <1>7, <1>8
<1> QED
  BY <1>9 DEF v

(* operator++ and operator--, which climb through _parent, visit every     *)
(* entry once and in address order, and in the reverse order, in every     *)
(* object that has no copied nodes.                                        *)
THEOREM TraversalIsSorted == Spec => []TraversalSorted
<1>1. IInv => TraversalSorted
  <2> SUFFICES ASSUME IInv, NEW o \in Tries, ~copied[o]
               PROVE  /\ Sorts(Forward(trie[o]), ValueNodes(trie[o].node))
                      /\ Backward(trie[o]) = Ext!Reverse(Forward(trie[o]))
    BY DEF TraversalSorted
  <2> DEFINE t == trie[o]
  <2>1. Healthy(t) /\ Parents(t, TRUE)
    BY DEF IInv, Objects, Object
  <2> HIDE DEF t
  <2>2. Ordered(Forward(t), ValueNodes(t.node)) /\ Descending(Backward(t), ValueNodes(t.node))
    BY <2>1, ForwardIs, BackwardIs
  <2>3. Sorts(Forward(t), ValueNodes(t.node)) /\ Backward(t) = Ext!Reverse(Forward(t))
    BY <2>2, OrderedSorts, BackwardReverses
  <2> QED
    BY <2>3 DEF t
<1> QED
  BY <1>1, ObjectsInvariant, PTL

(* Aggregate leaves no two halves of a prefix with the same AS numbers,    *)
(* although it erases and inserts under its own iterator, and its passes   *)
(* are as many as it takes.                                                *)
THEOREM AggregateLeavesNoHalves == Spec => AggregateCombinesAll
<1>1. ASSUME IInv, [Next]_trieVars, NEW o \in Tries, Aggregate(o), ~copied[o]
      PROVE  NothingToCombine(trie'[o])
  <2> DEFINE t == trie[o]
  <2>1. Healthy(t) /\ Parents(t, TRUE) /\ DOMAIN trie = Tries
    BY <1>1 DEF IInv, Objects, Object
  <2>2. trie'[o] = Aggregated(t)
    BY <1>1, <2>1 DEF Aggregate
  <2> QED
    BY <2>1, <2>2, AggregatedCombinesAll
<1>2. IInv /\ [Next]_trieVars =>
          [\A o \in Tries : ret' = "aggregate" /\ Aggregate(o) /\ ~copied[o] =>
              \A p, q \in ValueNodes(trie'[o].node) :
                  ~(/\ Len(p) = Len(q) /\ p # q /\ SubSeq(p, 1, Len(p) - 1) = SubSeq(q, 1, Len(q) - 1)
                    /\ trie'[o].node[p].value = trie'[o].node[q].value)]_trieVars
  BY <1>1 DEF NothingToCombine, SameHalves
<1>3. Spec => []IInv
  BY ObjectsInvariant
<1> QED
  BY <1>2, <1>3, PTL DEF Spec, AggregateCombinesAll

-----------------------------------------------------------------------------
(* The entries of an object, as a map.                                     *)

(* A map is its domain and its values.                                     *)
LEMMA EntriesAre ==
    ASSUME NEW t
    PROVE  /\ DOMAIN Entries(t) = ValueNodes(t.node)
           /\ \A q \in ValueNodes(t.node) : Entries(t)[q] = t.node[q].value
BY DEF Entries

(* The same entries make the same map.                                     *)
LEMMA SameEntries ==
    ASSUME NEW t, NEW u, ValueNodes(u.node) = ValueNodes(t.node),
           \A q \in ValueNodes(t.node) : u.node[q].value = t.node[q].value
    PROVE  Entries(u) = Entries(t)
BY DEF Entries

(* An entry more.                                                          *)
LEMMA EntriesWith ==
    ASSUME NEW t, NEW u, NEW p, NEW v, ValueNodes(u.node) = ValueNodes(t.node) \cup {p},
           SameValues(t, u, p), ValueIs(u.node, p, v)
    PROVE  Entries(u) = Abstract!With(Entries(t), p, v)
<1>1. \A q \in ValueNodes(u.node) : u.node[q].value = IF q = p THEN v ELSE Entries(t)[q]
  BY EntriesAre DEF SameValues, ValueIs
<1>2. Entries(u) = [q \in ValueNodes(u.node) |-> IF q = p THEN v ELSE Entries(t)[q]]
  BY <1>1 DEF Entries
<1>3. DOMAIN Entries(t) \cup {p} = ValueNodes(u.node)
  BY EntriesAre
<1> QED
  BY <1>2, <1>3 DEF Abstract!With

(* An entry less.                                                          *)
LEMMA EntriesWithout ==
    ASSUME NEW t, NEW u, NEW p, ValueNodes(u.node) = ValueNodes(t.node) \ {p}, SameValues(t, u, p)
    PROVE  Entries(u) = Abstract!Without(Entries(t), p)
<1>1. \A q \in ValueNodes(u.node) : u.node[q].value = Entries(t)[q]
  BY EntriesAre DEF SameValues
<1>2. Entries(u) = [q \in ValueNodes(u.node) |-> Entries(t)[q]]
  BY <1>1 DEF Entries
<1>3. DOMAIN Entries(t) \ {p} = ValueNodes(u.node)
  BY EntriesAre
<1> QED
  BY <1>2, <1>3 DEF Abstract!Without

(* An empty object is the empty map.                                       *)
LEMMA NoEntriesOfEmpty == Entries(EmptyTrie) = Abstract!NoEntries
<1>1. ValueNodes(EmptyTrie.node) = {}
  BY DEF EmptyTrie, ValueNodes
<1> QED
  BY <1>1 DEF Entries, Abstract!NoEntries

(* A copy has the entries of what it was made from.                        *)
LEMMA EntriesOfCopy ==
    ASSUME NEW t, Healthy(t) PROVE Entries(CopyNodes(t)) = Entries(t)
<1> DEFINE u == CopyNodes(t)
<1>1. Tree(t)
  BY DEF Healthy
<1>2. u.node = [n \in DOMAIN t.node |-> [t.node[n] EXCEPT !.parent = Nil]]
  <2>1. t = [root |-> t.root, node |-> t.node, size |-> t.size]
    BY <1>1 DEF Tree
  <2>2. \A r, x, s, y : [[root |-> r, node |-> x, size |-> s] EXCEPT !.node = y].node = y
    OBVIOUS
  <2> QED
    BY <2>1, <2>2 DEF CopyNodes
<1> HIDE DEF u
<1>3. DOMAIN u.node = DOMAIN t.node
  BY <1>2
<1>4. ASSUME NEW n \in DOMAIN t.node PROVE u.node[n].value = t.node[n].value
  <2>1. t.node[n] \in Node
    BY <1>1 DEF Tree
  <2>2. u.node[n] = [t.node[n] EXCEPT !.parent = Nil]
    BY <1>2
  <2> QED
    BY <2>1, <2>2 DEF Node
<1>5. ValueNodes(u.node) = ValueNodes(t.node)
  BY <1>3, <1>4 DEF ValueNodes, HasValue
<1>6. \A q \in ValueNodes(t.node) : u.node[q].value = t.node[q].value
  BY <1>4 DEF ValueNodes
<1> QED
  BY <1>5, <1>6, SameEntries DEF u

(* The origins of an address are those of the map.                         *)
LEMMA OriginsAre ==
    ASSUME NEW t, Healthy(t), NEW a \in Addresses
    PROVE  Abstract!Origins(Entries(t), a) = OriginsOf(t, a)
<1>1. \A p : Abstract!Covers(p, a) <=> Contains(p, a)
  BY DEF Abstract!Covers, Abstract!Ext!IsPrefix, Contains, Ext!IsPrefix
<1>2. Abstract!Origins(Entries(t), a) = UNION {Entries(t)[p] : p \in {q \in ValueNodes(t.node) : Contains(q, a)}}
  BY <1>1, EntriesAre DEF Abstract!Origins
<1> QED
  BY <1>2, EntriesAre DEF OriginsOf

(* The abstract map, of any tries.                                         *)
Maps(tr) == [o \in Tries |-> Entries(tr[o])]

(* One object changes, and so does its map.                                *)
Replaced(tr, tr1, o, u) == DOMAIN tr = Tries /\ tr1 = [tr EXCEPT ![o] = u]
Revised(m, m1, o, e) == m1 = [m EXCEPT ![o] = e]

(* An object that changes changes its own map.                             *)
LEMMA MapsChange ==
    ASSUME NEW tr, NEW tr1, NEW o \in Tries, NEW u, Replaced(tr, tr1, o, u)
    PROVE  Revised(Maps(tr), Maps(tr1), o, Entries(u))
BY DEF Maps, Replaced, Revised

(* The map counts its prefixes as the trie does.                           *)
LEMMA CardinalitySame == \A S : Abstract!Cardinality(S) = Cardinality(S)
BY DEF Abstract!Cardinality, Cardinality

(* An object that keeps its entries keeps its map.                         *)
LEMMA MapsSame ==
    ASSUME NEW tr, DOMAIN tr = Tries, NEW o \in Tries, NEW u, Entries(u) = Entries(tr[o])
    PROVE  Maps([tr EXCEPT ![o] = u]) = Maps(tr)
BY DEF Maps

(* Every operation of an object is the one of its map.                     *)
LEMMA InitMaps == Init => Abstract!MapInit
<1> SUFFICES ASSUME Init PROVE Abstract!MapInit
  OBVIOUS
<1>1. \A o \in Tries : trie[o] = EmptyTrie
  BY DEF Init
<1>2. [o \in Tries |-> Entries(trie[o])] = [o \in Tries |-> Abstract!NoEntries]
  BY <1>1, NoEntriesOfEmpty
<1> QED
  BY <1>2 DEF Init, Abstract!MapInit

(* Insert inserts into the map.                                            *)
LEMMA InsertMaps ==
    ASSUME IInv, NEW o \in Tries, NEW p \in Prefixes, NEW v \in SUBSET ASes, Insert(o, p, v)
    PROVE  Abstract!MapInsert(o, p, v)
<1> DEFINE t == trie[o]
           u == AddNode(t, p, v)
<1>1. Object(t, copied[o]) /\ DOMAIN trie = Tries
  BY DEF IInv, Objects
<1>2. /\ ValueNodes(u.node) = ValueNodes(t.node) \cup {p} /\ SameValues(t, u, p)
      /\ ValueIs(u.node, p, IF p \in ValueNodes(t.node) THEN t.node[p].value ELSE v)
      /\ u.size = IF p \in ValueNodes(t.node) THEN t.size ELSE t.size + 1
      /\ t.size \in Nat
  BY <1>1, AddNodeKeeps, AddNodeValues, HealthyFacts DEF Object
<1>3. trie' = [trie EXCEPT ![o] = u] /\ trie'[o] = u
  BY <1>1 DEF Insert
<1>4. ret' = IF u.size > t.size THEN "inserted" ELSE "present"
  BY <1>3 DEF Insert
<1>5. Maps(trie') = [Maps(trie) EXCEPT ![o] = Entries(u)] /\ DOMAIN Maps(trie)[o] = ValueNodes(t.node)
  <2>1. Replaced(trie, trie', o, u)
    BY <1>1, <1>3 DEF Replaced
  <2>2. Revised(Maps(trie), Maps(trie'), o, Entries(u))
    BY <2>1, MapsChange
  <2> QED
    BY <2>2, EntriesAre DEF Maps, Revised
<1> HIDE DEF u
<1>6. CASE p \in ValueNodes(t.node)
  <2>1. ret' = "present"
    BY <1>2, <1>4, <1>6
  <2>2. ValueNodes(u.node) = ValueNodes(t.node) /\ \A q \in ValueNodes(t.node) : u.node[q].value = t.node[q].value
    BY <1>2, <1>6 DEF SameValues, ValueIs
  <2>3. Entries(u) = Entries(t)
    BY <2>2, SameEntries
  <2>4. Maps(trie') = Maps(trie)
    BY <1>1, <1>3, <2>3, MapsSame
  <2> QED
    BY <1>5, <1>6, <2>1, <2>4 DEF Maps, Abstract!MapInsert
<1>7. CASE p \notin ValueNodes(t.node)
  <2>1. ret' = "inserted"
    BY <1>2, <1>4, <1>7
  <2>2. Entries(u) = Abstract!With(Entries(t), p, v)
    BY <1>2, <1>7, EntriesWith
  <2>3. Maps(trie') = [Maps(trie) EXCEPT ![o] = Abstract!With(@, p, v)]
    BY <1>5, <2>2 DEF Maps
  <2> QED
    BY <1>5, <1>7, <2>1, <2>3 DEF Maps, Abstract!MapInsert
<1> QED
  BY <1>6, <1>7

(* operator[] and an insertion into its set add an AS number.              *)
LEMMA IndexMaps ==
    ASSUME IInv, NEW o \in Tries, NEW p \in Prefixes, NEW as \in ASes, Index(o, p, as)
    PROVE  Abstract!MapAddOrigin(o, p, as)
<1> DEFINE t == trie[o]
           u == AddOrigins(t, p, {as})
           v == {as} \cup IF p \in DOMAIN Entries(t) THEN Entries(t)[p] ELSE {}
<1>1. Object(t, copied[o]) /\ DOMAIN trie = Tries /\ {as} \in SUBSET ASes
  BY DEF IInv, Objects
<1>2. /\ ValueNodes(u.node) = ValueNodes(t.node) \cup {p} /\ SameValues(t, u, p)
      /\ ValueIs(u.node, p, Joined(t, p, {as}))
  BY <1>1, AddOriginsKeeps, AddOriginsValues DEF Object
<1>3. trie' = [trie EXCEPT ![o] = u] /\ ret' = "index"
  BY DEF Index
<1> HIDE DEF u
<1>4. Maps(trie') = [Maps(trie) EXCEPT ![o] = Entries(u)]
  <2>1. Replaced(trie, trie', o, u)
    BY <1>1, <1>3 DEF Replaced
  <2>2. Revised(Maps(trie), Maps(trie'), o, Entries(u))
    BY <2>1, MapsChange
  <2> QED
    BY <2>2 DEF Revised
<1>5. Joined(t, p, {as}) = v
  BY EntriesAre DEF Joined
<1> HIDE DEF v
<1>6. Entries(u) = Abstract!With(Entries(t), p, v)
  BY <1>2, <1>5, EntriesWith
<1>7. Maps(trie') = [Maps(trie) EXCEPT
                        ![o] = Abstract!With(@, p, {as} \cup IF p \in DOMAIN @ THEN @[p] ELSE {})]
  BY <1>4, <1>6 DEF Maps, v
<1> QED
  BY <1>3, <1>7 DEF Maps, Abstract!MapAddOrigin

(* Erase erases from the map.                                              *)
LEMMA EraseMaps ==
    ASSUME IInv, NEW o \in Tries, NEW p \in Prefixes, Erase(o, p)
    PROVE  Abstract!MapErase(o, p)
<1> DEFINE t == trie[o]
           u == Remove(t, p)
<1>1. Object(t, copied[o]) /\ DOMAIN trie = Tries
  BY DEF IInv, Objects
<1>2. /\ ValueNodes(u.node) = ValueNodes(t.node) \ {p} /\ SameValues(t, u, p)
      /\ u.size = IF p \in ValueNodes(t.node) THEN t.size - 1 ELSE t.size
      /\ t.size \in Nat
  BY <1>1, RemoveKeeps, RemoveValues, HealthyFacts DEF Object
<1>3. trie' = [trie EXCEPT ![o] = u] /\ trie'[o] = u
  BY <1>1 DEF Erase
<1>4. ret' = IF u.size < t.size THEN "erased" ELSE "absent"
  BY <1>3 DEF Erase
<1>5. Maps(trie') = [Maps(trie) EXCEPT ![o] = Entries(u)] /\ DOMAIN Maps(trie)[o] = ValueNodes(t.node)
  <2>1. Replaced(trie, trie', o, u)
    BY <1>1, <1>3 DEF Replaced
  <2>2. Revised(Maps(trie), Maps(trie'), o, Entries(u))
    BY <2>1, MapsChange
  <2> QED
    BY <2>2, EntriesAre DEF Maps, Revised
<1> HIDE DEF u
<1>6. CASE p \notin ValueNodes(t.node)
  <2>1. ret' = "absent"
    BY <1>2, <1>4, <1>6
  <2>2. ValueNodes(u.node) = ValueNodes(t.node) /\ \A q \in ValueNodes(t.node) : u.node[q].value = t.node[q].value
    BY <1>2, <1>6 DEF SameValues
  <2>3. Entries(u) = Entries(t)
    BY <2>2, SameEntries
  <2>4. Maps(trie') = Maps(trie)
    BY <1>1, <1>3, <2>3, MapsSame
  <2> QED
    BY <1>5, <1>6, <2>1, <2>4 DEF Maps, Abstract!MapErase
<1>7. CASE p \in ValueNodes(t.node)
  <2>1. ret' = "erased"
    BY <1>2, <1>4, <1>7
  <2>2. Entries(u) = Abstract!Without(Entries(t), p)
    BY <1>2, EntriesWithout
  <2>3. Maps(trie') = [Maps(trie) EXCEPT ![o] = Abstract!Without(@, p)]
    BY <1>5, <2>2 DEF Maps
  <2> QED
    BY <1>5, <1>7, <2>1, <2>3 DEF Maps, Abstract!MapErase
<1> QED
  BY <1>6, <1>7

(* Clear clears the map.                                                   *)
LEMMA ClearMaps ==
    ASSUME IInv, NEW o \in Tries, Clear(o)
    PROVE  Abstract!MapClear(o)
<1>1. Object(trie[o], copied[o]) /\ DOMAIN trie = Tries
  BY DEF IInv, Objects
<1>2. Cleared(trie[o]) = EmptyTrie
  BY <1>1, ClearedIs DEF Object
<1>3. trie' = [trie EXCEPT ![o] = EmptyTrie] /\ ret' = "clear"
  BY <1>2 DEF Clear
<1>4. Maps(trie') = [Maps(trie) EXCEPT ![o] = Abstract!NoEntries]
  <2>1. Replaced(trie, trie', o, EmptyTrie)
    BY <1>1, <1>3 DEF Replaced
  <2>2. Revised(Maps(trie), Maps(trie'), o, Entries(EmptyTrie))
    BY <2>1, MapsChange
  <2> QED
    BY <2>2, NoEntriesOfEmpty DEF Revised
<1> QED
  BY <1>3, <1>4 DEF Maps, Abstract!MapClear

(* A copy is a copy of the map.                                            *)
LEMMA CopyMaps ==
    ASSUME IInv, NEW o \in Tries, NEW src \in Tries, Copy(o, src)
    PROVE  Abstract!MapCopy(o, src)
<1>1. DOMAIN trie = Tries /\ Object(trie[src], copied[src]) /\ ret' = "copy"
  BY DEF IInv, Objects, Copy
<1>2. CASE o = src /\ UNCHANGED <<trie, copied>>
  <2>1. Maps(trie') = [Maps(trie) EXCEPT ![o] = Maps(trie)[src]]
    BY <1>2 DEF Maps
  <2> QED
    BY <1>1, <2>1 DEF Maps, Abstract!MapCopy
<1>3. CASE o # src
  <2>1. trie' = [trie EXCEPT ![o] = CopyNodes(trie[src])]
    BY <1>3 DEF Copy
  <2>2. Entries(CopyNodes(trie[src])) = Entries(trie[src])
    BY <1>1, EntriesOfCopy DEF Object
  <2>3. Maps(trie') = [Maps(trie) EXCEPT ![o] = Maps(trie)[src]]
    BY <1>1, <2>1, <2>2, MapsChange DEF Maps
  <2> QED
    BY <1>1, <2>3 DEF Maps, Abstract!MapCopy
<1> QED
  BY <1>2, <1>3 DEF Copy

(* A move moves the map.                                                   *)
LEMMA MoveMaps ==
    ASSUME IInv, NEW o \in Tries, NEW src \in Tries, Move(o, src)
    PROVE  Abstract!MapMove(o, src)
<1>1. DOMAIN trie = Tries /\ ret' = "move"
  BY DEF IInv, Objects, Move
<1>2. CASE o = src /\ UNCHANGED <<trie, copied>>
  BY <1>1, <1>2 DEF Abstract!MapMove
<1>3. CASE o # src
  <2>1. trie' = [trie EXCEPT ![o] = trie[src], ![src] = EmptyTrie]
    BY <1>3 DEF Move
  <2>2. Maps(trie') = [Maps(trie) EXCEPT ![o] = Maps(trie)[src], ![src] = Abstract!NoEntries]
    BY <1>1, <1>3, <2>1, NoEntriesOfEmpty DEF Maps
  <2> QED
    BY <1>1, <1>3, <2>2 DEF Maps, Abstract!MapMove
<1> QED
  BY <1>2, <1>3 DEF Move

(* Aggregate keeps the origins of every address.                           *)
LEMMA AggregateMaps ==
    ASSUME IInv, NEW o \in Tries, Aggregate(o)
    PROVE  Abstract!MapAggregate(o)
<1> DEFINE t == trie[o]
           u == Aggregated(t)
           m == Maps(trie)
<1>1. Object(t, copied[o]) /\ DOMAIN trie = Tries
  BY DEF IInv, Objects
<1>2. Condenses(t, u)
  BY <1>1, AggregatedIs DEF Object
<1>3. trie' = [trie EXCEPT ![o] = u] /\ ret' = "aggregate"
  BY DEF Aggregate
<1> HIDE DEF u
<1>4. Healthy(t) /\ Healthy(u) /\ u.size <= t.size
  BY <1>1, <1>2 DEF Object, Condenses, Shrinks, Keeps
<1>5. Maps(trie') = [m EXCEPT ![o] = Entries(u)]
  <2>1. Replaced(trie, trie', o, u)
    BY <1>1, <1>3 DEF Replaced
  <2>2. Revised(Maps(trie), Maps(trie'), o, Entries(u))
    BY <2>1, MapsChange
  <2> QED
    BY <2>2 DEF Revised
<1>6. DOMAIN m = Tries /\ m[o] = Entries(t)
  BY DEF Maps
<1> HIDE DEF m
<1>7. Maps(trie')[o] = Entries(u) /\ \A x \in Tries \ {o} : Maps(trie')[x] = m[x]
  BY <1>5, <1>6
<1>8. Cardinality(DOMAIN Maps(trie')[o]) <= Cardinality(DOMAIN m[o])
  <2>1. Cardinality(DOMAIN Entries(u)) = u.size /\ Cardinality(DOMAIN Entries(t)) = t.size
    BY <1>4, EntriesAre DEF Healthy
  <2> QED
    BY <1>4, <1>6, <1>7, <2>1
<1>9. ASSUME NEW a \in Addresses PROVE Abstract!Origins(Maps(trie')[o], a) = Abstract!Origins(m[o], a)
  <2>1. OriginsOf(u, a) = OriginsOf(t, a)
    BY <1>2 DEF Condenses, SameOrigins
  <2> QED
    BY <1>4, <1>6, <1>7, <2>1, OriginsAre
<1>10. Abstract!Addresses = Addresses
  BY DEF Abstract!Addresses, Addresses
<1> QED
  BY <1>3, <1>7, <1>8, <1>9, <1>10, CardinalitySame DEF m, Maps, Abstract!MapAggregate

(* A loop that visits as many entries as there are visits all.             *)
LEMMA VisitsAll ==
    ASSUME NEW s, NEW S, Visits(s, S), IsFiniteSet(S), Len(s) = Cardinality(S)
    PROVE  \A q \in S : \E i \in 1 .. Len(s) : s[i] = q
<1> DEFINE n == Len(s)
           I == 1 .. n
<1>1. /\ n \in Nat /\ s \in [I -> S] /\ I = DOMAIN s
      /\ \A i \in I : s[i] \in Prefixes
  <2>1. s \in Seq(Prefixes)
    BY DEF Visits
  <2>2. n \in Nat /\ s \in [I -> Prefixes]
    BY <2>1, LenProperties
  <2> QED
    BY <2>2 DEF Visits
<1> HIDE DEF n
<1>2. ASSUME NEW i \in I, NEW j \in I, s[i] = s[j] PROVE i = j
  <2>1. ~(i < j) /\ ~(j < i)
    BY <1>1, <1>2, PrecedesIrreflexive DEF Visits, n
  <2> QED
    BY <1>1, <2>1
<1>3. s \in Injection(I, S)
  BY <1>1, <1>2 DEF Injection, IsInjective
<1>4. Cardinality(I) = n
  BY <1>1, FS_Interval, 1 \in Int, n \in Int
<1> HIDE DEF I
<1>5. Cardinality(I) = Cardinality(S)
  BY <1>4 DEF n
<1>6. s \in Surjection(I, S)
  BY <1>3, <1>5, FS_Injection
<1> QED
  BY <1>6 DEF Surjection, I, n

(* What of a file is read back is a part of the trie, and a file that is   *)
(* whole is all of it.                                                     *)
LEMMA WholeFile ==
    ASSUME NEW s, Healthy(s), NEW t, Healthy(t), Whole(Contents(s))
    PROVE  Entries(InsertAll(t, Contents(s))) = Entries(s)
<1> DEFINE f == Contents(s)
           u == InsertAll(t, f)
           V == ValueNodes(s.node)
           order == Forward(s)
<1>1. /\ IsFile(f, s) /\ f[1] = s.size /\ Len(f) = 1 + Len(order)
      /\ \A k \in 2 .. Len(f) : f[k].prefix = order[k - 1]
  BY ContentsIs
<1>2. Len(f) - 1 = f[1]
  BY DEF Whole
<1>3. Read(u, s) /\ Holds(u, f, Len(f))
  BY <1>1, InsertAllIs
<1>4. Visits(order, V) /\ Len(order) \in Nat
  <2>1. Visits(order, V)
    BY ForwardIs
  <2> QED
    BY <2>1, LenProperties DEF Visits
<1>5. IsFiniteSet(V) /\ s.size = Cardinality(V)
  BY HealthyFacts DEF Healthy
<1> HIDE DEF f, u, V, order
<1>6. Len(order) = Cardinality(V)
  BY <1>1, <1>2, <1>4, <1>5
<1>7. ASSUME NEW q \in V PROVE q \in ValueNodes(u.node)
  <2>1. PICK i \in 1 .. Len(order) : order[i] = q
    BY <1>4, <1>5, <1>6, VisitsAll
  <2>2. i + 1 \in 2 .. Len(f) /\ (i + 1) - 1 = i
    BY <1>1, <1>4
  <2>3. f[i + 1].prefix = q
    BY <1>1, <2>1, <2>2
  <2> QED
    BY <1>3, <2>2, <2>3 DEF Holds
<1>8. ValueNodes(u.node) = V /\ \A q \in V : u.node[q].value = s.node[q].value
  BY <1>3, <1>7 DEF Read, V
<1> QED
  BY <1>8, SameEntries DEF u, f, V

(* A write that succeeds has written all.                                  *)
LEMMA WrittenWhole ==
    ASSUME NEW form \in Forms, NEW f, NEW room, Written(form, f, room)
    PROVE  Len(f) <= room
<1>1. BytesOrFailure(Len(f) <= room, f) > 0 => Len(f) <= room
  BY DEF BytesOrFailure
<1>2. CASE form = "ostream"
  BY <1>2 DEF Written, WriteOstream
<1>3. CASE form = "descriptor"
  BY <1>1, <1>3 DEF Written, WriteDescriptor
<1>4. CASE form = "FILE"
  BY <1>4 DEF Written, WriteFILE
<1>5. CASE form = "gz"
  BY <1>1, <1>5 DEF Written, WriteGZ
<1>6. CASE form = "bz2"
  BY <1>1, <1>6 DEF Written, BZWrite
<1>7. CASE form = "path"
  BY <1>7 DEF Written, Save, WriteOstream
<1> QED
  BY <1>2, <1>3, <1>4, <1>5, <1>6, <1>7 DEF Forms

(* What is read back is the map, or the operation fails.                   *)
LEMMA ReloadMaps ==
    ASSUME IInv, NEW o \in Tries, NEW src \in Tries, NEW form \in Forms, NEW room \in 0 .. MaxEntries + 1,
           Reload(o, src, form, room)
    PROVE  Abstract!MapReload(o, src)
<1> DEFINE s == trie[src]
           t == trie[o]
           f == Contents(s)
           n == IF room < Len(f) THEN room ELSE Len(f)
           file == SubSeq(f, 1, n)
           r == ReadBack(form, t, file)
           u == r.trie
           m == Maps(trie)
<1>1. Healthy(s) /\ Healthy(t) /\ DOMAIN trie = Tries
  BY DEF IInv, Objects, Object
<1>2. trie' = [trie EXCEPT ![o] = u]
  BY DEF Reload
<1>3. ret' = IF ~Written(form, f, room) THEN "unwritten" ELSE IF r.good THEN "reloaded" ELSE "unread"
  BY DEF Reload
<1>4. f \in Seq(Nat \cup [prefix : ValueNodes(s.node), value : SUBSET ASes]) /\ Len(f) \in Nat
  BY <1>1, ContentsIs, LenProperties
<1>5. room \in Nat
  BY BoundAssumption
<1> HIDE DEF f
<1>6. n \in 0 .. Len(f)
  BY <1>4, <1>5
<1>7. Written(form, f, room) => file = f
  <2> SUFFICES ASSUME Written(form, f, room) PROVE file = f
    OBVIOUS
  <2>1. Len(f) <= room
    BY WrittenWhole
  <2>2. n = Len(f)
    BY <1>4, <1>5, <2>1
  <2>3. SubSeq(f, 1, Len(f)) = f
    BY <1>4, SubSeqFull
  <2> QED
    BY <2>2, <2>3
<1> HIDE DEF n
<1>8. IsFile(file, s)
  BY <1>1, <1>6, WrittenFile DEF f
<1> HIDE DEF file
<1>9. Read(InsertAll(t, file), s)
  BY <1>1, <1>8, InsertAllIs
<1>10. /\ u = t \/ u = InsertAll(t, file)
       /\ r.good => u = InsertAll(t, file) /\ Whole(file)
  BY ReadBackIs
<1>11. Revised(m, Maps(trie'), o, Entries(u))
  <2>1. Replaced(trie, trie', o, u)
    BY <1>1, <1>2 DEF Replaced
  <2> QED
    BY <2>1, MapsChange
<1>12. DOMAIN m = Tries /\ m[o] = Entries(t) /\ m[src] = Entries(s)
  BY DEF Maps
<1> HIDE DEF r, m
<1>13. Maps(trie')[o] = Entries(u) /\ \A x \in Tries \ {o} : Maps(trie')[x] = m[x]
  BY <1>11, <1>12 DEF Revised
<1>14. ret' \in {"reloaded", "unwritten", "unread"}
  BY <1>3
<1>15. ret' = "reloaded" => Entries(u) = Entries(s)
  <2> SUFFICES ASSUME ret' = "reloaded" PROVE Entries(u) = Entries(s)
    OBVIOUS
  <2>1. Written(form, f, room) /\ r.good
    BY <1>3
  <2>2. u = InsertAll(t, f) /\ Whole(f)
    BY <1>7, <1>10, <2>1
  <2> QED
    BY <1>1, <2>2, WholeFile DEF f
<1> HIDE DEF s, t
<1>16. \/ Entries(u) = Entries(t)
       \/ /\ DOMAIN Entries(u) \subseteq DOMAIN Entries(s)
          /\ \A p \in DOMAIN Entries(u) : Entries(u)[p] = Entries(s)[p]
  <2>1. CASE u = t
    BY <2>1
  <2>2. CASE u = InsertAll(t, file)
    <3>1. Read(u, s)
      BY <1>9, <2>2
    <3> QED
      BY <3>1, EntriesAre DEF Read
  <2> QED
    BY <1>10, <2>1, <2>2
<1>17. \/ ret' = "reloaded" /\ Maps(trie')[o] = m[src]
       \/ /\ ret' # "reloaded"
          /\ \/ Maps(trie')[o] = m[o]
             \/ /\ DOMAIN Maps(trie')[o] \subseteq DOMAIN m[src]
                /\ \A p \in DOMAIN Maps(trie')[o] : Maps(trie')[o][p] = m[src][p]
  BY <1>12, <1>13, <1>15, <1>16
<1> QED
  BY <1>13, <1>14, <1>17 DEF m, Maps, Abstract!MapReload

(* Every step is one of the map.                                           *)
LEMMA NextMaps == IInv /\ [Next]_trieVars => [Abstract!MapNext]_(Abstract!mapVars)
<1> SUFFICES ASSUME IInv, [Next]_trieVars PROVE [Abstract!MapNext]_(Abstract!mapVars)
  OBVIOUS
<1>0. Abstract!Prefixes = Prefixes
  BY DEF Abstract!Prefixes, Prefixes
<1>1. CASE UNCHANGED trieVars
  <2>1. Maps(trie') = Maps(trie) /\ ret' = ret
    BY <1>1 DEF trieVars
  <2> QED
    BY <2>1 DEF Abstract!mapVars, Maps
<1>2. ASSUME NEW o \in Tries, NEW p \in Prefixes, NEW v \in SUBSET ASes \ {{}}, Insert(o, p, v)
      PROVE  Abstract!MapNext
  <2>1. v \in SUBSET ASes
    OBVIOUS
  <2>2. Abstract!MapInsert(o, p, v)
    BY <1>2, <2>1, InsertMaps
  <2> QED
    BY <1>0, <2>1, <2>2 DEF Abstract!MapNext
<1>3. ASSUME NEW o \in Tries, NEW p \in Prefixes, NEW as \in ASes, Index(o, p, as)
      PROVE  Abstract!MapNext
  <2>1. Abstract!MapAddOrigin(o, p, as)
    BY <1>3, IndexMaps
  <2> QED
    BY <1>0, <2>1 DEF Abstract!MapNext
<1>4. ASSUME NEW o \in Tries, NEW p \in Prefixes, Erase(o, p) PROVE Abstract!MapNext
  <2>1. Abstract!MapErase(o, p)
    BY <1>4, EraseMaps
  <2> QED
    BY <1>0, <2>1 DEF Abstract!MapNext
<1>5. ASSUME NEW o \in Tries, Clear(o) PROVE Abstract!MapNext
  BY <1>5, ClearMaps DEF Abstract!MapNext
<1>6. ASSUME NEW o \in Tries, Aggregate(o) PROVE Abstract!MapNext
  BY <1>6, AggregateMaps DEF Abstract!MapNext
<1>7. ASSUME NEW o \in Tries, NEW src \in Tries, Copy(o, src) PROVE Abstract!MapNext
  BY <1>7, CopyMaps DEF Abstract!MapNext
<1>8. ASSUME NEW o \in Tries, NEW src \in Tries, Move(o, src) PROVE Abstract!MapNext
  BY <1>8, MoveMaps DEF Abstract!MapNext
<1>9. ASSUME NEW o \in Tries, NEW src \in Tries, NEW form \in Forms, NEW room \in 0 .. MaxEntries + 1,
             Reload(o, src, form, room)
      PROVE  Abstract!MapNext
  BY <1>9, ReloadMaps DEF Abstract!MapNext
<1>10. CASE Next
  BY <1>2, <1>3, <1>4, <1>5, <1>6, <1>7, <1>8, <1>9, <1>10 DEF Next
<1> QED
  BY <1>1, <1>10

(* Whatever shape its nodes have, each object is the map from prefixes to  *)
(* sets of AS numbers that the class promises: insertion, operator[],      *)
(* removal, copies, moves and files are those of the map, and aggregation, *)
(* which erases and inserts under its own iterators, changes the origins   *)
(* of no address and adds no entry.                                        *)
THEOREM TrieIsMap == Spec => ImplementsOriginMap
<1>1. Init => Abstract!MapInit
  BY InitMaps
<1>2. IInv /\ [Next]_trieVars => [Abstract!MapNext]_(Abstract!mapVars)
  BY NextMaps
<1>3. Spec => []IInv
  BY ObjectsInvariant
<1> QED
  BY <1>1, <1>2, <1>3, PTL DEF Spec, ImplementsOriginMap, Abstract!MapSpec

-----------------------------------------------------------------------------
(* The second class: it does nothing that the first one would not do.      *)
LEMMA Aggregated6 == \A t : CombineAdjacents6(EraseCovered(t)) = Aggregated(t)
BY DEF CombineAdjacents6, EraseCovered, EraseCoveredRound, wider_covering, removeNode, Aggregated,
       DropCovered, DropCoveredRound

LEMMA SameFiles ==
    /\ \A form, f, room : Written6(form, f, room) <=> Written(form, f, room)
    /\ \A form, t, f : ReadBack6(form, t, f) = ReadBack(form, t, f)
<1>1. \A form, f, room : Written6(form, f, room) <=> Written(form, f, room)
  BY DEF Written6, WriteOstream6, WriteDescriptor6, WriteFILE6, WriteGZ6, BZWrite6, Save6, Written
<1>2. \A form, t, f : ReadBack6(form, t, f) = ReadBack(form, t, f)
  BY DEF ReadBack6, ReadIstream6, ReadDescriptor6, ReadFILE6, ReadGZ6, BZRead6, Load6, ReadBack
<1> QED
  BY <1>1, <1>2

(* Each step of an object of the second class is one of the first.         *)
LEMMA NextSame == IInv /\ [Next6]_trieVars => [Next]_trieVars
<1> SUFFICES ASSUME IInv, Next6 PROVE Next
  OBVIOUS
<1>1. DOMAIN trie = Tries
  BY DEF IInv, Objects
<1>2. ASSUME NEW o \in Tries, NEW p \in Prefixes, NEW v \in SUBSET ASes \ {{}}, insert(o, p, v)
      PROVE  Insert(o, p, v)
  BY <1>1, <1>2 DEF insert, Update, addNode, Insert
<1>3. ASSUME NEW o \in Tries, NEW p \in Prefixes, NEW as \in ASes, Index6(o, p, as)
      PROVE  Index(o, p, as)
  BY <1>1, <1>3 DEF Index6, Update, addNode, Index, AddOrigins
<1>4. ASSUME NEW o \in Tries, NEW p \in Prefixes, erase(o, p) PROVE Erase(o, p)
  BY <1>1, <1>4 DEF erase, Update, removeNode, Erase
<1>5. ASSUME NEW o \in Tries, Clear6(o) PROVE Clear(o)
  BY <1>5 DEF Clear6, Update, clear, Clear
<1>6. ASSUME NEW o \in Tries, Aggregate6(o) PROVE Aggregate(o)
  BY <1>6, Aggregated6 DEF Aggregate6, Update, Aggregate
<1>7. ASSUME NEW o \in Tries, NEW src \in Tries, Copy6(o, src) PROVE Copy(o, src)
  BY <1>7 DEF Copy6, Update, copyNode, Copy
<1>8. ASSUME NEW o \in Tries, NEW src \in Tries, Move6(o, src) PROVE Move(o, src)
  BY <1>8 DEF Move6, Empty6, Move
<1>9. ASSUME NEW o \in Tries, NEW src \in Tries, NEW form \in Forms, NEW room \in 0 .. MaxEntries + 1,
             Reload6(o, src, form, room)
      PROVE  Reload(o, src, form, room)
  BY <1>9, SameFiles DEF Reload6, Update, Reload
<1> QED
  BY <1>2, <1>3, <1>4, <1>5, <1>6, <1>7, <1>8, <1>9 DEF Next6, Next

LEMMA InitSame == Init6 => Init
BY DEF Init6, Empty6, Init

(* The second class stays within what the first one does, so that the      *)
(* theorems above hold of it as well: its objects are well-formed, count   *)
(* their entries, and are the map.                                         *)
THEOREM Ipv6Invariant == Spec6 => []IInv
<1>1. IInv /\ [Next6]_trieVars => IInv'
  BY NextSame, NextObjects
<1> QED
  BY <1>1, InitSame, InitObjects, PTL DEF Spec6

(* Copies, files and aggregation included, an object of Ipv6Net2AS is the  *)
(* same map from prefixes to origins as one of Ipv4Net2AS.                 *)
THEOREM Ipv6IsMap == Spec6 => ImplementsOriginMap
<1>1. Spec6 => Spec
  BY NextSame, InitSame, Ipv6Invariant, PTL DEF Spec6, Spec
<1> QED
  BY <1>1, TrieIsMap

(* The single steps of the iterators.                                      *)
LEMMA FirstOf ==
    ASSUME NEW S \in SUBSET Prefixes, NEW s, s = Nil => S = {},
           s # Nil => s \in S /\ \A q \in S : q = s \/ Precedes(s, q)
    PROVE  s = First(S)
<1>1. CASE s = Nil
  BY <1>1 DEF First
<1>2. CASE s # Nil
  <2>1. s \in S /\ \A q \in S \ {s} : Precedes(s, q)
    BY <1>2
  <2>2. \A n \in S : (\A m \in S \ {n} : Precedes(n, m)) => n = s
    BY <2>1, PrecedesAsymmetric
  <2> QED
    BY <2>1, <2>2 DEF First
<1> QED
  BY <1>1, <1>2

LEMMA LastOf ==
    ASSUME NEW S \in SUBSET Prefixes, NEW s, s = Nil => S = {},
           s # Nil => s \in S /\ \A q \in S : q = s \/ Precedes(q, s)
    PROVE  s = Last(S)
<1>1. CASE s = Nil
  BY <1>1 DEF Last
<1>2. CASE s # Nil
  <2>1. s \in S /\ \A q \in S \ {s} : Precedes(q, s)
    BY <1>2
  <2>2. \A n \in S : (\A m \in S \ {n} : Precedes(m, n)) => n = s
    BY <2>1, PrecedesAsymmetric
  <2> QED
    BY <2>1, <2>2 DEF Last
<1> QED
  BY <1>1, <1>2

(* Entries that contain the same prefix: the longest is the last.          *)
LEMMA LongestIsLast ==
    ASSUME NEW t, Tree(t), NEW p \in Prefixes
    PROVE  FindLongest(t, p) = Last({q \in ValueNodes(t.node) : Contains(q, p)})
<1> DEFINE covering == {q \in ValueNodes(t.node) : Contains(q, p)}
           s == FindLongest(t, p)
<1>1. covering \in SUBSET Prefixes
  BY ValueNodeFacts DEF Tree
<1>2. IF covering = {} THEN s = Nil ELSE s \in covering /\ \A q \in covering : Len(q) <= Len(s)
  BY LookupsOf
<1>3. s \in covering => s # Nil
  BY <1>1, NilIsNoPrefix
<1>4. ASSUME s \in covering, NEW q \in covering PROVE q = s \/ Precedes(q, s)
  <2>1. Contains(q, s)
    BY <1>1, <1>2, <1>4, ContainsChain
  <2> QED
    BY <1>1, <1>4, <2>1, PrecedesBits
<1> HIDE DEF s, covering
<1>5. s = Last(covering)
  BY <1>1, <1>2, <1>3, <1>4, LastOf
<1> QED
  BY <1>5 DEF s, covering

(* begin, rbegin and the two operators of an iterator.                     *)
LEMMA StepsAre ==
    ASSUME NEW t, Tree(t), Parents(t, FALSE), Parents(t, TRUE)
    PROVE  LET entries == ValueNodes(t.node)
           IN  /\ findFirstValueNode(t) = First(entries)
               /\ findLastValueNode(t) = Last(entries)
               /\ \A n \in entries :
                     /\ findSuccessor(t, n) = First({m \in entries : Precedes(n, m)})
                     /\ findPredecessor(t, n) = Last({m \in entries : Precedes(m, n)})
<1> DEFINE entries == ValueNodes(t.node)
<1>1. entries \in SUBSET Prefixes /\ entries \subseteq DOMAIN t.node /\ Nil \notin entries
  BY ValueNodeFacts, NilIsNoPrefix DEF Tree
<1>2. t.root = Nil => entries = {}
  BY DEF Tree, AllHang, ValueNodes
<1>3. t.root \in Pointers(t.node)
  BY DEF Tree
<1>4. t.root # Nil => \A q \in entries : Contains(t.root, q)
  BY <1>1, RootAbove
<1>5. findFirstValueNode(t) = First(entries)
  <2> DEFINE s == FirstValueNode(t.node, t.root)
  <2>1. IF t.root = Nil THEN s = Nil ELSE s # Nil /\ IsFirstBelow(t.node, t.root, s)
    BY <1>3, FirstIs
  <2> HIDE DEF s
  <2>2. s = First(entries)
    BY <1>1, <1>2, <1>4, <2>1, FirstOf DEF IsFirstBelow
  <2> QED
    BY <2>2 DEF s, findFirstValueNode
<1>6. findLastValueNode(t) = Last(entries)
  <2> DEFINE s == LastValueNode(t.node, t.root)
  <2>1. IF t.root = Nil THEN s = Nil ELSE s # Nil /\ IsLastBelow(t.node, t.root, s)
    BY <1>3, LastIs
  <2> HIDE DEF s
  <2>2. s = Last(entries)
    BY <1>1, <1>2, <1>4, <2>1, LastOf DEF IsLastBelow
  <2> QED
    BY <2>2 DEF s, findLastValueNode
<1>7. ASSUME NEW n \in entries
      PROVE  /\ findSuccessor(t, n) = First({m \in entries : Precedes(n, m)})
             /\ findPredecessor(t, n) = Last({m \in entries : Precedes(m, n)})
  <2> DEFINE s == Successor(t.node, n)
             b == Predecessor(t.node, n)
             later == {m \in entries : Precedes(n, m)}
             earlier == {m \in entries : Precedes(m, n)}
  <2>1. later \in SUBSET Prefixes /\ earlier \in SUBSET Prefixes
    BY <1>1
  <2>2. n \in DOMAIN t.node
    BY <1>1
  <2>3. (s # Nil => s \in later) /\ IsNext(t.node, n, s)
    BY <2>2, SuccessorIs
  <2>4. IsPrevious(t.node, n, b)
    BY <2>2, PredecessorIs
  <2>5. \A q \in later : s # Nil /\ (q = s \/ Precedes(s, q))
    BY <2>3 DEF IsNext
  <2>6. /\ b # Nil => b \in earlier
        /\ \A q \in earlier : b # Nil /\ (q = b \/ Precedes(q, b))
    BY <2>4 DEF IsPrevious
  <2> HIDE DEF s, b, later, earlier
  <2>7. s = First(later)
    BY <2>1, <2>3, <2>5, FirstOf
  <2>8. b = Last(earlier)
    BY <2>1, <2>6, LastOf
  <2> QED
    BY <2>7, <2>8 DEF s, b, later, earlier, findSuccessor, findPredecessor
<1> QED
  BY <1>5, <1>6, <1>7

(* The lookups of an object of Ipv6Net2AS, be it a copy or read from a     *)
(* file, find what a search of its entries finds, and where no node was    *)
(* copied begin(), rbegin() and each step of an iterator lead to the first,*)
(* the last and the next entry in the order of addresses.                  *)
THEOREM Ipv6ReadersAgree == Spec6 => []ReadersAgree
<1>1. IInv => ReadersAgree
  <2> SUFFICES ASSUME IInv, NEW o \in Tries
               PROVE  LET t       == trie[o]
                          entries == ValueNodes(t.node)
                      IN  /\ \A n \in DOMAIN t.node : t.node[n] \in Node6
                          /\ \A p \in Prefixes :
                                LET covering == {q \in entries : Contains(q, p)}
                                IN  /\ Sorts(find_matches(t, p), covering)
                                    /\ Sorts(find_wider(t, p), covering \ {p})
                                    /\ find(t, p) = IF p \in entries THEN p ELSE Nil
                                    /\ find_longest(t, p) = Last(covering)
                          /\ ~copied[o] =>
                                /\ findFirstValueNode(t) = First(entries)
                                /\ findLastValueNode(t) = Last(entries)
                                /\ \A n \in entries :
                                      /\ findSuccessor(t, n) = First({m \in entries : Precedes(n, m)})
                                      /\ findPredecessor(t, n) = Last({m \in entries : Precedes(m, n)})
    BY DEF ReadersAgree
  <2> DEFINE t == trie[o]
             entries == ValueNodes(t.node)
  <2>1. Tree(t) /\ Parents(t, FALSE) /\ (~copied[o] => Parents(t, TRUE))
    BY DEF IInv, Objects, Object, Healthy
  <2> HIDE DEF t
  <2>2. \A n \in DOMAIN t.node : t.node[n] \in Node6
    BY <2>1 DEF Tree, Node6
  <2>3. ASSUME NEW p \in Prefixes
        PROVE  LET covering == {q \in entries : Contains(q, p)}
               IN  /\ Sorts(find_matches(t, p), covering)
                   /\ Sorts(find_wider(t, p), covering \ {p})
                   /\ find(t, p) = IF p \in entries THEN p ELSE Nil
                   /\ find_longest(t, p) = Last(covering)
    <3>1. Contains(p, p)
      BY ContainsReflexive
    <3>2. find(t, p) = IF p \in entries THEN p ELSE Nil
      BY <2>1, <3>1, LookupsOf DEF find
    <3>3. find_longest(t, p) = Last({q \in entries : Contains(q, p)})
      BY <2>1, LongestIsLast DEF find_longest
    <3> QED
      BY <2>1, <3>2, <3>3, LookupsOf DEF find_matches, find_wider
  <2>4. ~copied[o] =>
            /\ findFirstValueNode(t) = First(entries)
            /\ findLastValueNode(t) = Last(entries)
            /\ \A n \in entries :
                  /\ findSuccessor(t, n) = First({m \in entries : Precedes(n, m)})
                  /\ findPredecessor(t, n) = Last({m \in entries : Precedes(m, n)})
    BY <2>1, StepsAre
  <2> QED
    BY <2>2, <2>3, <2>4 DEF t
<1> QED
  BY <1>1, Ipv6Invariant, PTL
=============================================================================
