--------------------------- MODULE PrefixTrieLemmas ---------------------------
(***************************************************************************)
(* What the operators of Trie compute, for every width of addresses:       *)
(* the order of prefixes, the lookups, addNode, removeNode and its         *)
(* compaction, the iterators, copies.  Each recursive function is unfolded *)
(* once (it has a value because its argument gets smaller), and what it    *)
(* computes follows by induction on that measure.                          *)
(***************************************************************************)
EXTENDS Trie, WellFoundedInduction, SequenceTheorems, FiniteSetTheorems, TLAPS

-----------------------------------------------------------------------------
(* Induction, with sets for predicates: a set of numbers that is not empty *)
(* has a least element.  Tries and texts are measured by numbers, so this  *)
(* serves them all.                                                        *)
NatLess == {ss \in Nat \X Nat : ss[1] < ss[2]}

LEMMA NatLessWellFounded == IsWellFoundedOn(NatLess, Nat)
BY NatLessThanWellFounded, Zenon DEF OpToRel, NatLess

LEMMA LeastElement ==
    ASSUME NEW T, T \subseteq Nat, T # {}
    PROVE  \E n \in T : \A m \in T : n <= m
<1>1. PICK n \in T : \A m \in T : ~(<<m, n>> \in NatLess)
  BY NatLessWellFounded, WFMin
<1>2. ASSUME NEW m \in T PROVE n <= m
  <2>1. m \in Nat /\ n \in Nat /\ <<m, n>> \in Nat \X Nat
    OBVIOUS
  <2>2. ~(m < n)
    BY <1>1, <2>1 DEF NatLess
  <2> QED
    BY <2>1, <2>2
<1> QED
  BY <1>2

(* A set that has 0 and, with a number, the next one, has all.             *)
LEMMA SetInduction ==
    ASSUME NEW T, 0 \in T, \A n \in Nat : n \in T => n + 1 \in T
    PROVE  \A n \in Nat : n \in T
<1> SUFFICES ASSUME Nat \ T # {} PROVE FALSE
  OBVIOUS
<1>1. PICK n \in Nat \ T : \A m \in Nat \ T : n <= m
  BY LeastElement
<1>2. n - 1 \in Nat /\ n - 1 \notin T
  BY <1>1
<1> QED
  BY <1>1, <1>2

(* Recursion.  x is smaller than y when its measure is.                    *)
LEMMA MeasureInduction ==
    ASSUME NEW S, NEW T, NEW m \in [S -> Nat],
           \A x \in S : (\A y \in S : m[y] < m[x] => y \in T) => x \in T
    PROVE  S \subseteq T
<1> SUFFICES ASSUME S \ T # {} PROVE FALSE
  OBVIOUS
<1> DEFINE M == {m[x] : x \in S \ T}
<1>1. M \subseteq Nat /\ M # {}
  OBVIOUS
<1>2. PICK k \in M : \A l \in M : k <= l
  BY <1>1, LeastElement
<1>3. PICK x \in S \ T : m[x] = k
  BY <1>2
<1>4. \A y \in S : m[y] < m[x] => y \in T
  <2>1. SUFFICES ASSUME NEW y \in S, m[y] < m[x], y \notin T PROVE FALSE
    OBVIOUS
  <2>2. k <= m[y] /\ m[y] \in Nat /\ m[x] \in Nat
    BY <1>2, <2>1
  <2> QED
    BY <2>1, <2>2, <1>3
<1> QED
  BY <1>3, <1>4

(* A definition that calls itself once, on something smaller, has a value. *)
Solves(f, S, done, next, r, c) ==
    \A x \in S : f[x] = IF x \in done THEN r[x] ELSE c[<<x, f[next[x]]>>]

(* Such a definition has a value on a finite measure.                      *)
LEMMA LinearRecursion ==
    ASSUME NEW S, NEW V, NEW done,
           NEW next \in [S -> S], NEW m \in [S -> Nat], NEW N \in Nat,
           NEW r \in [S -> V], NEW c \in [S \X V -> V],
           \A x \in S : m[x] < N,
           \A x \in S \ done : m[next[x]] < m[x]
    PROVE  \E f \in [S -> V] : Solves(f, S, done, next, r, c)
<1> DEFINE Eq(f, x) == f[x] = IF x \in done THEN r[x] ELSE c[<<x, f[next[x]]>>]
           T == {k \in Nat : \E f \in [S -> V] : \A x \in S : m[x] < k => Eq(f, x)}
<1>1. 0 \in T
  <2>1. \A x \in S : ~(m[x] < 0)
    OBVIOUS
  <2> QED
    BY <2>1
<1>2. ASSUME NEW k \in Nat, k \in T PROVE k + 1 \in T
  <2>1. PICK f \in [S -> V] : \A x \in S : m[x] < k => Eq(f, x)
    BY <1>2
  <2> DEFINE g == [x \in S |-> IF x \in done THEN r[x] ELSE c[<<x, f[next[x]]>>]]
  <2>2. g \in [S -> V]
    OBVIOUS
  <2>3. ASSUME NEW y \in S, m[y] < k PROVE g[y] = f[y]
    BY <2>1, <2>3
  <2>4. ASSUME NEW x \in S, m[x] < k + 1 PROVE Eq(g, x)
    <3>1. CASE x \in done
      BY <3>1
    <3>2. CASE x \notin done
      <4>1. next[x] \in S /\ m[next[x]] < m[x] /\ m[x] \in Nat /\ m[next[x]] \in Nat
        BY <3>2
      <4>2. m[next[x]] < k
        BY <4>1, <2>4
      <4>3. g[next[x]] = f[next[x]]
        BY <4>1, <4>2, <2>3
      <4> QED
        BY <4>3, <3>2
    <3> QED
      BY <3>1, <3>2
  <2> HIDE DEF g, Eq
  <2>5. k + 1 \in Nat /\ \A x \in S : m[x] < k + 1 => Eq(g, x)
    BY <2>4
  <2> QED
    BY <2>2, <2>5
<1> HIDE DEF T
<1>3. N \in T
  BY <1>1, <1>2, SetInduction
<1>4. PICK f \in [S -> V] : \A x \in S : m[x] < N => Eq(f, x)
  BY <1>3 DEF T
<1> QED
  BY <1>4 DEF Solves

-----------------------------------------------------------------------------
(* Prefixes, as sequences of bits.                                         *)

(* A prefix is a sequence of at most Width bits, and a function on their   *)
(* positions.                                                              *)
LEMMA PrefixIsSeq ==
    ASSUME NEW p \in Prefixes
    PROVE  /\ p \in Seq({0, 1})
           /\ Len(p) \in Nat /\ Len(p) <= Width
           /\ p \in [1 .. Len(p) -> {0, 1}] /\ DOMAIN p = 1 .. Len(p)
<1>1. PICK n \in 0 .. Width : p \in [1 .. n -> {0, 1}]
  BY DEF Prefixes
<1>2. n \in Nat /\ n <= Width
  BY TrieAssumption
<1>3. p \in Seq({0, 1}) /\ Len(p) = n
  BY <1>1, <1>2
<1> QED
  BY <1>1, <1>2, <1>3

(* Every sequence of at most Width bits is a prefix.                       *)
LEMMA SeqIsPrefix ==
    ASSUME NEW p \in Seq({0, 1}), Len(p) <= Width
    PROVE  p \in Prefixes
<1>1. Len(p) \in 0 .. Width /\ p \in [1 .. Len(p) -> {0, 1}]
  BY LenProperties, TrieAssumption
<1> QED
  BY <1>1 DEF Prefixes

(* Bit i of a prefix. *)
LEMMA BitIsBit ==
    ASSUME NEW p \in Prefixes, NEW i \in 0 .. Len(p) - 1
    PROVE  Bit(p, i) = p[i + 1] /\ Bit(p, i) \in {0, 1}
<1>1. i + 1 \in 1 .. Len(p) /\ p \in [1 .. Len(p) -> {0, 1}]
  BY PrefixIsSeq
<1> QED
  BY <1>1 DEF Bit

(* Prefixes with the same bits are the same.                               *)
LEMMA SamePrefix ==
    ASSUME NEW p \in Prefixes, NEW q \in Prefixes, Len(p) = Len(q),
           \A i \in 1 .. Len(p) : p[i] = q[i]
    PROVE  p = q
BY PrefixIsSeq, SeqEqual

(* A prefix contains those that have its bits and perhaps more.            *)
LEMMA ContainsBits ==
    ASSUME NEW p \in Prefixes, NEW q \in Prefixes
    PROVE  Contains(p, q) <=> Len(p) <= Len(q) /\ \A i \in 1 .. Len(p) : p[i] = q[i]
<1>1. /\ p \in Seq({0, 1}) /\ q \in Seq({0, 1}) /\ Len(p) \in Nat /\ Len(q) \in Nat
  BY PrefixIsSeq
<1>2. SubSeq(p, 1, Len(p)) = p
  BY <1>1, SubSeqFull
<1>3. CASE Len(p) <= Len(q)
  <2> DEFINE s == SubSeq(q, 1, Len(p))
  <2>1. \A i \in 1 .. Len(p) : q[i] \in {0, 1}
    BY <1>1, <1>3, ElementOfSeq
  <2>2. s \in Seq({0, 1}) /\ Len(s) = (IF 1 <= Len(p) THEN Len(p) - 1 + 1 ELSE 0)
        /\ \A i \in 1 .. Len(p) - 1 + 1 : s[i] = q[1 + i - 1]
    BY <1>1, <2>1, SubSeqProperties
  <2>3. Len(s) = Len(p) /\ \A i \in 1 .. Len(p) : s[i] = q[i]
    BY <1>1, <2>2
  <2> HIDE DEF s
  <2>4. p = s <=> \A i \in 1 .. Len(p) : p[i] = q[i]
    BY <1>1, <2>2, <2>3, SeqEqual
  <2> QED
    BY <1>2, <1>3, <2>4 DEF s, Contains, Ext!IsPrefix
<1>4. CASE ~(Len(p) <= Len(q))
  BY <1>4 DEF Contains, Ext!IsPrefix
<1> QED
  BY <1>3, <1>4

(* A strict prefix contains another one.                                   *)
LEMMA StrictIsContains ==
    \A p, q : Ext!IsStrictPrefix(p, q) <=> Contains(p, q) /\ p # q
BY DEF Ext!IsStrictPrefix, Contains

(* A prefix contains itself.                                               *)
LEMMA ContainsReflexive ==
    ASSUME NEW p \in Prefixes PROVE Contains(p, p)
BY ContainsBits, PrefixIsSeq

(* A prefix that contains another one is shorter.                          *)
LEMMA ContainsLen ==
    ASSUME NEW p \in Prefixes, NEW q \in Prefixes, Contains(p, q)
    PROVE  Len(p) <= Len(q) /\ (p # q <=> Len(p) < Len(q))
<1>1. Len(p) \in Nat /\ Len(q) \in Nat
  BY PrefixIsSeq
<1>2. Len(p) <= Len(q) /\ (Len(p) = Len(q) => p = q)
  BY ContainsBits, SamePrefix
<1> QED
  BY <1>1, <1>2

(* Containment is transitive.                                              *)
LEMMA ContainsTransitive ==
    ASSUME NEW p \in Prefixes, NEW q \in Prefixes, NEW r \in Prefixes,
           Contains(p, q), Contains(q, r)
    PROVE  Contains(p, r)
<1>1. Len(p) \in Nat /\ Len(q) \in Nat /\ Len(r) \in Nat
  BY PrefixIsSeq
<1>2. /\ Len(p) <= Len(q) /\ \A i \in 1 .. Len(p) : p[i] = q[i]
      /\ Len(q) <= Len(r) /\ \A i \in 1 .. Len(q) : q[i] = r[i]
  BY ContainsBits
<1>3. Len(p) <= Len(r) /\ \A i \in 1 .. Len(p) : p[i] = r[i]
  BY <1>1, <1>2
<1> QED
  BY <1>3, ContainsBits

(* Two prefixes of the same: one of them contains the other.               *)
LEMMA ContainsChain ==
    ASSUME NEW p \in Prefixes, NEW q \in Prefixes, NEW r \in Prefixes,
           Contains(p, r), Contains(q, r), Len(p) <= Len(q)
    PROVE  Contains(p, q)
<1>1. Len(p) \in Nat /\ Len(q) \in Nat /\ Len(r) \in Nat
  BY PrefixIsSeq
<1>2. /\ Len(p) <= Len(r) /\ \A i \in 1 .. Len(p) : p[i] = r[i]
      /\ Len(q) <= Len(r) /\ \A i \in 1 .. Len(q) : q[i] = r[i]
  BY ContainsBits
<1>3. \A i \in 1 .. Len(p) : p[i] = q[i]
  BY <1>1, <1>2
<1> QED
  BY <1>3, ContainsBits

(* The bit that tells on which side of n the prefixes below it are.        *)
LEMMA SideBit ==
    ASSUME NEW n \in Prefixes, NEW q \in Prefixes, Len(n) < Len(q)
    PROVE  Bit(q, Len(n)) \in {0, 1} /\ Bit(q, Len(n)) = q[Len(n) + 1]
<1>1. Len(n) \in 0 .. Len(q) - 1
  BY PrefixIsSeq
<1> QED
  BY <1>1, BitIsBit

(* All prefixes below m are on the side of n that m is on.                 *)
LEMMA SideBitBelow ==
    ASSUME NEW n \in Prefixes, NEW m \in Prefixes, NEW q \in Prefixes,
           Len(n) < Len(m), Contains(m, q)
    PROVE  Bit(m, Len(n)) = Bit(q, Len(n))
<1>1. Len(n) \in Nat /\ Len(m) \in Nat /\ Len(q) \in Nat
  BY PrefixIsSeq
<1>2. Len(m) <= Len(q) /\ \A i \in 1 .. Len(m) : m[i] = q[i]
  BY ContainsBits
<1>3. Len(n) + 1 \in 1 .. Len(m)
  BY <1>1
<1> QED
  BY <1>2, <1>3 DEF Bit

(* q is below the other half of n.                                         *)
LEMMA OneMoreBit ==
    ASSUME NEW n \in Prefixes, NEW m \in Prefixes, NEW q \in Prefixes,
           Contains(n, m), Contains(n, q), Len(m) = Len(n) + 1, Len(n) < Len(q),
           Bit(m, Len(n)) = Bit(q, Len(n))
    PROVE  Contains(m, q)
<1>1. Len(n) \in Nat /\ Len(m) \in Nat /\ Len(q) \in Nat
  BY PrefixIsSeq
<1>2. /\ \A i \in 1 .. Len(n) : n[i] = m[i]
      /\ \A i \in 1 .. Len(n) : n[i] = q[i]
  BY ContainsBits
<1>3. m[Len(n) + 1] = q[Len(n) + 1]
  BY DEF Bit
<1>4. \A i \in 1 .. Len(m) : i = Len(n) + 1 \/ i \in 1 .. Len(n)
  BY <1>1
<1>5. Len(m) <= Len(q) /\ \A i \in 1 .. Len(m) : m[i] = q[i]
  BY <1>1, <1>2, <1>3, <1>4
<1> QED
  BY <1>5, ContainsBits

(* The order of prefixes, told by their bits.                              *)
DiffersAt(p, q, i) ==
    /\ i \in 1 .. Len(p) /\ i \in 1 .. Len(q)
    /\ \A j \in 1 .. i - 1 : p[j] = q[j]
    /\ p[i] # q[i]

(* Prefixes with the same first bits are the same there.                   *)
LEMMA SameUpTo ==
    ASSUME NEW p \in Prefixes, NEW q \in Prefixes, NEW i \in Int, 1 <= i, i <= Len(p), i <= Len(q)
    PROVE  SubSeq(p, 1, i - 1) = SubSeq(q, 1, i - 1) <=> \A j \in 1 .. i - 1 : p[j] = q[j]
<1>1. p \in Seq({0, 1}) /\ q \in Seq({0, 1}) /\ Len(p) \in Nat /\ Len(q) \in Nat
  BY PrefixIsSeq
<1>2. (\A j \in 1 .. i - 1 : p[j] \in {0, 1}) /\ (\A j \in 1 .. i - 1 : q[j] \in {0, 1})
  BY <1>1, ElementOfSeq
<1> DEFINE k == i - 1
           s == SubSeq(p, 1, k)
           u == SubSeq(q, 1, k)
<1>3. k \in Int /\ 0 <= k
  OBVIOUS
<1> HIDE DEF k
<1>4. /\ s \in Seq({0, 1}) /\ Len(s) = (IF 1 <= k THEN k - 1 + 1 ELSE 0)
      /\ \A j \in 1 .. k - 1 + 1 : s[j] = p[1 + j - 1]
  BY <1>2, <1>3, SubSeqProperties DEF k
<1>5. /\ u \in Seq({0, 1}) /\ Len(u) = (IF 1 <= k THEN k - 1 + 1 ELSE 0)
      /\ \A j \in 1 .. k - 1 + 1 : u[j] = q[1 + j - 1]
  BY <1>2, <1>3, SubSeqProperties DEF k
<1> HIDE DEF s, u
<1>6. /\ Len(s) = k /\ Len(u) = k
      /\ \A j \in 1 .. k : s[j] = p[j] /\ u[j] = q[j]
  BY <1>3, <1>4, <1>5
<1>7. s = u <=> \A j \in 1 .. k : p[j] = q[j]
  BY <1>4, <1>5, <1>6, SeqEqual
<1> QED
  BY <1>7 DEF s, u, k

(* The order of prefixes, told by their bits.                              *)
LEMMA PrecedesBits ==
    ASSUME NEW p \in Prefixes, NEW q \in Prefixes
    PROVE  Precedes(p, q) <=> \/ Contains(p, q) /\ p # q
                              \/ \E i \in Int : DiffersAt(p, q, i) /\ p[i] < q[i]
<1>1. Len(p) \in Nat /\ Len(p) <= Width /\ Len(q) \in Nat
  BY PrefixIsSeq
<1>2. ASSUME NEW i \in 1 .. Width, i <= Len(p), i <= Len(q),
             SubSeq(p, 1, i - 1) = SubSeq(q, 1, i - 1), p[i] < q[i]
      PROVE  i \in Int /\ DiffersAt(p, q, i) /\ p[i] < q[i]
  <2>1. i \in Int /\ i \in 1 .. Len(p) /\ i \in 1 .. Len(q) /\ 1 <= i
    BY <1>1, <1>2
  <2>2. \A j \in 1 .. i - 1 : p[j] = q[j]
    BY <2>1, <1>2, SameUpTo
  <2>3. p[i] \in {0, 1} /\ q[i] \in {0, 1}
    BY <2>1, PrefixIsSeq
  <2>4. p[i] # q[i]
    BY <2>3, <1>2
  <2> QED
    BY <2>1, <2>2, <2>4, <1>2 DEF DiffersAt
<1>3. ASSUME NEW i \in Int, DiffersAt(p, q, i), p[i] < q[i]
      PROVE  i \in 1 .. Width /\ i <= Len(p) /\ i <= Len(q)
             /\ SubSeq(p, 1, i - 1) = SubSeq(q, 1, i - 1) /\ p[i] < q[i]
  <2>1. 1 <= i /\ i <= Len(p) /\ i <= Len(q) /\ i \in 1 .. Width
        /\ \A j \in 1 .. i - 1 : p[j] = q[j]
    BY <1>1, <1>3, TrieAssumption DEF DiffersAt
  <2> QED
    BY <1>3, <2>1, SameUpTo
<1> QED
  BY <1>2, <1>3, StrictIsContains DEF Precedes

(* No prefix precedes itself.                                              *)
LEMMA PrecedesIrreflexive ==
    ASSUME NEW p \in Prefixes PROVE ~Precedes(p, p)
BY PrecedesBits DEF DiffersAt

(* Two prefixes, of which neither contains the other, differ in a bit. *)
LEMMA FirstDifference ==
    ASSUME NEW p \in Prefixes, NEW q \in Prefixes, ~Contains(p, q), ~Contains(q, p)
    PROVE  \E i \in Int : DiffersAt(p, q, i)
<1>1. Len(p) \in Nat /\ Len(q) \in Nat
  BY PrefixIsSeq
<1> DEFINE D == {i \in Nat : 1 <= i /\ i <= Len(p) /\ i <= Len(q) /\ p[i] # q[i]}
<1>2. D # {}
  <2>1. CASE Len(p) <= Len(q)
    <3>1. PICK i \in 1 .. Len(p) : p[i] # q[i]
      BY <2>1, ContainsBits
    <3> QED
      BY <3>1, <2>1, <1>1
  <2>2. CASE Len(q) <= Len(p)
    <3>1. PICK i \in 1 .. Len(q) : q[i] # p[i]
      BY <2>2, ContainsBits
    <3> QED
      BY <3>1, <2>2, <1>1
  <2> QED
    BY <1>1, <2>1, <2>2
<1>3. PICK i \in D : \A m \in D : i <= m
  BY <1>2, LeastElement
<1>4. \A j \in 1 .. i - 1 : p[j] = q[j]
  BY <1>1, <1>3
<1> QED
  BY <1>1, <1>3, <1>4 DEF DiffersAt

(* Of two prefixes that differ in a bit neither contains the other.        *)
LEMMA DiffersApart ==
    ASSUME NEW p \in Prefixes, NEW q \in Prefixes, NEW i \in Int, DiffersAt(p, q, i)
    PROVE  /\ ~Contains(p, q) /\ ~Contains(q, p)
           /\ DiffersAt(q, p, i)
           /\ p[i] \in {0, 1} /\ q[i] \in {0, 1}
BY ContainsBits, PrefixIsSeq DEF DiffersAt

(* There is only one bit in which two prefixes differ first.               *)
LEMMA DiffersOnce ==
    ASSUME NEW p \in Prefixes, NEW q \in Prefixes, NEW i \in Int, NEW k \in Int,
           DiffersAt(p, q, i), DiffersAt(p, q, k)
    PROVE  i = k
BY PrefixIsSeq DEF DiffersAt

(* Of two prefixes one precedes the other.                                 *)
LEMMA PrecedesTotal ==
    ASSUME NEW p \in Prefixes, NEW q \in Prefixes, p # q
    PROVE  Precedes(p, q) \/ Precedes(q, p)
<1>1. CASE Contains(p, q) \/ Contains(q, p)
  BY <1>1, PrecedesBits
<1>2. CASE ~Contains(p, q) /\ ~Contains(q, p)
  <2>1. PICK i \in Int : DiffersAt(p, q, i)
    BY <1>2, FirstDifference
  <2>2. DiffersAt(q, p, i) /\ p[i] \in {0, 1} /\ q[i] \in {0, 1} /\ p[i] # q[i]
    BY <2>1, DiffersApart DEF DiffersAt
  <2>3. p[i] < q[i] \/ q[i] < p[i]
    BY <2>2
  <2> QED
    BY <2>1, <2>2, <2>3, PrecedesBits
<1> QED
  BY <1>1, <1>2

(* No two prefixes precede each other.                                     *)
LEMMA PrecedesAsymmetric ==
    ASSUME NEW p \in Prefixes, NEW q \in Prefixes, Precedes(p, q)
    PROVE  ~Precedes(q, p) /\ p # q
<1>1. CASE Contains(p, q) /\ p # q
  <2>1. ~Contains(q, p)
    <3>1. Len(p) < Len(q) /\ Len(p) \in Nat /\ Len(q) \in Nat
      BY <1>1, ContainsLen, PrefixIsSeq
    <3> QED
      BY <3>1, ContainsLen
  <2>2. \A i \in Int : ~DiffersAt(q, p, i)
    BY <1>1, DiffersApart
  <2> QED
    BY <1>1, <2>1, <2>2, PrecedesBits
<1>2. ASSUME NEW i \in Int, DiffersAt(p, q, i), p[i] < q[i] PROVE ~Precedes(q, p) /\ p # q
  <2>1. ~Contains(q, p) /\ DiffersAt(q, p, i) /\ p[i] \in {0, 1} /\ q[i] \in {0, 1}
    BY <1>2, DiffersApart
  <2>2. ASSUME NEW k \in Int, DiffersAt(q, p, k), q[k] < p[k] PROVE FALSE
    <3>1. i = k
      BY <2>1, <2>2, DiffersOnce
    <3> QED
      BY <3>1, <2>1, <2>2, <1>2
  <2>3. p # q
    BY <1>2 DEF DiffersAt
  <2> QED
    BY <2>1, <2>2, <2>3, PrecedesBits
<1> QED
  BY <1>1, <1>2, PrecedesBits

(* What precedes a prefix without containing it precedes all below it, and *)
(* so does all that is below what precedes.                                *)
LEMMA PrecedesBelow ==
    ASSUME NEW p \in Prefixes, NEW q \in Prefixes, NEW r \in Prefixes, NEW s \in Prefixes,
           Precedes(p, q), ~Contains(p, q), Contains(p, r), Contains(q, s)
    PROVE  Precedes(r, s) /\ ~Contains(r, s)
<1>1. PICK i \in Int : DiffersAt(p, q, i) /\ p[i] < q[i]
  BY PrecedesBits
<1>2. /\ Len(p) \in Nat /\ Len(q) \in Nat /\ Len(r) \in Nat /\ Len(s) \in Nat
  BY PrefixIsSeq
<1>3. /\ Len(p) <= Len(r) /\ \A j \in 1 .. Len(p) : p[j] = r[j]
      /\ Len(q) <= Len(s) /\ \A j \in 1 .. Len(q) : q[j] = s[j]
  BY ContainsBits
<1>4. /\ i \in 1 .. Len(p) /\ i \in 1 .. Len(q) /\ i \in 1 .. Len(r) /\ i \in 1 .. Len(s)
      /\ \A j \in 1 .. i - 1 : j \in 1 .. Len(p) /\ j \in 1 .. Len(q) /\ p[j] = q[j]
  BY <1>1, <1>2, <1>3 DEF DiffersAt
<1>5. r[i] = p[i] /\ s[i] = q[i] /\ \A j \in 1 .. i - 1 : r[j] = s[j]
  BY <1>3, <1>4
<1>6. DiffersAt(r, s, i) /\ r[i] < s[i]
  BY <1>1, <1>4, <1>5 DEF DiffersAt
<1> QED
  BY <1>6, PrecedesBits, DiffersApart

(* What precedes a prefix precedes all that it precedes.                   *)
LEMMA PrecedesTransitive ==
    ASSUME NEW p \in Prefixes, NEW q \in Prefixes, NEW r \in Prefixes,
           Precedes(p, q), Precedes(q, r)
    PROVE  Precedes(p, r)
<1>1. CASE ~Contains(p, q)
  <2>1. CASE Contains(q, r)
    BY <1>1, <2>1, PrecedesBelow, ContainsReflexive
  <2>2. CASE ~Contains(q, r)
    <3>1. PICK i \in Int : DiffersAt(p, q, i) /\ p[i] < q[i]
      BY <1>1, PrecedesBits
    <3>2. PICK k \in Int : DiffersAt(q, r, k) /\ q[k] < r[k]
      BY <2>2, PrecedesBits
    <3>3. p[i] \in {0, 1} /\ q[i] \in {0, 1} /\ q[k] \in {0, 1} /\ r[k] \in {0, 1}
      BY <3>1, <3>2, DiffersApart
    <3>4. i # k
      BY <3>1, <3>2, <3>3
    <3>5. Len(p) \in Nat /\ Len(q) \in Nat /\ Len(r) \in Nat
      BY PrefixIsSeq
    <3>6. CASE i < k
      <4>1. q[i] = r[i] /\ i \in 1 .. Len(r) /\ \A j \in 1 .. i - 1 : p[j] = r[j]
        BY <3>1, <3>2, <3>5, <3>6 DEF DiffersAt
      <4>2. DiffersAt(p, r, i) /\ p[i] < r[i]
        BY <3>1, <4>1 DEF DiffersAt
      <4> QED
        BY <4>2, PrecedesBits
    <3>7. CASE k < i
      <4>1. p[k] = q[k] /\ k \in 1 .. Len(p) /\ \A j \in 1 .. k - 1 : p[j] = r[j]
        BY <3>1, <3>2, <3>5, <3>7 DEF DiffersAt
      <4>2. DiffersAt(p, r, k) /\ p[k] < r[k]
        BY <3>2, <4>1 DEF DiffersAt
      <4> QED
        BY <4>2, PrecedesBits
    <3> QED
      BY <3>4, <3>6, <3>7
  <2> QED
    BY <2>1, <2>2
<1>2. CASE Contains(p, q)
  <2>1. CASE Contains(q, r)
    <3>1. Contains(p, r)
      BY <1>2, <2>1, ContainsTransitive
    <3>2. p # q /\ q # r
      BY PrecedesAsymmetric
    <3>3. Len(p) < Len(q) /\ Len(q) < Len(r) /\ Len(p) \in Nat /\ Len(q) \in Nat /\ Len(r) \in Nat
      BY <3>2, <1>2, <2>1, ContainsLen, PrefixIsSeq
    <3>4. p # r
      BY <3>3
    <3> QED
      BY <3>1, <3>4, PrecedesBits
  <2>2. CASE ~Contains(q, r)
    <3>1. PICK k \in Int : DiffersAt(q, r, k) /\ q[k] < r[k]
      BY <2>2, PrecedesBits
    <3>2. /\ Len(p) \in Nat /\ Len(q) \in Nat /\ Len(r) \in Nat
          /\ Len(p) <= Len(q) /\ \A i \in 1 .. Len(p) : p[i] = q[i]
      BY <1>2, PrefixIsSeq, ContainsBits
    <3>3. CASE k <= Len(p)
      <4>1. DiffersAt(p, r, k) /\ p[k] < r[k]
        BY <3>1, <3>2, <3>3 DEF DiffersAt
      <4> QED
        BY <4>1, PrecedesBits
    <3>4. CASE Len(p) < k
      <4>1. Len(p) < Len(r) /\ \A i \in 1 .. Len(p) : p[i] = r[i]
        BY <3>1, <3>2, <3>4 DEF DiffersAt
      <4>2. Contains(p, r) /\ p # r
        BY <4>1, <3>2, ContainsBits
      <4> QED
        BY <4>2, PrecedesBits
    <3> QED
      BY <3>1, <3>2, <3>3, <3>4
  <2> QED
    BY <2>1, <2>2
<1> QED
  BY <1>1, <1>2

(* The left half of a prefix precedes the right. *)
LEMMA LeftPrecedesRight ==
    ASSUME NEW n \in Prefixes, NEW p \in Prefixes, NEW q \in Prefixes,
           Contains(n, p), Contains(n, q), Len(n) < Len(p), Len(n) < Len(q),
           Bit(p, Len(n)) = 0, Bit(q, Len(n)) = 1
    PROVE  Precedes(p, q) /\ ~Contains(p, q)
<1>1. Len(n) \in Nat /\ Len(p) \in Nat /\ Len(q) \in Nat
  BY PrefixIsSeq
<1>2. /\ \A i \in 1 .. Len(n) : n[i] = p[i]
      /\ \A i \in 1 .. Len(n) : n[i] = q[i]
      /\ p[Len(n) + 1] = 0 /\ q[Len(n) + 1] = 1
  BY ContainsBits DEF Bit
<1>3. DiffersAt(p, q, Len(n) + 1) /\ p[Len(n) + 1] < q[Len(n) + 1]
  BY <1>1, <1>2 DEF DiffersAt
<1> QED
  BY <1>1, <1>3, PrecedesBits, DiffersApart

-----------------------------------------------------------------------------
(* The nodes of an object are a tree.                                      *)
Tree(t) ==
    /\ t = [root |-> t.root, node |-> t.node, size |-> t.size]
    /\ t.root \in Pointers(t.node)
    /\ DOMAIN t.node \subseteq Prefixes
    /\ \A n \in DOMAIN t.node : t.node[n] \in Node
    /\ KidsExtend(t)
    /\ AllHang(t)

(* The null pointer is no node.                                            *)
LEMMA NilIsNoPrefix == Nil \notin Prefixes
BY TrieAssumption

(* What is known of a child pointer: the child extends its node by the bit *)
(* it hangs on.                                                            *)
LEMMA KidFacts ==
    ASSUME NEW t, Tree(t), NEW n \in DOMAIN t.node, NEW b \in {0, 1}
    PROVE  /\ n \in Prefixes /\ n # Nil
           /\ t.node[n].kids[b] \in Pointers(t.node)
           /\ t.node[n].kids[b] = Nil => HasValue(t.node, n)
           /\ t.node[n].kids[b] # Nil =>
                 /\ t.node[n].kids[b] \in DOMAIN t.node /\ t.node[n].kids[b] \in Prefixes
                 /\ Contains(n, t.node[n].kids[b]) /\ n # t.node[n].kids[b]
                 /\ Len(n) < Len(t.node[n].kids[b])
                 /\ Bit(t.node[n].kids[b], Len(n)) = b
<1> DEFINE kid == t.node[n].kids[b]
<1>1. n \in Prefixes /\ n # Nil
  BY NilIsNoPrefix DEF Tree
<1>2. IF kid = Nil THEN HasValue(t.node, n)
      ELSE kid \in DOMAIN t.node /\ Ext!IsStrictPrefix(n, kid) /\ Bit(kid, Len(n)) = b
  BY DEF Tree, KidsExtend
<1> HIDE DEF kid
<1>3. ASSUME kid # Nil
      PROVE  /\ kid \in DOMAIN t.node /\ kid \in Prefixes
             /\ Contains(n, kid) /\ n # kid /\ Len(n) < Len(kid) /\ Bit(kid, Len(n)) = b
  <2>1. kid \in DOMAIN t.node /\ kid \in Prefixes
    BY <1>2, <1>3 DEF Tree
  <2>2. Contains(n, kid) /\ n # kid
    BY <1>2, <1>3, StrictIsContains
  <2> QED
    BY <1>1, <1>2, <1>3, <2>1, <2>2, ContainsLen
<1> QED
  BY <1>1, <1>2, <1>3 DEF kid, Pointers

(* The measure of a node: how many bits are below it.                      *)
Below(h) == [n \in Pointers(h) |-> IF n = Nil THEN 0 ELSE Width + 1 - Len(n)]

(* A child has fewer bits below it than its node.                          *)
LEMMA BelowIsMeasure ==
    ASSUME NEW t, Tree(t)
    PROVE  /\ Below(t.node) \in [Pointers(t.node) -> Nat]
           /\ \A n \in Pointers(t.node) : Below(t.node)[n] < Width + 2
           /\ \A n \in DOMAIN t.node, b \in {0, 1} :
                 Below(t.node)[t.node[n].kids[b]] < Below(t.node)[n]
           /\ \A n \in DOMAIN t.node : Below(t.node)[n] = Width + 1 - Len(n)
<1>1. Width \in Nat
  BY TrieAssumption
<1>2. ASSUME NEW n \in Pointers(t.node)
      PROVE  /\ n = Nil \/ (n \in DOMAIN t.node /\ n # Nil /\ Len(n) \in Nat /\ Len(n) <= Width)
             /\ Below(t.node)[n] = IF n = Nil THEN 0 ELSE Width + 1 - Len(n)
  BY PrefixIsSeq, NilIsNoPrefix DEF Below, Pointers, Tree
<1>3. ASSUME NEW n \in Pointers(t.node)
      PROVE Below(t.node)[n] \in Nat /\ Below(t.node)[n] < Width + 2
  BY <1>1, <1>2
<1>4. ASSUME NEW n \in DOMAIN t.node
      PROVE Below(t.node)[n] = Width + 1 - Len(n) /\ Len(n) \in Nat /\ Len(n) <= Width
  BY <1>2, NilIsNoPrefix DEF Pointers, Tree
<1>5. ASSUME NEW n \in DOMAIN t.node, NEW b \in {0, 1}
      PROVE Below(t.node)[t.node[n].kids[b]] < Below(t.node)[n]
  <2> DEFINE kid == t.node[n].kids[b]
  <2>1. kid \in Pointers(t.node) /\ (kid # Nil => kid \in DOMAIN t.node /\ Len(n) < Len(kid))
    BY KidFacts
  <2> HIDE DEF kid
  <2>2. CASE kid = Nil
    BY <2>1, <2>2, <1>1, <1>2, <1>4 DEF kid
  <2>3. CASE kid # Nil
    <3>1. Below(t.node)[kid] = Width + 1 - Len(kid) /\ Len(kid) \in Nat /\ Len(n) < Len(kid)
      BY <2>1, <2>3, <1>4
    <3>2. Below(t.node)[n] = Width + 1 - Len(n) /\ Len(n) \in Nat
      BY <1>4
    <3>3. Below(t.node)[kid] < Below(t.node)[n]
      BY <3>1, <3>2, <1>1
    <3> QED
      BY <3>3 DEF kid
  <2> QED
    BY <2>2, <2>3
<1>6. DOMAIN Below(t.node) = Pointers(t.node)
  BY DEF Below
<1> QED
  BY <1>3, <1>4, <1>5, <1>6 DEF Below

(* Every node is the root, or hangs on a node that contains it.            *)
LEMMA UpFacts ==
    ASSUME NEW t, Tree(t), NEW n \in DOMAIN t.node, n # t.root
    PROVE  \E up \in DOMAIN t.node, b \in {0, 1} :
              /\ t.node[up].kids[b] = n
              /\ up \in Prefixes /\ Contains(up, n) /\ Len(up) < Len(n) /\ Bit(n, Len(up)) = b
<1>1. PICK up \in DOMAIN t.node, b \in {0, 1} : t.node[up].kids[b] = n
  BY DEF Tree, AllHang, IsKid
<1>2. n # Nil
  BY NilIsNoPrefix DEF Tree
<1> QED
  BY <1>1, <1>2, KidFacts

(* The root contains every node.                                           *)
LEMMA RootAbove ==
    ASSUME NEW t, Tree(t), NEW n \in DOMAIN t.node
    PROVE  t.root \in DOMAIN t.node /\ Contains(t.root, n)
<1>1. t.root \in DOMAIN t.node /\ DOMAIN t.node \subseteq Prefixes
  BY DEF Tree, AllHang, Pointers
<1> DEFINE S == DOMAIN t.node
           T == {q \in S : Contains(t.root, q)}
           m == [q \in S |-> Len(q)]
<1>2. m \in [S -> Nat]
  BY <1>1, PrefixIsSeq
<1>3. ASSUME NEW x \in S, \A y \in S : m[y] < m[x] => y \in T PROVE x \in T
  <2>1. CASE x = t.root
    BY <1>1, <2>1, ContainsReflexive
  <2>2. CASE x # t.root
    <3>1. PICK up \in DOMAIN t.node, b \in {0, 1} :
              up \in Prefixes /\ Contains(up, x) /\ Len(up) < Len(x)
      BY <2>2, UpFacts
    <3>2. up \in T
      BY <3>1, <1>3
    <3>3. Contains(t.root, x)
      BY <3>1, <3>2, <1>1, ContainsTransitive
    <3> QED
      BY <3>3
  <2> QED
    BY <2>1, <2>2
<1> HIDE DEF T, m
<1>4. S \subseteq T
  BY <1>2, <1>3, MeasureInduction
<1> QED
  BY <1>1, <1>4 DEF T

(* Below a node, every other node is below one of its children.            *)
LEMMA Through ==
    ASSUME NEW t, Tree(t), NEW a \in DOMAIN t.node, NEW b \in DOMAIN t.node,
           Contains(a, b), a # b
    PROVE  /\ t.node[a].kids[Bit(b, Len(a))] # Nil
           /\ Contains(t.node[a].kids[Bit(b, Len(a))], b)
<1> DEFINE S == DOMAIN t.node
           kid(c, d) == t.node[c].kids[Bit(d, Len(c))]
           T == {d \in S : \A c \in S : Contains(c, d) /\ c # d => kid(c, d) # Nil /\ Contains(kid(c, d), d)}
           m == [q \in S |-> Len(q)]
<1>1. S \subseteq Prefixes
  BY DEF Tree
<1>2. m \in [S -> Nat]
  BY <1>1, PrefixIsSeq
<1>3. ASSUME NEW x \in S, \A y \in S : m[y] < m[x] => y \in T PROVE x \in T
  <2> SUFFICES ASSUME NEW c \in S, Contains(c, x), c # x
               PROVE  kid(c, x) # Nil /\ Contains(kid(c, x), x)
    OBVIOUS
  <2>1. c \in Prefixes /\ x \in Prefixes /\ Len(c) < Len(x) /\ Len(c) \in Nat /\ Len(x) \in Nat
    BY <1>1, ContainsLen, PrefixIsSeq
  <2>2. x # t.root
    <3>1. SUFFICES ASSUME x = t.root PROVE FALSE
      OBVIOUS
    <3>2. Contains(x, c)
      BY <3>1, RootAbove
    <3>3. Len(x) <= Len(c)
      BY <2>1, <3>2, ContainsLen
    <3> QED
      BY <3>3, <2>1
  <2>3. PICK up \in S, b1 \in {0, 1} :
            /\ t.node[up].kids[b1] = x
            /\ up \in Prefixes /\ Contains(up, x) /\ Len(up) < Len(x) /\ Bit(x, Len(up)) = b1
    BY <2>2, UpFacts
  <2>4. kid(up, x) = x /\ x # Nil /\ Contains(x, x)
    BY <2>1, <2>3, NilIsNoPrefix, ContainsReflexive
  <2>5. Len(up) \in Nat
    BY <2>3, PrefixIsSeq
  <2>6. CASE up = c
    BY <2>4, <2>6
  <2>7. CASE up # c /\ Len(c) <= Len(up)
    <3>1. Contains(c, up)
      BY <2>1, <2>3, <2>7, ContainsChain
    <3>2. up \in T
      BY <1>3, <2>3
    <3>3. kid(c, up) # Nil /\ Contains(kid(c, up), up)
      BY <3>1, <3>2, <2>7
    <3>4. Len(c) < Len(up)
      BY <3>1, <2>1, <2>3, <2>7, ContainsLen
    <3>5. Bit(up, Len(c)) = Bit(x, Len(c))
      BY <3>4, <2>1, <2>3, SideBitBelow
    <3>6. kid(c, x) \in Prefixes
      <4>1. Bit(x, Len(c)) \in {0, 1}
        BY <2>1, SideBit
      <4> QED
        BY <4>1, <3>3, <3>5, KidFacts
    <3>7. Contains(kid(c, x), x)
      BY <3>3, <3>5, <3>6, <2>1, <2>3, ContainsTransitive
    <3> QED
      BY <3>3, <3>5, <3>7
  <2>8. CASE up # c /\ ~(Len(c) <= Len(up))
    <3>1. Contains(up, c)
      BY <2>1, <2>3, <2>5, <2>8, ContainsChain
    <3>2. c \in T
      BY <1>3, <2>1
    <3>3. Contains(kid(up, c), c)
      BY <3>1, <3>2, <2>3, <2>8
    <3>4. Bit(c, Len(up)) = Bit(x, Len(up))
      BY <2>1, <2>3, <2>5, <2>8, SideBitBelow
    <3>5. Contains(x, c)
      BY <3>3, <3>4, <2>4
    <3> QED
      BY <3>5, <2>1, ContainsLen
  <2> QED
    BY <2>6, <2>7, <2>8
<1> HIDE DEF T, m
<1>4. S \subseteq T
  BY <1>2, <1>3, MeasureInduction
<1> QED
  BY <1>4 DEF T

-----------------------------------------------------------------------------
(* The lookups.                                                            *)

(* The entries between a node and the prefix that is looked up; p itself   *)
(* when the lookup ends with it.                                           *)
Between(t, n, p, atEnd) ==
    {q \in ValueNodes(t.node) : Contains(n, q) /\ Contains(q, p) /\ (q # p \/ atEnd = <<p>>)}

Rising(s, S) ==
    /\ s \in Seq(Prefixes)
    /\ \A q : q \in S <=> \E i \in 1 .. Len(s) : s[i] = q
    /\ \A i, j \in 1 .. Len(s) : i < j => Len(s[i]) < Len(s[j])

(* No entries, in order.                                                   *)
LEMMA RisingEmpty == Rising(<<>>, {})
BY DEF Rising

(* One entry, in order.                                                    *)
LEMMA RisingOne ==
    ASSUME NEW n \in Prefixes PROVE Rising(<<n>>, {n})
BY DEF Rising

(* A shorter prefix before longer ones.                                    *)
LEMMA RisingPrepend ==
    ASSUME NEW n \in Prefixes, NEW s, NEW S, Rising(s, S), \A q \in S : Len(n) < Len(q)
    PROVE  Rising(<<n>> \o s, {n} \cup S)
<1> DEFINE u == <<n>> \o s
<1>1. s \in Seq(Prefixes) /\ <<n>> \in Seq(Prefixes) /\ Len(<<n>>) = 1 /\ <<n>>[1] = n /\ Len(s) \in Nat
  BY DEF Rising
<1>2. /\ u \in Seq(Prefixes) /\ Len(u) = Len(<<n>>) + Len(s)
      /\ \A i \in 1 .. Len(<<n>>) + Len(s) :
            u[i] = IF i <= Len(<<n>>) THEN <<n>>[i] ELSE s[i - Len(<<n>>)]
  BY <1>1, ConcatProperties
<1> HIDE DEF u
<1>3. Len(u) = 1 + Len(s) /\ \A i \in 1 .. 1 + Len(s) : u[i] = IF i <= 1 THEN n ELSE s[i - 1]
  <2>1. \A i \in 1 .. 1 + Len(s) : i <= 1 => i = 1
    BY <1>1
  <2> QED
    BY <1>1, <1>2, <2>1
<1>4. u[1] = n /\ 1 \in 1 .. Len(u) /\ \A i \in 1 .. Len(s) : i + 1 \in 1 .. Len(u) /\ u[i + 1] = s[i]
  BY <1>1, <1>3
<1>5. \A i \in 1 .. Len(u) : i = 1 \/ (i - 1 \in 1 .. Len(s) /\ u[i] = s[i - 1] /\ i > 1)
  BY <1>1, <1>3
<1>6. \A q : q \in {n} \cup S <=> \E i \in 1 .. Len(u) : u[i] = q
  <2>1. ASSUME NEW q, q \in S PROVE \E i \in 1 .. Len(u) : u[i] = q
    <3>1. PICK i \in 1 .. Len(s) : s[i] = q
      BY <2>1 DEF Rising
    <3> QED
      BY <3>1, <1>4
  <2>2. ASSUME NEW i \in 1 .. Len(u) PROVE u[i] \in {n} \cup S
    BY <1>4, <1>5 DEF Rising
  <2> QED
    BY <1>4, <2>1, <2>2
<1>7. ASSUME NEW i \in 1 .. Len(u), NEW j \in 1 .. Len(u), i < j PROVE Len(u[i]) < Len(u[j])
  <2>1. j - 1 \in 1 .. Len(s) /\ u[j] = s[j - 1] /\ j > 1
    BY <1>1, <1>3, <1>5, <1>7
  <2>2. CASE i = 1
    BY <2>1, <2>2, <1>4 DEF Rising
  <2>3. CASE i # 1
    <3>1. i - 1 \in 1 .. Len(s) /\ u[i] = s[i - 1] /\ i - 1 < j - 1
      BY <1>5, <1>7, <2>3
    <3> QED
      BY <2>1, <3>1 DEF Rising
  <2> QED
    BY <2>2, <2>3
<1> QED
  BY <1>2, <1>6, <1>7 DEF u, Rising

(* What Descent calls with the recursion unfolded once. *)
DescentStep(t, p, atEnd, f, n) ==
    IF n = Nil \/ ~Contains(n, p) THEN <<>>
    ELSE IF Len(n) >= Len(p) THEN atEnd
    ELSE Pushed(t.node, n) \o f[t.node[n].kids[Bit(p, Len(n))]]

(* A lookup goes on as it does one level down.                             *)
LEMMA DescentUnfolds ==
    ASSUME NEW t, Tree(t), NEW p \in Prefixes, NEW atEnd \in Seq(Prefixes)
    PROVE  \E f : /\ \A n \in Pointers(t.node) : f[n] = DescentStep(t, p, atEnd, f, n)
                  /\ Descent(t, p, atEnd) = f[t.root]
<1> DEFINE S == Pointers(t.node)
           V == Seq(Prefixes)
           done == {n \in S : n = Nil \/ ~Contains(n, p) \/ Len(n) >= Len(p)}
           next == [n \in S |-> IF n \in done THEN n ELSE t.node[n].kids[Bit(p, Len(n))]]
           r == [n \in S |-> IF n = Nil \/ ~Contains(n, p) THEN <<>> ELSE atEnd]
           c == [x \in S \X V |-> IF x[1] = Nil THEN <<>> ELSE Pushed(t.node, x[1]) \o x[2]]
<1>1. ASSUME NEW n \in S, n \notin done
      PROVE  /\ n \in DOMAIN t.node /\ n \in Prefixes /\ n # Nil
             /\ Contains(n, p) /\ ~(Len(n) >= Len(p)) /\ Bit(p, Len(n)) \in {0, 1}
             /\ next[n] = t.node[n].kids[Bit(p, Len(n))] /\ next[n] \in S
  <2>1. n \in DOMAIN t.node /\ n \in Prefixes /\ n # Nil /\ Contains(n, p) /\ ~(Len(n) >= Len(p))
    BY <1>1 DEF Pointers, Tree
  <2>2. Len(n) < Len(p)
    BY <2>1, PrefixIsSeq
  <2>3. Bit(p, Len(n)) \in {0, 1}
    BY <2>1, <2>2, SideBit
  <2>4. next[n] = t.node[n].kids[Bit(p, Len(n))] /\ next[n] \in S
    BY <1>1, <2>1, <2>3, KidFacts
  <2> QED
    BY <2>1, <2>3, <2>4
<1>2. next \in [S -> S]
  BY <1>1
<1>3. Below(t.node) \in [S -> Nat] /\ Width + 2 \in Nat /\ \A n \in S : Below(t.node)[n] < Width + 2
  <2>1. Width + 2 \in Nat
    BY TrieAssumption
  <2> QED
    BY <2>1, BelowIsMeasure
<1>4. \A n \in S \ done : Below(t.node)[next[n]] < Below(t.node)[n]
  BY <1>1, BelowIsMeasure
<1>5. <<>> \in V
  OBVIOUS
<1>6. r \in [S -> V]
  BY <1>5
<1>7. c \in [S \X V -> V]
  <2>1. ASSUME NEW n \in S, n # Nil, NEW s \in V PROVE Pushed(t.node, n) \o s \in V
    <3>1. n \in Prefixes
      BY <2>1 DEF Pointers, Tree
    <3>2. Pushed(t.node, n) \in V
      BY <3>1, <1>5 DEF Pushed
    <3> QED
      BY <3>2
  <2> QED
    BY <1>5, <2>1
<1> DEFINE m == Below(t.node)
           N == Width + 2
<1> HIDE DEF next, r, c, done, S, V
<1>14. m \in [S -> Nat] /\ N \in Nat /\ (\A n \in S : m[n] < N) /\ \A n \in S \ done : m[next[n]] < m[n]
  BY <1>3, <1>4
<1> HIDE DEF m, N
<1>15. PICK g \in [S -> V] : Solves(g, S, done, next, r, c)
  BY <1>2, <1>14, <1>6, <1>7, LinearRecursion
<1>8. g \in [S -> V] /\ \A n \in S : g[n] = IF n \in done THEN r[n] ELSE c[<<n, g[next[n]]>>]
  BY <1>15 DEF Solves
<1> USE DEF S, V
<1>9. \A n \in S : g[n] = DescentStep(t, p, atEnd, g, n)
  <2>1. ASSUME NEW n \in S, n \in done PROVE g[n] = DescentStep(t, p, atEnd, g, n)
    BY <2>1, <1>8 DEF r, done, DescentStep
  <2>2. ASSUME NEW n \in S, n \notin done PROVE g[n] = DescentStep(t, p, atEnd, g, n)
    <3>1. <<n, g[next[n]]>> \in S \X V
      BY <2>2, <1>1, <1>8
    <3>2. c[<<n, g[next[n]]>>] = Pushed(t.node, n) \o g[next[n]]
      BY <3>1, <2>2, <1>1 DEF c
    <3> QED
      BY <3>2, <2>2, <1>1, <1>8 DEF DescentStep
  <2> QED
    BY <2>1, <2>2
<1> DEFINE E(f) == [n \in S |-> DescentStep(t, p, atEnd, f, n)]
           d == CHOOSE f : f = E(f)
<1>10. g = E(g)
  BY <1>8, <1>9
<1>11. d = E(d)
  BY <1>10
<1>12. Descent(t, p, atEnd) = d[t.root]
  BY DEF Descent, DescentStep
<1>13. \A n \in S : d[n] = DescentStep(t, p, atEnd, d, n)
  BY <1>11
<1> QED
  BY <1>12, <1>13

(* A lookup finds the entries that contain the address, the widest first.  *)
LEMMA DescentFinds ==
    ASSUME NEW t, Tree(t), NEW p \in Prefixes, NEW atEnd,
           atEnd = <<>> \/ (atEnd = <<p>> /\ p \in ValueNodes(t.node))
    PROVE  Rising(Descent(t, p, atEnd),
                  {q \in ValueNodes(t.node) : Contains(q, p) /\ (q # p \/ atEnd = <<p>>)})
<1>0. DOMAIN t.node \subseteq Prefixes /\ ValueNodes(t.node) \subseteq DOMAIN t.node
  BY DEF Tree, ValueNodes
<1>1. atEnd \in Seq(Prefixes)
  <2>1. <<p>> \in Seq(Prefixes) /\ <<>> \in Seq(Prefixes)
    OBVIOUS
  <2> QED
    BY <2>1
<1>2. PICK f : /\ \A n \in Pointers(t.node) : f[n] = DescentStep(t, p, atEnd, f, n)
               /\ Descent(t, p, atEnd) = f[t.root]
  BY <1>1, DescentUnfolds
<1> DEFINE S == Pointers(t.node)
           Found(n) == IF n = Nil THEN {} ELSE Between(t, n, p, atEnd)
           T == {n \in S : Rising(f[n], Found(n))}
<1>3. ASSUME NEW n \in S, \A y \in S : Below(t.node)[y] < Below(t.node)[n] => y \in T
      PROVE  n \in T
  <2>1. CASE n = Nil
    BY <2>1, <1>2, RisingEmpty DEF DescentStep
  <2>2. CASE n # Nil
    <3>1. n \in DOMAIN t.node /\ n \in Prefixes
      BY <2>2 DEF Pointers, Tree
    <3>2. CASE ~Contains(n, p)
      <4>1. f[n] = <<>>
        BY <3>2, <1>2 DEF DescentStep
      <4>2. Between(t, n, p, atEnd) = {}
        BY <1>0, <3>1, <3>2, ContainsTransitive DEF Between
      <4> QED
        BY <2>2, <4>1, <4>2, RisingEmpty
    <3>3. CASE Contains(n, p) /\ Len(n) >= Len(p)
      <4>1. n = p
        BY <3>1, <3>3, ContainsLen, PrefixIsSeq
      <4>2. f[n] = atEnd
        BY <2>2, <3>3, <1>2 DEF DescentStep
      <4>3. \A q \in Prefixes : Contains(n, q) /\ Contains(q, p) => q = p
        <5> SUFFICES ASSUME NEW q \in Prefixes, Contains(p, q), Contains(q, p) PROVE q = p
          BY <4>1
        <5>1. Len(p) <= Len(q) /\ Len(q) <= Len(p) /\ Len(p) \in Nat /\ Len(q) \in Nat
          BY ContainsLen, PrefixIsSeq
        <5> QED
          BY <5>1, ContainsLen
      <4>4. CASE atEnd = <<>>
        <5>1. Between(t, n, p, atEnd) = {}
          BY <1>0, <4>3, <4>4 DEF Between
        <5> QED
          BY <2>2, <4>2, <4>4, <5>1, RisingEmpty
      <4>5. CASE atEnd = <<p>> /\ p \in ValueNodes(t.node)
        <5>1. Between(t, n, p, atEnd) = {p}
          BY <1>0, <4>1, <4>3, <4>5, ContainsReflexive DEF Between
        <5> QED
          BY <2>2, <4>2, <4>5, <5>1, RisingOne
      <4> QED
        BY <4>4, <4>5
    <3>4. CASE Contains(n, p) /\ ~(Len(n) >= Len(p))
      <4> DEFINE kid == t.node[n].kids[Bit(p, Len(n))]
      <4>1. Len(n) < Len(p) /\ Len(n) \in Nat /\ Len(p) \in Nat
        BY <3>1, <3>4, PrefixIsSeq
      <4>2. Bit(p, Len(n)) \in {0, 1}
        BY <3>1, <4>1, SideBit
      <4>3. kid \in S /\ Below(t.node)[kid] < Below(t.node)[n]
        BY <3>1, <4>2, KidFacts, BelowIsMeasure
      <4>4. kid # Nil => kid \in Prefixes /\ Contains(n, kid) /\ Len(n) < Len(kid)
        BY <3>1, <4>2, KidFacts
      <4>5. f[n] = Pushed(t.node, n) \o f[kid]
        BY <2>2, <3>4, <1>2 DEF DescentStep
      <4>6. ASSUME NEW q \in ValueNodes(t.node), Contains(n, q), Contains(q, p), q # n
            PROVE kid # Nil /\ Contains(kid, q)
        <5>1. q \in DOMAIN t.node /\ q \in Prefixes
          BY <1>0
        <5>2. Len(n) < Len(q)
          BY <3>1, <5>1, <4>6, ContainsLen
        <5>3. Bit(q, Len(n)) = Bit(p, Len(n))
          BY <3>1, <5>1, <5>2, <4>6, SideBitBelow
        <5> QED
          BY <3>1, <5>1, <5>3, <4>6, Through
      <4> HIDE DEF kid
      <4>7. Rising(f[kid], Found(kid))
        BY <4>3, <1>3
      <4>8. \A q \in Found(kid) : /\ q \in ValueNodes(t.node) /\ q \in Prefixes /\ kid # Nil
                                  /\ Contains(kid, q) /\ Contains(q, p) /\ (q # p \/ atEnd = <<p>>)
        BY <1>0 DEF Between
      <4>9. \A q \in Found(kid) : Contains(n, q) /\ Len(n) < Len(q)
        <5> SUFFICES ASSUME NEW q \in Found(kid) PROVE Contains(n, q) /\ Len(n) < Len(q)
          OBVIOUS
        <5>1. q \in Prefixes /\ kid \in Prefixes /\ Contains(kid, q) /\ Contains(n, kid) /\ Len(n) < Len(kid)
          BY <4>4, <4>8
        <5>2. Len(kid) <= Len(q) /\ Len(kid) \in Nat /\ Len(q) \in Nat
          BY <5>1, ContainsLen, PrefixIsSeq
        <5> QED
          BY <5>1, <5>2, <4>1, <3>1, ContainsTransitive
      <4>10. Found(n) = Between(t, n, p, atEnd)
        BY <2>2
      <4>11. n # p
        BY <4>1
      <4>12. CASE HasValue(t.node, n)
        <5>1. f[n] = <<n>> \o f[kid]
          BY <4>5, <4>12 DEF Pushed
        <5>2. Found(n) = {n} \cup Found(kid)
          <6>1. n \in Between(t, n, p, atEnd)
            BY <3>1, <3>4, <4>11, <4>12, ContainsReflexive DEF Between, ValueNodes
          <6>2. Found(kid) \subseteq Between(t, n, p, atEnd)
            BY <4>8, <4>9 DEF Between
          <6>3. ASSUME NEW q \in Between(t, n, p, atEnd), q # n PROVE q \in Found(kid)
            BY <6>3, <4>6 DEF Between
          <6> QED
            BY <6>1, <6>2, <6>3, <4>10
        <5>3. Rising(<<n>> \o f[kid], {n} \cup Found(kid))
          BY <3>1, <4>7, <4>9, RisingPrepend
        <5> QED
          BY <5>1, <5>2, <5>3
      <4>13. CASE ~HasValue(t.node, n)
        <5>1. f[n] = f[kid]
          BY <4>5, <4>7, <4>13, ConcatEmptySeq DEF Pushed, Rising
        <5>2. Found(n) = Found(kid)
          <6>1. Found(kid) \subseteq Between(t, n, p, atEnd)
            BY <4>8, <4>9 DEF Between
          <6>2. ASSUME NEW q \in Between(t, n, p, atEnd) PROVE q \in Found(kid)
            <7>1. q # n
              BY <4>13 DEF Between, ValueNodes
            <7> QED
              BY <7>1, <4>6 DEF Between
          <6>3. Found(kid) = Between(t, n, p, atEnd)
            BY <6>1, <6>2
          <6> QED
            BY <6>3, <4>10
        <5> QED
          BY <5>1, <5>2, <4>7
      <4> QED
        BY <4>12, <4>13
    <3> QED
      BY <3>2, <3>3, <3>4
  <2> QED
    BY <2>1, <2>2
<1> HIDE DEF T
<1>4. S \subseteq T
  BY <1>3, BelowIsMeasure, MeasureInduction
<1>5. Rising(f[t.root], Found(t.root))
  BY <1>4 DEF T, Tree
<1>6. Found(t.root) = {q \in ValueNodes(t.node) : Contains(q, p) /\ (q # p \/ atEnd = <<p>>)}
  <2>1. CASE t.root = Nil
    BY <2>1 DEF Tree, AllHang, ValueNodes
  <2>2. CASE t.root # Nil
    BY <2>2, <1>0, RootAbove DEF Between
  <2> QED
    BY <2>1, <2>2
<1> QED
  BY <1>2, <1>5, <1>6

Covering(t, p) == {q \in ValueNodes(t.node) : Contains(q, p)}

(* Prefixes that contain the same one are in order when the shorter ones   *)
(* come first.                                                             *)
LEMMA RisingSorts ==
    ASSUME NEW p \in Prefixes, NEW s, NEW S, Rising(s, S),
           \A q \in S : q \in Prefixes /\ Contains(q, p)
    PROVE  Sorts(s, S)
<1>1. s \in Seq(Prefixes) /\ DOMAIN s = 1 .. Len(s)
  BY LenProperties DEF Rising
<1>2. Ext!ToSet(s) = S
  BY <1>1 DEF Rising, Ext!ToSet
<1>3. ASSUME NEW i \in 1 .. Len(s), NEW j \in 1 .. Len(s), i < j PROVE Precedes(s[i], s[j])
  <2>1. s[i] \in S /\ s[j] \in S /\ Len(s[i]) < Len(s[j])
    BY <1>3 DEF Rising
  <2> DEFINE x == s[i]
             y == s[j]
  <2>2. x \in Prefixes /\ y \in Prefixes /\ Contains(x, p) /\ Contains(y, p) /\ Len(x) < Len(y)
    BY <2>1
  <2> HIDE DEF x, y
  <2>3. Len(x) \in Nat /\ Len(y) \in Nat
    BY <2>2, PrefixIsSeq
  <2>4. Contains(x, y) /\ x # y
    BY <2>2, <2>3, ContainsChain
  <2>5. Precedes(x, y)
    BY <2>2, <2>4, PrecedesBits
  <2> QED
    BY <2>5 DEF x, y
<1> QED
  BY <1>1, <1>2, <1>3 DEF Sorts

(* find_matches and find_wider find all the entries there are to find.     *)
LEMMA MatchesFound ==
    ASSUME NEW t, Tree(t), NEW p \in Prefixes
    PROVE  /\ Rising(Matches(t, p), Covering(t, p))
           /\ Rising(Wider(t, p), Covering(t, p) \ {p})
           /\ \A q \in Covering(t, p) : q \in Prefixes /\ Contains(q, p)
<1>1. <<>> # <<p>>
  OBVIOUS
<1>2. ValueNodes(t.node) \subseteq Prefixes
  BY DEF Tree, ValueNodes
<1>3. Rising(Wider(t, p), Covering(t, p) \ {p})
  <2>1. Rising(Descent(t, p, <<>>),
               {q \in ValueNodes(t.node) : Contains(q, p) /\ (q # p \/ <<>> = <<p>>)})
    BY DescentFinds
  <2>2. {q \in ValueNodes(t.node) : Contains(q, p) /\ (q # p \/ <<>> = <<p>>)} = Covering(t, p) \ {p}
    BY <1>1 DEF Covering
  <2> QED
    BY <2>1, <2>2 DEF Wider
<1>4. Rising(Matches(t, p), Covering(t, p))
  <2>1. CASE p \in ValueNodes(t.node)
    <3>1. Rising(Descent(t, p, <<p>>),
                 {q \in ValueNodes(t.node) : Contains(q, p) /\ (q # p \/ <<p>> = <<p>>)})
      BY <2>1, DescentFinds
    <3>2. {q \in ValueNodes(t.node) : Contains(q, p) /\ (q # p \/ <<p>> = <<p>>)} = Covering(t, p)
      BY DEF Covering
    <3> QED
      BY <2>1, <3>1, <3>2 DEF Matches
  <2>2. CASE p \notin ValueNodes(t.node)
    <3>1. Covering(t, p) \ {p} = Covering(t, p)
      BY <2>2 DEF Covering
    <3>2. Matches(t, p) = Wider(t, p)
      BY <2>2 DEF Matches, Wider
    <3> QED
      BY <1>3, <3>1, <3>2
  <2> QED
    BY <2>1, <2>2
<1> QED
  BY <1>2, <1>3, <1>4 DEF Covering

(* The last of the matches is the longest.                                 *)
LEMMA LastOfRising ==
    ASSUME NEW s, NEW S, Rising(s, S), S \subseteq Prefixes
    PROVE  IF S = {} THEN LastOrEnd(s) = Nil
           ELSE LastOrEnd(s) \in S /\ \A q \in S : Len(q) <= Len(LastOrEnd(s))
<1>1. s \in Seq(Prefixes) /\ Len(s) \in Nat /\ (s = <<>> <=> Len(s) = 0)
  BY EmptySeq DEF Rising
<1>2. CASE Len(s) = 0
  <2>1. S = {}
    BY <1>2 DEF Rising
  <2> QED
    BY <2>1, <1>1, <1>2 DEF LastOrEnd
<1>3. CASE Len(s) # 0
  <2>1. Len(s) \in 1 .. Len(s) /\ LastOrEnd(s) = s[Len(s)]
    BY <1>1, <1>3 DEF LastOrEnd
  <2>2. s[Len(s)] \in S
    BY <2>1 DEF Rising
  <2>3. ASSUME NEW q \in S PROVE Len(q) <= Len(s[Len(s)])
    <3>1. PICK i \in 1 .. Len(s) : s[i] = q
      BY DEF Rising
    <3>2. CASE i = Len(s)
      <4>1. Len(q) \in Nat
        BY PrefixIsSeq
      <4> QED
        BY <3>1, <3>2, <4>1
    <3>3. CASE i < Len(s)
      <4>1. Len(s[i]) < Len(s[Len(s)])
        BY <3>3, <2>1 DEF Rising
      <4>2. Len(q) \in Nat /\ Len(s[Len(s)]) \in Nat
        BY <2>2, PrefixIsSeq
      <4> QED
        BY <3>1, <4>1, <4>2
    <3> QED
      BY <3>2, <3>3, <1>1
  <2> QED
    BY <2>1, <2>2, <2>3
<1> QED
  BY <1>2, <1>3

(* The four lookups find what a search of all the entries finds.           *)
LEMMA LookupsOf ==
    ASSUME NEW t, Tree(t), NEW p \in Prefixes
    PROVE  LET covering == {q \in ValueNodes(t.node) : Contains(q, p)}
               longest  == FindLongest(t, p)
           IN  /\ Sorts(FindMatches(t, p), covering)
               /\ Sorts(FindWider(t, p), covering \ {p})
               /\ Find(t, p) = IF p \in covering THEN p ELSE Nil
               /\ IF covering = {} THEN longest = Nil
                  ELSE longest \in covering /\ \A q \in covering : Len(q) <= Len(longest)
<1>1. /\ Rising(Matches(t, p), Covering(t, p))
      /\ Rising(Wider(t, p), Covering(t, p) \ {p})
      /\ \A q \in Covering(t, p) : q \in Prefixes /\ Contains(q, p)
  BY MatchesFound
<1>2. Sorts(Matches(t, p), Covering(t, p)) /\ Sorts(Wider(t, p), Covering(t, p) \ {p})
  BY <1>1, RisingSorts
<1>3. Find(t, p) = IF p \in Covering(t, p) THEN p ELSE Nil
  BY <1>2 DEF Find, Sorts
<1>4. IF Covering(t, p) = {} THEN FindLongest(t, p) = Nil
      ELSE FindLongest(t, p) \in Covering(t, p)
           /\ \A q \in Covering(t, p) : Len(q) <= Len(FindLongest(t, p))
  BY <1>1, LastOfRising DEF FindLongest
<1> QED
  BY <1>2, <1>3, <1>4 DEF FindMatches, FindWider, Covering

-----------------------------------------------------------------------------
(* The comparison of addresses word by word.                               *)
WordBits == Width \div Words

(* The quotient of numbers that divide evenly.                             *)
LEMMA DivideEvenly ==
    ASSUME NEW a \in Nat, NEW b \in Nat, b > 0, a % b = 0
    PROVE  a = b * (a \div b) /\ a \div b \in Nat
OBVIOUS

(* The words of an address are as long as each other.                      *)
LEMMA WordsFit == WordBits \in Nat /\ WordBits > 0 /\ Width = Words * WordBits
<1>1. Width \in Nat /\ Words \in Nat /\ Words > 0 /\ Width % Words = 0 /\ Width > 0
  BY TrieAssumption
<1>2. Width = Words * WordBits /\ WordBits \in Nat
  BY <1>1, DivideEvenly DEF WordBits
<1>3. WordBits # 0
  BY <1>1, <1>2
<1> QED
  BY <1>2, <1>3

(* Multiplication keeps the order.                                         *)
LEMMA TimesMonotonic ==
    ASSUME NEW a \in Nat, NEW b \in Nat, NEW k \in Nat, a <= b
    PROVE  a * k <= b * k /\ a * k \in Nat /\ b * k \in Nat
OBVIOUS

(* Every bit is in a word.                                                 *)
LEMMA InSomeWord ==
    ASSUME NEW i \in Nat, i < Width
    PROVE  \E w \in 0 .. Words - 1 : w * WordBits <= i /\ i < (w + 1) * WordBits
<1>0. Words \in Nat /\ Words > 0 /\ Width \in Nat
  BY TrieAssumption
<1> DEFINE D == {w \in Nat : i < (w + 1) * WordBits}
<1>1. Words - 1 \in D
  <2>1. (Words - 1) + 1 = Words /\ Words - 1 \in Nat
    BY <1>0
  <2> QED
    BY <2>1, WordsFit
<1>2. PICK w \in D : \A v \in D : w <= v
  BY <1>1, LeastElement
<1>3. w \in 0 .. Words - 1
  BY <1>0, <1>1, <1>2
<1>4. w * WordBits <= i
  <2>1. CASE w = 0
    BY <2>1, WordsFit
  <2>2. CASE w # 0
    <3>1. w - 1 \in Nat /\ (w - 1) + 1 = w /\ ~(w <= w - 1)
      BY <1>2, <2>2
    <3>2. w - 1 \notin D
      BY <3>1, <1>2
    <3>3. ~(i < w * WordBits)
      BY <3>1, <3>2
    <3>4. w * WordBits \in Nat
      BY <1>2, WordsFit, TimesMonotonic
    <3> QED
      BY <3>3, <3>4
  <2> QED
    BY <2>1, <2>2
<1> QED
  BY <1>2, <1>3, <1>4

(* What the least element of a set is.                                     *)
LEMMA MinOf ==
    ASSUME NEW S, S \subseteq Int, NEW x \in S, \A y \in S : x <= y
    PROVE  Sets!Min(S) = x
<1>1. Sets!Min(S) \in S /\ \A y \in S : Sets!Min(S) =< y
  BY DEF Sets!Min
<1> DEFINE k == Sets!Min(S)
<1>2. k \in Int /\ x \in Int /\ k <= x /\ x <= k
  BY <1>1
<1> HIDE DEF k
<1>3. k = x
  BY <1>2
<1> QED
  BY <1>3 DEF k

(* What the lesser of two numbers is.                                      *)
LEMMA MinOfTwo ==
    ASSUME NEW a \in Int, NEW b \in Int, a <= b
    PROVE  Sets!Min({a, b}) = a /\ Sets!Min({b, a}) = a
<1> DEFINE S == {a, b}
<1>1. S \subseteq Int /\ a \in S /\ \A y \in S : a <= y
  OBVIOUS
<1>2. {b, a} = S
  OBVIOUS
<1> HIDE DEF S
<1>3. Sets!Min(S) = a
  BY <1>1, MinOf
<1> QED
  BY <1>2, <1>3 DEF S

(* A bit of the network of a prefix.                                       *)
LEMMA NetworkBitIs ==
    ASSUME NEW p \in Prefixes, NEW i \in Nat, i < Len(p)
    PROVE  NetworkBit(p, i) = p[i + 1]
BY DEF NetworkBit, Bit

(* What the comparison of a node with a prefix finds: nothing, when one of *)
(* them contains the other, else the first bit in which they differ.       *)
LEMMA DiffBitIs ==
    ASSUME NEW n \in Prefixes, NEW p \in Prefixes
    PROVE  /\ Contains(n, p) \/ Contains(p, n) => DiffBit(n, p) = -1
           /\ \A i \in Int : DiffersAt(n, p, i) => DiffBit(n, p) = i - 1
<1>0. /\ Len(n) \in Nat /\ Len(p) \in Nat /\ Len(n) <= Width /\ Len(p) <= Width
      /\ Width \in Nat /\ WordBits \in Nat /\ Words \in Nat
  BY PrefixIsSeq, TrieAssumption, WordsFit
<1> DEFINE maxBits == Sets!Min({Len(n), Len(p)})
<1>1. /\ maxBits \in Nat /\ maxBits <= Len(n) /\ maxBits <= Len(p)
      /\ maxBits = Len(n) \/ maxBits = Len(p)
  <2>1. CASE Len(n) <= Len(p)
    <3>1. maxBits = Len(n)
      BY <1>0, <2>1, MinOfTwo DEF maxBits
    <3> QED
      BY <3>1, <1>0, <2>1
  <2>2. CASE Len(p) <= Len(n)
    <3>1. maxBits = Len(p)
      BY <1>0, <2>2, MinOfTwo DEF maxBits
    <3> QED
      BY <3>1, <1>0, <2>2
  <2> QED
    BY <1>0, <2>1, <2>2
<1> HIDE DEF maxBits
<1> DEFINE word(w)   == w * WordBits .. (w + 1) * WordBits - 1
           differ(w) == {i \in word(w) : NetworkBit(n, i) # NetworkBit(p, i)}
           words     == {w \in 0 .. Words - 1 : differ(w) # {}}
           bit       == Sets!Min(differ(Sets!Min(words)))
<1>2. DiffBit(n, p) = IF words # {} /\ bit < maxBits THEN bit ELSE -1
  BY DEF DiffBit, FirstDiffBit, maxBits, WordBits
<1>3. ASSUME NEW w \in 0 .. Words - 1
      PROVE  /\ w \in Nat /\ w * WordBits \in Nat /\ (w + 1) * WordBits \in Nat
             /\ word(w) \subseteq Nat /\ \A i \in word(w) : i < Width
  <2>1. w \in Nat /\ w + 1 \in Nat /\ w + 1 <= Words
    BY <1>0
  <2>2. w * WordBits \in Nat /\ (w + 1) * WordBits \in Nat /\ (w + 1) * WordBits <= Words * WordBits
    BY <1>0, <2>1, TimesMonotonic
  <2> QED
    BY <2>1, <2>2, WordsFit
<1> DEFINE all == {i \in Nat : i < Width /\ NetworkBit(n, i) # NetworkBit(p, i)}
<1>4. ASSUME words # {}
      PROVE  bit \in all /\ \A i \in all : bit <= i
  <2>1. PICK w0 \in words : differ(w0) # {}
    BY <1>4
  <2>2. PICK i0 \in differ(w0) : TRUE
    BY <2>1
  <2>3. i0 \in all
    BY <1>3, <2>2
  <2>4. PICK m \in all : \A i \in all : m <= i
    <3>1. all \subseteq Nat /\ all # {}
      BY <2>3
    <3> QED
      BY <3>1, LeastElement
  <2>5. PICK w \in 0 .. Words - 1 : w * WordBits <= m /\ m < (w + 1) * WordBits
    BY <2>4, InSomeWord
  <2>6. m \in word(w)
    BY <1>3, <2>4, <2>5
  <2>7. m \in differ(w) /\ w \in words
    BY <2>4, <2>5, <2>6
  <2>8. ASSUME NEW v \in words PROVE w <= v
    <3>1. SUFFICES ASSUME v < w PROVE FALSE
      BY <1>0
    <3>2. PICK i \in differ(v) : TRUE
      OBVIOUS
    <3>3. i \in all /\ i <= (v + 1) * WordBits - 1
      BY <1>3, <3>2
    <3>4. v + 1 \in Nat /\ w \in Nat /\ v + 1 <= w
      BY <1>0, <3>1
    <3>5. (v + 1) * WordBits <= w * WordBits /\ (v + 1) * WordBits \in Nat /\ w * WordBits \in Nat
      BY <1>0, <3>4, TimesMonotonic
    <3>6. m <= i /\ m \in Nat /\ i \in Nat
      BY <2>4, <3>3
    <3> QED
      BY <3>3, <3>5, <3>6, <2>5
  <2>9. Sets!Min(words) = w
    <3>1. words \subseteq Int
      BY <1>0
    <3> HIDE DEF words
    <3> QED
      BY <3>1, <2>7, <2>8, MinOf
  <2>10. differ(w) \subseteq all
    BY <1>3, <2>5
  <2>11. Sets!Min(differ(w)) = m
    <3>1. differ(w) \subseteq Int /\ \A y \in differ(w) : m <= y
      BY <2>4, <2>10
    <3> DEFINE D == differ(w)
    <3>2. D \subseteq Int /\ m \in D /\ \A y \in D : m <= y
      BY <3>1, <2>7
    <3> HIDE DEF D
    <3>3. Sets!Min(D) = m
      BY <3>2, MinOf
    <3> QED
      BY <3>3 DEF D
  <2> QED
    BY <2>4, <2>9, <2>11
<1>5. ASSUME words = {} PROVE all = {}
  <2> SUFFICES ASSUME NEW i \in all PROVE FALSE
    OBVIOUS
  <2>1. PICK w \in 0 .. Words - 1 : w * WordBits <= i /\ i < (w + 1) * WordBits
    BY InSomeWord
  <2>2. i \in word(w)
    BY <1>3, <2>1
  <2> QED
    BY <2>1, <2>2, <1>5
<1> HIDE DEF words, bit
<1>6. ASSUME Contains(n, p) \/ Contains(p, n) PROVE DiffBit(n, p) = -1
  <2>1. \A i \in 1 .. maxBits : n[i] = p[i]
    BY <1>0, <1>1, <1>6, ContainsBits
  <2>2. ASSUME NEW i \in all PROVE ~(i < maxBits)
    <3>1. SUFFICES ASSUME i < maxBits PROVE FALSE
      OBVIOUS
    <3>2. i \in Nat /\ i < Len(n) /\ i < Len(p) /\ i + 1 \in 1 .. maxBits
      BY <1>0, <1>1, <3>1
    <3>3. NetworkBit(n, i) = n[i + 1] /\ NetworkBit(p, i) = p[i + 1]
      BY <3>2, NetworkBitIs
    <3> QED
      BY <3>2, <3>3, <2>1
  <2>3. words # {} => ~(bit < maxBits)
    BY <1>4, <2>2
  <2> QED
    BY <1>2, <2>3
<1>7. ASSUME NEW i \in Int, DiffersAt(n, p, i) PROVE DiffBit(n, p) = i - 1
  <2>1. /\ i \in Nat /\ i >= 1 /\ i <= Len(n) /\ i <= Len(p) /\ n[i] # p[i]
        /\ \A j \in 1 .. i - 1 : n[j] = p[j]
    BY <1>0, <1>7 DEF DiffersAt
  <2>2. i - 1 \in Nat /\ i - 1 < Len(n) /\ i - 1 < Len(p) /\ i - 1 < Width /\ (i - 1) + 1 = i
        /\ i - 1 < maxBits
    BY <1>0, <1>1, <2>1
  <2>3. NetworkBit(n, i - 1) = n[i] /\ NetworkBit(p, i - 1) = p[i]
    BY <2>2, NetworkBitIs
  <2>4. i - 1 \in all
    BY <2>1, <2>2, <2>3
  <2>5. words # {}
    BY <1>5, <2>4
  <2>6. bit \in Nat /\ bit <= i - 1 /\ NetworkBit(n, bit) # NetworkBit(p, bit)
    BY <1>4, <2>4, <2>5
  <2>7. ~(bit < i - 1)
    <3>1. SUFFICES ASSUME bit < i - 1 PROVE FALSE
      OBVIOUS
    <3>2. bit < Len(n) /\ bit < Len(p) /\ bit + 1 \in 1 .. i - 1
      BY <2>1, <2>2, <2>6, <3>1
    <3>3. NetworkBit(n, bit) = n[bit + 1] /\ NetworkBit(p, bit) = p[bit + 1]
      BY <3>2, <2>6, NetworkBitIs
    <3> QED
      BY <3>2, <3>3, <2>1, <2>6
  <2>8. bit = i - 1
    BY <2>2, <2>6, <2>7
  <2> QED
    BY <1>2, <2>2, <2>5, <2>8
<1> QED
  BY <1>6, <1>7

-----------------------------------------------------------------------------
(* Where addNode stops.                                                    *)

(* diffBit is negative exactly when one prefix contains the other.         *)
LEMMA DiffBitSign ==
    ASSUME NEW n \in Prefixes, NEW p \in Prefixes
    PROVE  /\ DiffBit(n, p) < 0 <=> Contains(n, p) \/ Contains(p, n)
           /\ DiffBit(n, p) \in Int
<1>1. CASE Contains(n, p) \/ Contains(p, n)
  BY <1>1, DiffBitIs
<1>2. CASE ~Contains(n, p) /\ ~Contains(p, n)
  <2>1. PICK i \in Int : DiffersAt(n, p, i)
    BY <1>2, FirstDifference
  <2>2. i >= 1
    BY <2>1, PrefixIsSeq DEF DiffersAt
  <2> QED
    BY <2>1, <2>2, <1>2, DiffBitIs
<1> QED
  BY <1>1, <1>2

(* at.parent is null and at.node the root, or at.node hangs on at.parent   *)
(* on the side of p.                                                       *)
Hook(t, p, at) ==
    /\ at \in [node : Pointers(t.node), parent : Pointers(t.node)]
    /\ at.parent = Nil => at.node = t.root
    /\ at.parent # Nil => /\ at.parent \in DOMAIN t.node
                          /\ Contains(at.parent, p) /\ Len(at.parent) < Len(p)
                          /\ t.node[at.parent].kids[Bit(p, Len(at.parent))] = at.node

GoesOn(p, at) == at.node # Nil /\ Len(at.node) < Len(p) /\ DiffBit(at.node, p) < 0

AddPointStep(h, p, f, at) ==
    IF GoesOn(p, at) THEN f[[node |-> h[at.node].kids[Bit(p, Len(at.node))], parent |-> at.node]]
    ELSE at

(* While addNode goes on, it is on a node that contains the new prefix.    *)
LEMMA GoesOnFacts ==
    ASSUME NEW t, Tree(t), NEW p \in Prefixes,
           NEW at \in [node : Pointers(t.node), parent : Pointers(t.node)], GoesOn(p, at)
    PROVE  /\ at.node \in DOMAIN t.node /\ at.node \in Prefixes /\ at.node # Nil
           /\ Len(at.node) < Len(p) /\ Contains(at.node, p)
           /\ Bit(p, Len(at.node)) \in {0, 1}
           /\ Hook(t, p, [node |-> t.node[at.node].kids[Bit(p, Len(at.node))], parent |-> at.node])
<1> DEFINE n == at.node
<1>1. n \in DOMAIN t.node /\ n \in Prefixes /\ n # Nil /\ Len(n) < Len(p) /\ DiffBit(n, p) < 0
  BY DEF GoesOn, Pointers, Tree
<1> HIDE DEF n
<1>2. Len(n) \in Nat /\ Len(p) \in Nat
  BY <1>1, PrefixIsSeq
<1>3. Contains(n, p)
  BY <1>1, <1>2, DiffBitSign, ContainsLen
<1>4. Bit(p, Len(n)) \in {0, 1}
  BY <1>1, SideBit
<1>5. t.node[n].kids[Bit(p, Len(n))] \in Pointers(t.node) /\ n \in Pointers(t.node)
  BY <1>1, <1>4, KidFacts DEF Pointers
<1>6. Hook(t, p, [node |-> t.node[n].kids[Bit(p, Len(n))], parent |-> n])
  BY <1>1, <1>3, <1>5 DEF Hook
<1> QED
  BY <1>1, <1>3, <1>4, <1>6 DEF n

(* addNode goes on as it does one level down.                              *)
LEMMA AddPointUnfolds ==
    ASSUME NEW t, Tree(t), NEW p \in Prefixes
    PROVE  \E f : /\ \A at \in [node : Pointers(t.node), parent : Pointers(t.node)] :
                        f[at] = AddPointStep(t.node, p, f, at)
                  /\ AddPoint(t.node, t.root, p) = f[[node |-> t.root, parent |-> Nil]]
<1> DEFINE S == [node : Pointers(t.node), parent : Pointers(t.node)]
           on(at) == [node |-> t.node[at.node].kids[Bit(p, Len(at.node))], parent |-> at.node]
           done == {at \in S : ~GoesOn(p, at)}
           next == [at \in S |-> IF at \in done THEN at ELSE on(at)]
           m == [at \in S |-> Below(t.node)[at.node]]
           r == [at \in S |-> at]
           c == [x \in S \X S |-> x[2]]
           N == Width + 2
<1>1. ASSUME NEW at \in S, at \notin done
      PROVE  GoesOn(p, at) /\ next[at] = on(at) /\ on(at) \in S /\ on(at).node = t.node[at.node].kids[Bit(p, Len(at.node))]
             /\ at.node \in DOMAIN t.node /\ Bit(p, Len(at.node)) \in {0, 1}
  <2>1. GoesOn(p, at)
    BY <1>1
  <2>2. Hook(t, p, on(at)) /\ at.node \in DOMAIN t.node /\ Bit(p, Len(at.node)) \in {0, 1}
    BY <2>1, GoesOnFacts
  <2> QED
    BY <1>1, <2>1, <2>2 DEF Hook
<1>2. next \in [S -> S]
  BY <1>1
<1>3. m \in [S -> Nat] /\ \A at \in S : m[at] < N
  BY BelowIsMeasure
<1>4. N \in Nat
  BY TrieAssumption
<1>5. \A at \in S \ done : m[next[at]] < m[at]
  BY <1>1, BelowIsMeasure
<1>6. r \in [S -> S] /\ c \in [S \X S -> S]
  OBVIOUS
<1> HIDE DEF S, done, next, m, r, c, N
<1>7. PICK g \in [S -> S] : Solves(g, S, done, next, r, c)
  BY <1>2, <1>3, <1>4, <1>5, <1>6, LinearRecursion
<1>8. \A at \in S : g[at] = AddPointStep(t.node, p, g, at)
  <2>1. ASSUME NEW at \in S, at \in done PROVE g[at] = AddPointStep(t.node, p, g, at)
    BY <2>1, <1>7 DEF Solves, r, done, AddPointStep
  <2>2. ASSUME NEW at \in S, at \notin done PROVE g[at] = AddPointStep(t.node, p, g, at)
    <3>1. GoesOn(p, at) /\ next[at] = on(at) /\ on(at) \in S
      BY <2>2, <1>1
    <3>2. <<at, g[on(at)]>> \in S \X S
      BY <3>1, <1>7
    <3>3. c[<<at, g[on(at)]>>] = g[on(at)]
      BY <3>2 DEF c
    <3> HIDE DEF on
    <3>4. g[at] = g[on(at)]
      BY <2>2, <3>1, <3>3, <1>7 DEF Solves
    <3> QED
      BY <3>1, <3>4 DEF AddPointStep, on
  <2> QED
    BY <2>1, <2>2
<1> DEFINE E(f) == [at \in S |-> AddPointStep(t.node, p, f, at)]
           d == CHOOSE f : f = E(f)
<1>9. g = E(g)
  BY <1>7, <1>8
<1>10. d = E(d)
  BY <1>9
<1>11. AddPoint(t.node, t.root, p) = d[[node |-> t.root, parent |-> Nil]]
  BY DEF AddPoint, AddPointStep, GoesOn, S
<1>12. \A at \in S : d[at] = AddPointStep(t.node, p, d, at)
  BY <1>10
<1> QED
  BY <1>11, <1>12 DEF S

(* addNode stops where the new prefix would hang.                          *)
LEMMA AddPointIs ==
    ASSUME NEW t, Tree(t), NEW p \in Prefixes
    PROVE  /\ Hook(t, p, AddPoint(t.node, t.root, p))
           /\ ~GoesOn(p, AddPoint(t.node, t.root, p))
<1> DEFINE S == [node : Pointers(t.node), parent : Pointers(t.node)]
           m == [at \in S |-> Below(t.node)[at.node]]
<1>1. PICK f : /\ \A at \in S : f[at] = AddPointStep(t.node, p, f, at)
               /\ AddPoint(t.node, t.root, p) = f[[node |-> t.root, parent |-> Nil]]
  BY AddPointUnfolds
<1> DEFINE T == {at \in S : Hook(t, p, at) => Hook(t, p, f[at]) /\ ~GoesOn(p, f[at])}
<1>2. m \in [S -> Nat]
  BY BelowIsMeasure
<1>3. ASSUME NEW at \in S, \A y \in S : m[y] < m[at] => y \in T PROVE at \in T
  <2>1. CASE ~GoesOn(p, at)
    BY <2>1, <1>1 DEF AddPointStep
  <2>2. CASE GoesOn(p, at)
    <3> DEFINE on == [node |-> t.node[at.node].kids[Bit(p, Len(at.node))], parent |-> at.node]
    <3>1. Hook(t, p, on) /\ at.node \in DOMAIN t.node /\ Bit(p, Len(at.node)) \in {0, 1}
      BY <2>2, GoesOnFacts
    <3>2. on \in S /\ on.node = t.node[at.node].kids[Bit(p, Len(at.node))]
      BY <3>1 DEF Hook
    <3>3. m[on] < m[at]
      BY <3>1, <3>2, BelowIsMeasure
    <3>4. f[at] = f[on]
      BY <2>2, <1>1 DEF AddPointStep
    <3> QED
      BY <3>1, <3>2, <3>3, <3>4, <1>3
  <2> QED
    BY <2>1, <2>2
<1> HIDE DEF T, m, S
<1>4. S \subseteq T
  BY <1>2, <1>3, MeasureInduction
<1> USE DEF S
<1>5. Hook(t, p, [node |-> t.root, parent |-> Nil])
  BY DEF Hook, Tree, Pointers
<1> QED
  BY <1>1, <1>4, <1>5 DEF T, Hook

-----------------------------------------------------------------------------
(* New nodes.                                                              *)

(* The _parent pointers that are not null are right; none is null but that *)
(* of the root when exact is TRUE.                                         *)
Parents(t, exact) ==
    \A n \in DOMAIN t.node :
        LET up == t.node[n].parent
        IN  /\ up # Nil => up \in DOMAIN t.node /\ IsKid(t.node, n, up)
            /\ exact /\ n # t.root => up # Nil

(* What of node n must hold for KidsExtend.                                *)
Extends(h, n) ==
    \A b \in {0, 1} :
        LET kid == h[n].kids[b] IN
        IF kid = Nil THEN HasValue(h, n)
        ELSE kid \in DOMAIN h /\ Ext!IsStrictPrefix(n, kid) /\ Bit(kid, Len(n)) = b

(* Setting the pointer to the new node changes one child pointer, or the   *)
(* root.                                                                   *)
LEMMA RelinkIs ==
    ASSUME NEW r, NEW g, NEW s, NEW up, NEW top \in Pointer,
           up # Nil => up \in DOMAIN g /\ Bit(top, Len(up)) \in {0, 1},
           \A n \in DOMAIN g : g[n] \in Node
    PROVE  LET u == Relink([root |-> r, node |-> g, size |-> s], up, top) IN
           /\ u = [root |-> u.root, node |-> u.node, size |-> u.size]
           /\ u.size = s
           /\ u.root = IF up = Nil THEN top ELSE r
           /\ DOMAIN u.node = DOMAIN g
           /\ \A n \in DOMAIN g :
                 /\ u.node[n] \in Node
                 /\ u.node[n].value = g[n].value
                 /\ u.node[n].parent = g[n].parent
                 /\ \A b \in {0, 1} :
                       u.node[n].kids[b] = IF up # Nil /\ n = up /\ b = Bit(top, Len(up)) THEN top
                                           ELSE g[n].kids[b]
<1> DEFINE t == [root |-> r, node |-> g, size |-> s]
           u == Relink(t, up, top)
<1>1. CASE up = Nil
  <2>1. u = [root |-> top, node |-> g, size |-> s]
    BY <1>1 DEF Relink
  <2> QED
    BY <1>1, <2>1
<1>2. CASE up # Nil
  <2> DEFINE side == Bit(top, Len(up))
             g2 == [g EXCEPT ![up].kids[side] = top]
  <2>1. u = [root |-> r, node |-> g2, size |-> s]
    BY <1>2 DEF Relink
  <2>2. side \in {0, 1} /\ up \in DOMAIN g
    BY <1>2
  <2> HIDE DEF side
  <2>3. DOMAIN g2 = DOMAIN g
    OBVIOUS
  <2>4. ASSUME NEW n \in DOMAIN g
        PROVE  /\ g2[n] \in Node
               /\ g2[n].value = g[n].value
               /\ g2[n].parent = g[n].parent
               /\ \A b \in {0, 1} : g2[n].kids[b] = IF n = up /\ b = side THEN top ELSE g[n].kids[b]
    <3>1. g[n] \in Node
      OBVIOUS
    <3>2. CASE n = up
      <4>1. g2[n] = [g[n] EXCEPT !.kids[side] = top]
        BY <3>2
      <4>2. g[n].kids \in [{0, 1} -> Pointer]
        BY <3>1 DEF Node
      <4>3. [g[n].kids EXCEPT ![side] = top] \in [{0, 1} -> Pointer]
        BY <4>2
      <4>4. g2[n].kids = [g[n].kids EXCEPT ![side] = top] /\ g2[n].value = g[n].value /\ g2[n].parent = g[n].parent
        BY <3>1, <4>1 DEF Node
      <4>5. g2[n] \in Node
        BY <3>1, <4>1, <4>3 DEF Node
      <4> QED
        BY <2>2, <3>2, <4>2, <4>4, <4>5
    <3>3. CASE n # up
      <4>1. g2[n] = g[n]
        BY <3>3
      <4> QED
        BY <3>1, <3>3, <4>1
    <3> QED
      BY <3>2, <3>3
  <2> HIDE DEF g2, u
  <2>5. u.node = g2 /\ u.root = r /\ u.size = s
    BY <2>1
  <2> QED
    BY <1>2, <2>1, <2>3, <2>4, <2>5 DEF u, side
<1> QED
  BY <1>1, <1>2

(* New nodes take the place of what hung on up, which hangs on one of them *)
(* afterwards.                                                             *)
Grafted(t, g, up, at, top, above, new) ==
    /\ top \in new /\ new \subseteq Prefixes /\ new \cap DOMAIN t.node = {}
    /\ DOMAIN g = DOMAIN t.node \cup new
    /\ \A n \in DOMAIN g : g[n] \in Node
    /\ \A n \in DOMAIN t.node :
          /\ g[n].value = t.node[n].value /\ g[n].kids = t.node[n].kids
          /\ g[n].parent = IF n = at THEN above ELSE t.node[n].parent
    /\ at \in Pointers(t.node) /\ up \in Pointers(t.node)
    /\ up = Nil => at = t.root
    /\ up # Nil => /\ Contains(up, top) /\ Len(up) < Len(top)
                   /\ t.node[up].kids[Bit(top, Len(up))] = at
    /\ \A n \in new : Extends(g, n)
    /\ \A n \in new : IF n = top THEN g[n].parent = up
                      ELSE g[n].parent \in new /\ IsKid(g, n, g[n].parent)
    /\ at # Nil => above \in new /\ IsKid(g, at, above)

(* Hanging new nodes on a tree makes a tree, with the _parent pointers as  *)
(* right as they were.                                                     *)
LEMMA GraftedTree ==
    ASSUME NEW t, Tree(t), NEW g, NEW s, NEW up, NEW at, NEW top, NEW above, NEW new,
           Grafted(t, g, up, at, top, above, new)
    PROVE  LET u == Relink([root |-> t.root, node |-> g, size |-> s], up, top) IN
           /\ Tree(u) /\ u.size = s
           /\ DOMAIN u.node = DOMAIN t.node \cup new
           /\ \A n \in DOMAIN u.node : u.node[n].value = g[n].value
           /\ \A exact \in BOOLEAN : Parents(t, exact) => Parents(u, exact)
<1> DEFINE u == Relink([root |-> t.root, node |-> g, size |-> s], up, top)
           side == Bit(top, Len(up))
<1>1. /\ top \in new /\ top \in Prefixes /\ top # Nil /\ top \in Pointer
      /\ new \subseteq Prefixes /\ DOMAIN t.node \subseteq Prefixes
      /\ \A n \in new : n # Nil /\ n \notin DOMAIN t.node /\ n \in DOMAIN g
      /\ \A n \in DOMAIN t.node : n # Nil /\ n \in DOMAIN g
      /\ DOMAIN g = DOMAIN t.node \cup new
  BY NilIsNoPrefix DEF Grafted, Tree, Pointer
<1>2. up # Nil => /\ up \in DOMAIN t.node /\ up \notin new /\ up \in DOMAIN g /\ up \in Prefixes
                  /\ side \in {0, 1} /\ Contains(up, top) /\ Len(up) < Len(top)
                  /\ t.node[up].kids[side] = at
  <2>1. ASSUME up # Nil PROVE up \in DOMAIN t.node /\ up \in Prefixes /\ Len(up) < Len(top)
    BY <2>1, <1>1 DEF Grafted, Pointers
  <2> QED
    BY <2>1, <1>1, SideBit DEF Grafted
<1>3. /\ u = [root |-> u.root, node |-> u.node, size |-> u.size]
      /\ u.size = s
      /\ u.root = IF up = Nil THEN top ELSE t.root
      /\ DOMAIN u.node = DOMAIN g
      /\ \A n \in DOMAIN g :
            /\ u.node[n] \in Node
            /\ u.node[n].value = g[n].value
            /\ u.node[n].parent = g[n].parent
            /\ \A b \in {0, 1} :
                  u.node[n].kids[b] = IF up # Nil /\ n = up /\ b = side THEN top ELSE g[n].kids[b]
  <2>1. \A n \in DOMAIN g : g[n] \in Node
    BY DEF Grafted
  <2> QED
    BY <1>1, <1>2, <2>1, RelinkIs
<1> HIDE DEF u
<1>4. ASSUME NEW n \in new, NEW b \in {0, 1}
      PROVE  u.node[n].kids[b] = g[n].kids[b] /\ (HasValue(u.node, n) <=> HasValue(g, n))
  BY <1>1, <1>2, <1>3 DEF HasValue
<1>5. ASSUME NEW n \in DOMAIN t.node, NEW b \in {0, 1}
      PROVE  /\ u.node[n].kids[b] = IF up # Nil /\ n = up /\ b = side THEN top ELSE t.node[n].kids[b]
             /\ HasValue(u.node, n) <=> HasValue(t.node, n)
  BY <1>1, <1>3 DEF HasValue, Grafted
<1>6. KidsExtend(u)
  <2> SUFFICES ASSUME NEW n \in DOMAIN u.node, NEW b \in {0, 1}
               PROVE  IF u.node[n].kids[b] = Nil THEN HasValue(u.node, n)
                      ELSE /\ u.node[n].kids[b] \in DOMAIN u.node
                           /\ Ext!IsStrictPrefix(n, u.node[n].kids[b]) /\ Bit(u.node[n].kids[b], Len(n)) = b
    BY DEF KidsExtend
  <2>1. CASE n \in new
    <3>1. Extends(g, n)
      BY <2>1 DEF Grafted
    <3> QED
      BY <2>1, <3>1, <1>3, <1>4 DEF Extends
  <2>2. CASE n \in DOMAIN t.node /\ ~(up # Nil /\ n = up /\ b = side)
    <3>1. u.node[n].kids[b] = t.node[n].kids[b] /\ (HasValue(u.node, n) <=> HasValue(t.node, n))
      BY <2>2, <1>5
    <3>2. IF t.node[n].kids[b] = Nil THEN HasValue(t.node, n)
          ELSE /\ t.node[n].kids[b] \in DOMAIN t.node
               /\ Ext!IsStrictPrefix(n, t.node[n].kids[b]) /\ Bit(t.node[n].kids[b], Len(n)) = b
      BY <2>2 DEF Tree, KidsExtend
    <3> QED
      BY <3>1, <3>2, <1>1, <1>3
  <2>3. CASE up # Nil /\ n = up /\ b = side
    <3>1. u.node[n].kids[b] = top /\ top # Nil /\ top \in DOMAIN u.node
      BY <2>3, <1>1, <1>2, <1>3, <1>5
    <3>2. Contains(up, top) /\ up # top
      BY <2>3, <1>1, <1>2
    <3> QED
      BY <2>3, <3>1, <3>2, StrictIsContains
  <2> QED
    BY <2>1, <2>2, <2>3, <1>1, <1>3
<1>7. ASSUME at # Nil PROVE above \in new /\ IsKid(u.node, at, above)
  BY <1>7, <1>4 DEF Grafted, IsKid
<1>8. ASSUME up # Nil PROVE up \in DOMAIN u.node /\ IsKid(u.node, top, up)
  <2>1. up \in DOMAIN t.node /\ side \in {0, 1}
    BY <1>8, <1>2
  <2>2. u.node[up].kids[side] = top
    BY <1>8, <2>1, <1>5
  <2> QED
    BY <2>1, <2>2, <1>1, <1>3 DEF IsKid
<1>9. ASSUME NEW n \in new, n # top
      PROVE  u.node[n].parent \in new /\ IsKid(u.node, n, u.node[n].parent)
  <2>1. g[n].parent \in new /\ IsKid(g, n, g[n].parent) /\ u.node[n].parent = g[n].parent
    BY <1>9, <1>1, <1>3 DEF Grafted
  <2> DEFINE w == g[n].parent
  <2>2. w \in new /\ IsKid(g, n, w)
    BY <2>1
  <2> HIDE DEF w
  <2>3. IsKid(u.node, n, w)
    BY <2>2, <1>4 DEF IsKid
  <2> QED
    BY <2>1, <2>2, <2>3 DEF w
<1>10. ASSUME NEW n \in DOMAIN t.node, n # at, NEW w \in DOMAIN t.node, IsKid(t.node, n, w)
       PROVE  IsKid(u.node, n, w) /\ w \in DOMAIN u.node
  <2>1. PICK b \in {0, 1} : t.node[w].kids[b] = n
    BY <1>10 DEF IsKid
  <2>2. ~(up # Nil /\ w = up /\ b = side)
    BY <2>1, <1>10, <1>2
  <2>3. u.node[w].kids[b] = n
    BY <2>1, <2>2, <1>5
  <2> QED
    BY <2>3, <1>1, <1>3 DEF IsKid
<1>11. u.root \in DOMAIN u.node
  <2>1. ASSUME up # Nil PROVE t.root \in DOMAIN t.node
    BY <2>1, <1>2 DEF Tree, Pointers, AllHang
  <2> QED
    BY <2>1, <1>1, <1>3
<1>12. ASSUME NEW n \in DOMAIN u.node, n # u.root
       PROVE  \E w \in DOMAIN u.node : IsKid(u.node, n, w)
  <2>1. CASE n \in new /\ n # top
    BY <2>1, <1>9, <1>1, <1>3
  <2>2. CASE n = top
    BY <2>2, <1>12, <1>3, <1>8
  <2>3. CASE n \in DOMAIN t.node /\ n = at
    BY <2>3, <1>7, <1>1, <1>3
  <2>4. CASE n \in DOMAIN t.node /\ n # at
    <3>1. n # t.root
      BY <2>4, <1>12, <1>3 DEF Grafted
    <3>2. PICK w \in DOMAIN t.node : IsKid(t.node, n, w)
      BY <2>4, <3>1 DEF Tree, AllHang
    <3> QED
      BY <2>4, <3>2, <1>10
  <2> QED
    BY <2>1, <2>2, <2>3, <2>4, <1>1, <1>3
<1>13. AllHang(u)
  <2>1. u.root # Nil
    BY <1>11, <1>1, <1>3
  <2> QED
    BY <2>1, <1>12 DEF AllHang
<1>14. Tree(u)
  BY <1>1, <1>3, <1>6, <1>11, <1>13 DEF Tree, Pointers
<1>15. ASSUME NEW exact \in BOOLEAN, Parents(t, exact) PROVE Parents(u, exact)
  <2> SUFFICES ASSUME NEW n \in DOMAIN u.node
               PROVE  /\ u.node[n].parent # Nil =>
                            u.node[n].parent \in DOMAIN u.node /\ IsKid(u.node, n, u.node[n].parent)
                      /\ exact /\ n # u.root => u.node[n].parent # Nil
    BY DEF Parents
  <2>1. CASE n \in new /\ n # top
    <3>1. u.node[n].parent \in new /\ IsKid(u.node, n, u.node[n].parent)
      BY <2>1, <1>9
    <3> QED
      BY <3>1, <1>1, <1>3
  <2>2. CASE n = top
    <3>1. u.node[n].parent = up
      BY <2>2, <1>1, <1>3 DEF Grafted
    <3> QED
      BY <2>2, <3>1, <1>3, <1>8
  <2>3. CASE n \in DOMAIN t.node /\ n = at
    <3>1. u.node[n].parent = above /\ at # Nil
      BY <2>3, <1>1, <1>3 DEF Grafted
    <3>2. above \in new /\ IsKid(u.node, at, above)
      BY <3>1, <1>7
    <3> QED
      BY <2>3, <3>1, <3>2, <1>1, <1>3
  <2>4. CASE n \in DOMAIN t.node /\ n # at
    <3>1. u.node[n].parent = t.node[n].parent
      BY <2>4, <1>1, <1>3 DEF Grafted
    <3>2. n = t.root => n = u.root
      BY <2>4, <1>3 DEF Grafted
    <3>3. /\ t.node[n].parent # Nil => t.node[n].parent \in DOMAIN t.node /\ IsKid(t.node, n, t.node[n].parent)
          /\ exact /\ n # t.root => t.node[n].parent # Nil
      BY <1>15, <2>4 DEF Parents
    <3> QED
      BY <2>4, <3>1, <3>2, <3>3, <1>10
  <2> QED
    BY <2>1, <2>2, <2>3, <2>4, <1>1, <1>3
<1> QED
  BY <1>1, <1>3, <1>14, <1>15 DEF u

-----------------------------------------------------------------------------
(* addNode.                                                                *)

(* A node that is where p would hang is at the hook or below it.           *)
LEMMA HookBelow ==
    ASSUME NEW t, Tree(t), NEW p \in Prefixes, NEW at, Hook(t, p, at), NEW q \in DOMAIN t.node,
           at.parent # Nil => /\ Contains(at.parent, q) /\ Len(at.parent) < Len(q)
                              /\ Bit(q, Len(at.parent)) = Bit(p, Len(at.parent))
    PROVE  at.node # Nil /\ at.node \in DOMAIN t.node /\ Contains(at.node, q)
<1>1. CASE at.parent = Nil
  <2>1. at.node = t.root
    BY <1>1 DEF Hook
  <2>2. t.root \in DOMAIN t.node /\ Contains(t.root, q)
    BY RootAbove
  <2> QED
    BY <2>1, <2>2, NilIsNoPrefix DEF Tree
<1>2. CASE at.parent # Nil
  <2>1. /\ at.parent \in DOMAIN t.node /\ Contains(at.parent, q) /\ Len(at.parent) < Len(q)
        /\ t.node[at.parent].kids[Bit(q, Len(at.parent))] = at.node
    BY <1>2 DEF Hook
  <2>2. at.parent # q
    BY <2>1, PrefixIsSeq DEF Tree
  <2>3. at.node # Nil /\ Contains(at.node, q)
    BY <2>1, <2>2, Through
  <2> QED
    BY <2>3 DEF Hook, Pointers
<1> QED
  BY <1>1, <1>2

(* What is known of the place where a new prefix goes.                     *)
LEMMA NewPlace ==
    ASSUME NEW t, Tree(t), NEW p \in Prefixes, NEW at, Hook(t, p, at), ~GoesOn(p, at), at.node # p
    PROVE  /\ p \notin DOMAIN t.node
           /\ at.node = Nil \/ (at.node \in DOMAIN t.node /\ at.node \in Prefixes /\ ~Contains(at.node, p))
<1>1. ASSUME at.node # Nil
      PROVE  at.node \in DOMAIN t.node /\ at.node \in Prefixes /\ ~Contains(at.node, p)
  <2> DEFINE n == at.node
  <2>1. n \in DOMAIN t.node /\ n \in Prefixes
    BY <1>1 DEF Hook, Pointers, Tree
  <2>2. ~(Len(n) < Len(p) /\ DiffBit(n, p) < 0) /\ n # p
    BY <1>1 DEF GoesOn
  <2> HIDE DEF n
  <2>3. ~Contains(n, p)
    BY <2>1, <2>2, DiffBitSign, ContainsLen
  <2> QED
    BY <2>1, <2>3 DEF n
<1>2. ASSUME p \in DOMAIN t.node PROVE FALSE
  <2>1. at.node # Nil /\ Contains(at.node, p)
    BY <1>2, HookBelow DEF Hook
  <2> QED
    BY <2>1, <1>1
<1> QED
  BY <1>1, <1>2

(* A new node has a value, a _parent and no children.                      *)
LEMMA NewNodeIs ==
    ASSUME NEW v \in SUBSET ASes, NEW up \in Pointer
    PROVE  /\ NewNode(v, up) \in Node
           /\ NewNode(v, up).value = v /\ NewNode(v, up).parent = up /\ v # NoValue
           /\ \A b \in {0, 1} : NewNode(v, up).kids[b] = Nil
BY TrieAssumption DEF NewNode, NoKids, Node, Pointer

(* The new nodes are among the others.                                     *)
LEMMA AddNodesIs ==
    ASSUME NEW h, NEW new
    PROVE  /\ DOMAIN AddNodes(h, new) = DOMAIN h \cup DOMAIN new
           /\ \A q \in DOMAIN new : AddNodes(h, new)[q] = new[q]
           /\ \A q \in DOMAIN h \ DOMAIN new : AddNodes(h, new)[q] = h[q]
BY DEF AddNodes

(* Setting a _parent. *)
LEMMA ParentSet ==
    ASSUME NEW h, NEW at, NEW up \in Pointer, \A n \in DOMAIN h : h[n] \in Node
    PROVE  LET g == [h EXCEPT ![at].parent = up] IN
           /\ DOMAIN g = DOMAIN h
           /\ \A n \in DOMAIN h : /\ g[n] \in Node
                                  /\ g[n].value = h[n].value /\ g[n].kids = h[n].kids
                                  /\ g[n].parent = IF n = at THEN up ELSE h[n].parent
<1> DEFINE g == [h EXCEPT ![at].parent = up]
<1>1. ASSUME NEW n \in DOMAIN h
      PROVE  /\ g[n] \in Node
             /\ g[n].value = h[n].value /\ g[n].kids = h[n].kids
             /\ g[n].parent = IF n = at THEN up ELSE h[n].parent
  <2>1. h[n] \in Node
    OBVIOUS
  <2>2. CASE n = at
    <3>1. g[n] = [h[n] EXCEPT !.parent = up]
      BY <2>2
    <3> QED
      BY <2>1, <2>2, <3>1 DEF Node
  <2>3. CASE n # at
    BY <2>1, <2>3
  <2> QED
    BY <2>2, <2>3
<1> QED
  BY <1>1

ValueIs(h, n, v) == h[n].value = v

(* The nodes with the new ones, before the pointer to them is set.         *)
WithLeaf(h, up, p, v) == AddNodes(h, [q \in {p} |-> NewNode(v, up)])

WithAbove(h, n, up, p, v) ==
    LET new == [NewNode(v, up) EXCEPT !.kids[Bit(n, Len(p))] = n]
    IN  AddNodes([h EXCEPT ![n].parent = p], [q \in {p} |-> new])

Common(n, p) == SubSeq(p, 1, DiffBit(n, p))

WithSplit(h, n, up, p, v) ==
    LET common == Common(n, p)
        branch == [NewNode(NoValue, up) EXCEPT !.kids[Bit(n, Len(common))] = n,
                                               !.kids[Bit(p, Len(common))] = p]
        new    == [q \in {common, p} |-> IF q = p THEN NewNode(v, common) ELSE branch]
    IN  AddNodes([h EXCEPT ![n].parent = common], new)

(* A new node where there was none.                                        *)
LEMMA LeafGrafted ==
    ASSUME NEW t, Tree(t), NEW p \in Prefixes, NEW v \in SUBSET ASes, NEW at,
           Hook(t, p, at), ~GoesOn(p, at), at.node = Nil
    PROVE  LET g == WithLeaf(t.node, at.parent, p, v)
           IN  Grafted(t, g, at.parent, Nil, p, Nil, {p}) /\ ValueIs(g, p, v)
<1> DEFINE up == at.parent
           one == [q \in {p} |-> NewNode(v, up)]
           g == AddNodes(t.node, one)
<1>1. p \notin DOMAIN t.node /\ p # Nil
  BY NewPlace, NilIsNoPrefix
<1>2. up \in Pointers(t.node) /\ up \in Pointer
  BY DEF Hook, Pointers, Pointer, Tree
<1>3. /\ NewNode(v, up) \in Node
      /\ NewNode(v, up).value = v /\ NewNode(v, up).parent = up /\ v # NoValue
      /\ \A b \in {0, 1} : NewNode(v, up).kids[b] = Nil
  BY <1>2, NewNodeIs
<1>4. DOMAIN one = {p} /\ one[p] = NewNode(v, up)
  OBVIOUS
<1> HIDE DEF one
<1>5. /\ DOMAIN g = DOMAIN t.node \cup {p} /\ g[p] = NewNode(v, up)
      /\ \A q \in DOMAIN t.node : g[q] = t.node[q] /\ q # Nil
  <2>1. /\ DOMAIN g = DOMAIN t.node \cup DOMAIN one
        /\ \A q \in DOMAIN one : g[q] = one[q]
        /\ \A q \in DOMAIN t.node \ DOMAIN one : g[q] = t.node[q]
    BY AddNodesIs
  <2> HIDE DEF g
  <2>2. \A q \in DOMAIN t.node : q # Nil /\ q # p
    BY <1>1, NilIsNoPrefix DEF Tree
  <2> QED
    BY <2>1, <2>2, <1>4
<1> HIDE DEF g
<1>6. Extends(g, p)
  BY <1>3, <1>5 DEF Extends, HasValue
<1>7. \A n \in DOMAIN g : g[n] \in Node
  BY <1>3, <1>5 DEF Tree
<1>8. up = Nil => Nil = t.root
  BY DEF Hook
<1>9. up # Nil => /\ Contains(up, p) /\ Len(up) < Len(p)
                  /\ t.node[up].kids[Bit(p, Len(up))] = Nil
  BY DEF Hook
<1> HIDE DEF up
<1>10. Grafted(t, g, up, Nil, p, Nil, {p})
  BY <1>1, <1>2, <1>3, <1>5, <1>6, <1>7, <1>8, <1>9 DEF Grafted, Pointers
<1> QED
  BY <1>3, <1>5, <1>10 DEF ValueIs, WithLeaf, g, one, up

(* A new node above one that it contains.                                  *)
LEMMA AboveGrafted ==
    ASSUME NEW t, Tree(t), NEW p \in Prefixes, NEW v \in SUBSET ASes, NEW at,
           Hook(t, p, at), ~GoesOn(p, at), at.node # Nil, at.node # p, DiffBit(at.node, p) < 0
    PROVE  LET g == WithAbove(t.node, at.node, at.parent, p, v)
           IN  Grafted(t, g, at.parent, at.node, p, p, {p}) /\ ValueIs(g, p, v)
<1> DEFINE up == at.parent
           n == at.node
           side == Bit(n, Len(p))
           node == [NewNode(v, up) EXCEPT !.kids[side] = n]
           one == [q \in {p} |-> node]
           h == [t.node EXCEPT ![n].parent = p]
           g == AddNodes(h, one)
<1>1. p \notin DOMAIN t.node /\ p # Nil /\ n \in DOMAIN t.node /\ n \in Prefixes /\ ~Contains(n, p)
  BY NewPlace, NilIsNoPrefix
<1>2. up \in Pointers(t.node) /\ up \in Pointer /\ n \in Pointer /\ p \in Pointer /\ n \in Pointers(t.node)
  BY <1>1 DEF Hook, Pointers, Pointer, Tree
<1>3. up = Nil => n = t.root
  BY DEF Hook
<1>4. up # Nil => /\ Contains(up, p) /\ Len(up) < Len(p)
                  /\ t.node[up].kids[Bit(p, Len(up))] = n
  BY DEF Hook
<1>5. n # Nil /\ n # p /\ DiffBit(n, p) < 0
  OBVIOUS
<1> HIDE DEF up, n
<1>6. Contains(p, n) /\ Len(p) < Len(n)
  BY <1>1, <1>5, DiffBitSign, ContainsLen
<1>7. side \in {0, 1}
  BY <1>1, <1>6, SideBit
<1> HIDE DEF side
<1>8. v \in {NoValue} \cup SUBSET ASes /\ v # NoValue
  BY TrieAssumption
<1>9. /\ node \in Node /\ node.value = v /\ node.parent = up
      /\ \A c \in {0, 1} : node.kids[c] = IF c = side THEN n ELSE Nil
  <2> DEFINE k == [c \in {0, 1} |-> IF c = side THEN n ELSE Nil]
  <2>1. node = [value |-> v, kids |-> [NoKids EXCEPT ![side] = n], parent |-> up]
    BY DEF NewNode
  <2>2. [NoKids EXCEPT ![side] = n] = k /\ k \in [{0, 1} -> Pointer]
    BY <1>2 DEF NoKids, Pointer
  <2>3. \A c \in {0, 1} : k[c] = IF c = side THEN n ELSE Nil
    OBVIOUS
  <2> HIDE DEF k, node
  <2>4. node = [value |-> v, kids |-> k, parent |-> up]
    BY <2>1, <2>2
  <2>5. [value |-> v, kids |-> k, parent |-> up] \in Node
    BY <2>2, <1>2, <1>8 DEF Node
  <2> QED
    BY <2>3, <2>4, <2>5
<1> HIDE DEF node
<1>10. DOMAIN one = {p} /\ one[p] = node
  OBVIOUS
<1>11. \A q \in DOMAIN t.node : t.node[q] \in Node
  BY DEF Tree
<1>12. /\ DOMAIN h = DOMAIN t.node
       /\ \A q \in DOMAIN t.node : /\ h[q] \in Node
                                   /\ h[q].value = t.node[q].value /\ h[q].kids = t.node[q].kids
                                   /\ h[q].parent = IF q = n THEN p ELSE t.node[q].parent
  BY <1>2, <1>11, ParentSet
<1> HIDE DEF one, h
<1>13. /\ DOMAIN g = DOMAIN t.node \cup {p} /\ g[p] = node
       /\ \A q \in DOMAIN t.node : g[q] = h[q]
  <2>1. /\ DOMAIN g = DOMAIN h \cup DOMAIN one
        /\ \A q \in DOMAIN one : g[q] = one[q]
        /\ \A q \in DOMAIN h \ DOMAIN one : g[q] = h[q]
    BY AddNodesIs
  <2> HIDE DEF g
  <2>2. \A q \in DOMAIN t.node : q # p
    BY <1>1
  <2> QED
    BY <2>1, <2>2, <1>10, <1>12
<1> HIDE DEF g
<1>14. Extends(g, p)
  <2>1. Ext!IsStrictPrefix(p, n) /\ Bit(n, Len(p)) = side
    BY <1>5, <1>6, StrictIsContains DEF side
  <2>2. n \in DOMAIN g /\ HasValue(g, p) /\ \A c \in {0, 1} : g[p].kids[c] = IF c = side THEN n ELSE Nil
    BY <1>1, <1>8, <1>9, <1>13 DEF HasValue
  <2> QED
    BY <2>1, <2>2, <1>5 DEF Extends
<1>15. \A q \in DOMAIN g : g[q] \in Node
  BY <1>9, <1>12, <1>13
<1>16. IsKid(g, n, p)
  BY <1>7, <1>9, <1>13 DEF IsKid
<1>17. Grafted(t, g, up, n, p, p, {p})
  BY <1>1, <1>2, <1>3, <1>4, <1>9, <1>12, <1>13, <1>14, <1>15, <1>16 DEF Grafted
<1> QED
  BY <1>9, <1>13, <1>17 DEF ValueIs, WithAbove, g, h, one, node, side, up, n

(* The prefix that two others share.                                       *)
LEMMA CommonIs ==
    ASSUME NEW n \in Prefixes, NEW p \in Prefixes, NEW i \in Int, DiffersAt(n, p, i)
    PROVE  LET common == SubSeq(p, 1, i - 1) IN
           /\ common \in Prefixes /\ Len(common) = i - 1
           /\ Contains(common, p) /\ Contains(common, n)
           /\ Len(common) < Len(p) /\ Len(common) < Len(n)
           /\ common # p /\ common # n
           /\ Bit(n, Len(common)) \in {0, 1} /\ Bit(p, Len(common)) \in {0, 1}
           /\ Bit(n, Len(common)) # Bit(p, Len(common))
<1> DEFINE k == i - 1
           common == SubSeq(p, 1, k)
<1>1. /\ Len(n) \in Nat /\ Len(p) \in Nat /\ Len(p) <= Width /\ p \in Seq({0, 1})
      /\ i \in 1 .. Len(n) /\ i \in 1 .. Len(p) /\ Width \in Nat
      /\ \A j \in 1 .. i - 1 : n[j] = p[j]
      /\ n[i] # p[i]
  BY PrefixIsSeq, TrieAssumption DEF DiffersAt
<1>2. /\ k \in Nat /\ k < Len(n) /\ k < Len(p) /\ k + 1 = i /\ k <= Width
      /\ \A j \in 1 .. k : n[j] = p[j] /\ p[j] \in {0, 1}
  BY <1>1, ElementOfSeq
<1> HIDE DEF k
<1>3. /\ common \in Seq({0, 1}) /\ Len(common) = (IF 1 <= k THEN k - 1 + 1 ELSE 0)
      /\ \A j \in 1 .. k - 1 + 1 : common[j] = p[1 + j - 1]
  BY <1>2, SubSeqProperties
<1> HIDE DEF common
<1>4. Len(common) = k /\ \A j \in 1 .. k : common[j] = p[j]
  BY <1>2, <1>3
<1>5. common \in Prefixes
  BY <1>2, <1>3, <1>4, SeqIsPrefix
<1>6. Contains(common, p) /\ Contains(common, n)
  BY <1>2, <1>4, <1>5, ContainsBits
<1>7. Bit(n, k) = n[i] /\ Bit(p, k) = p[i]
  BY <1>2 DEF Bit
<1>8. Bit(n, k) \in {0, 1} /\ Bit(p, k) \in {0, 1}
  BY <1>2, <1>4, <1>5, SideBit
<1>9. Bit(n, k) # Bit(p, k)
  BY <1>1, <1>7
<1>10. common # p /\ common # n
  BY <1>2, <1>4
<1> QED
  BY <1>2, <1>4, <1>5, <1>6, <1>8, <1>9, <1>10 DEF common, k

(* A new node beside one, and a node without a value above both.           *)
LEMMA SplitGrafted ==
    ASSUME NEW t, Tree(t), NEW p \in Prefixes, NEW v \in SUBSET ASes, NEW at,
           Hook(t, p, at), ~GoesOn(p, at), at.node # Nil, at.node # p, ~(DiffBit(at.node, p) < 0)
    PROVE  LET common == Common(at.node, p)
               g      == WithSplit(t.node, at.node, at.parent, p, v)
           IN  /\ Grafted(t, g, at.parent, at.node, common, common, {common, p})
               /\ ValueIs(g, p, v) /\ ValueIs(g, common, NoValue) /\ common # p
<1> DEFINE up == at.parent
           n == at.node
<1>1. p \notin DOMAIN t.node /\ p # Nil /\ n \in DOMAIN t.node /\ n \in Prefixes /\ ~Contains(n, p)
  BY NewPlace, NilIsNoPrefix
<1>2. up \in Pointers(t.node) /\ up \in Pointer /\ n \in Pointer /\ p \in Pointer /\ n \in Pointers(t.node)
  BY <1>1 DEF Hook, Pointers, Pointer, Tree
<1>3. up = Nil => n = t.root
  BY DEF Hook
<1>4. up # Nil => /\ Contains(up, p) /\ Len(up) < Len(p)
                  /\ t.node[up].kids[Bit(p, Len(up))] = n
  BY DEF Hook
<1>5. n # Nil /\ n # p /\ ~(DiffBit(n, p) < 0)
  OBVIOUS
<1>6. \A q \in DOMAIN t.node :
         (up # Nil => Contains(up, q) /\ Len(up) < Len(q) /\ Bit(q, Len(up)) = Bit(p, Len(up)))
         => Contains(n, q)
  BY HookBelow
<1> HIDE DEF up, n
<1>7. ~Contains(n, p) /\ ~Contains(p, n)
  BY <1>1, <1>5, DiffBitSign
<1>8. PICK i \in Int : DiffersAt(n, p, i)
  BY <1>1, <1>7, FirstDifference
<1>9. DiffBit(n, p) = i - 1
  BY <1>1, <1>8, DiffBitIs
<1> DEFINE common == Common(n, p)
           sn == Bit(n, Len(common))
           sp == Bit(p, Len(common))
           branch == [NewNode(NoValue, up) EXCEPT !.kids[sn] = n, !.kids[sp] = p]
           new == [q \in {common, p} |-> IF q = p THEN NewNode(v, common) ELSE branch]
           h == [t.node EXCEPT ![n].parent = common]
           g == AddNodes(h, new)
<1>10. /\ common \in Prefixes
       /\ Contains(common, p) /\ Contains(common, n)
       /\ Len(common) < Len(p) /\ Len(common) < Len(n)
       /\ common # p /\ common # n
       /\ sn \in {0, 1} /\ sp \in {0, 1} /\ sn # sp /\ Len(common) = i - 1
  BY <1>1, <1>8, <1>9, CommonIs DEF Common
<1> HIDE DEF common
<1>11. common \in Pointer /\ common # Nil
  BY <1>10, NilIsNoPrefix DEF Pointer
<1>12. up # Nil => /\ up \in DOMAIN t.node /\ up \in Prefixes /\ Contains(up, n) /\ Len(up) < Len(n)
                   /\ Bit(n, Len(up)) = Bit(p, Len(up))
  <2> SUFFICES ASSUME up # Nil
               PROVE  /\ up \in DOMAIN t.node /\ up \in Prefixes /\ Contains(up, n) /\ Len(up) < Len(n)
                      /\ Bit(n, Len(up)) = Bit(p, Len(up))
    OBVIOUS
  <2>1. up \in DOMAIN t.node /\ up \in Prefixes
    BY <1>2 DEF Pointers, Tree
  <2>2. Bit(p, Len(up)) \in {0, 1}
    BY <2>1, <1>4, SideBit
  <2> QED
    BY <2>1, <2>2, <1>4, <1>5, KidFacts
<1>13. up # Nil => Contains(up, common) /\ Len(up) < Len(common) /\ Bit(common, Len(up)) = Bit(p, Len(up))
  <2> SUFFICES ASSUME up # Nil
               PROVE  Contains(up, common) /\ Len(up) < Len(common) /\ Bit(common, Len(up)) = Bit(p, Len(up))
    OBVIOUS
  <2>1. up \in Prefixes /\ Contains(up, n) /\ Len(up) < Len(n) /\ n[Len(up) + 1] = p[Len(up) + 1]
    BY <1>12 DEF Bit
  <2>2. Contains(up, p) /\ Len(up) \in Nat /\ Len(n) \in Nat /\ Len(p) \in Nat /\ Len(common) \in Nat
    BY <1>1, <1>4, <1>10, <2>1, PrefixIsSeq
  <2>3. \A j \in 1 .. Len(up) : n[j] = p[j]
    BY <2>1, <2>2, <1>1, ContainsBits
  <2>4. i \in 1 .. Len(n) /\ n[i] # p[i]
    BY <1>8 DEF DiffersAt
  <2>5. ~(i <= Len(up)) /\ i # Len(up) + 1
    BY <2>1, <2>2, <2>3, <2>4
  <2>6. Len(up) < Len(common)
    BY <2>2, <2>4, <2>5, <1>10
  <2>7. Contains(up, common)
    BY <2>1, <2>2, <2>6, <1>10, ContainsChain
  <2>8. Bit(common, Len(up)) = Bit(p, Len(up))
    BY <2>1, <2>6, <1>10, SideBitBelow
  <2> QED
    BY <2>6, <2>7, <2>8
<1>14. common \notin DOMAIN t.node
  <2> SUFFICES ASSUME common \in DOMAIN t.node PROVE FALSE
    OBVIOUS
  <2>1. Contains(n, common)
    BY <1>6, <1>13
  <2>2. Len(n) <= Len(common) /\ Len(n) \in Nat /\ Len(common) \in Nat
    BY <2>1, <1>1, <1>10, ContainsLen, PrefixIsSeq
  <2> QED
    BY <2>2, <1>10
<1> DEFINE k == [c \in {0, 1} |-> IF c = sp THEN p ELSE n]
<1>15. branch \in Node /\ branch.value = NoValue /\ branch.parent = up /\ branch.kids = k
  <2> HIDE DEF sn, sp
  <2>1. [[NoKids EXCEPT ![sn] = n] EXCEPT ![sp] = p] = k
    BY <1>10 DEF NoKids
  <2> DEFINE k1 == [NoKids EXCEPT ![sn] = n]
             b1 == [NewNode(NoValue, up) EXCEPT !.kids[sn] = n]
  <2>5. b1 = [value |-> NoValue, kids |-> k1, parent |-> up]
    BY DEF NewNode
  <2>6. branch = [b1 EXCEPT !.kids[sp] = p]
    OBVIOUS
  <2> HIDE DEF b1, k1
  <2>7. branch = [value |-> NoValue, kids |-> [k1 EXCEPT ![sp] = p], parent |-> up]
    BY <2>5, <2>6
  <2>2. branch = [value |-> NoValue, kids |-> k, parent |-> up]
    BY <2>1, <2>7 DEF k1
  <2>3. k \in [{0, 1} -> Pointer]
    BY <1>2
  <2> HIDE DEF k
  <2>4. [value |-> NoValue, kids |-> k, parent |-> up] \in Node
    BY <2>3, <1>2 DEF Node
  <2> QED
    BY <2>2, <2>4
<1> HIDE DEF branch
<1>16. /\ NewNode(v, common) \in Node
       /\ NewNode(v, common).value = v /\ NewNode(v, common).parent = common /\ v # NoValue
       /\ \A b \in {0, 1} : NewNode(v, common).kids[b] = Nil
  BY <1>11, NewNodeIs
<1>17. DOMAIN new = {common, p} /\ new[p] = NewNode(v, common) /\ new[common] = branch
  BY <1>10
<1>18. \A q \in DOMAIN t.node : t.node[q] \in Node
  BY DEF Tree
<1>19. /\ DOMAIN h = DOMAIN t.node
       /\ \A q \in DOMAIN t.node : /\ h[q] \in Node
                                   /\ h[q].value = t.node[q].value /\ h[q].kids = t.node[q].kids
                                   /\ h[q].parent = IF q = n THEN common ELSE t.node[q].parent
  BY <1>11, <1>18, ParentSet
<1> HIDE DEF new, h
<1>20. /\ DOMAIN g = DOMAIN t.node \cup {common, p}
       /\ g[p] = NewNode(v, common) /\ g[common] = branch
       /\ \A q \in DOMAIN t.node : g[q] = h[q]
  <2>1. /\ DOMAIN g = DOMAIN h \cup DOMAIN new
        /\ \A q \in DOMAIN new : g[q] = new[q]
        /\ \A q \in DOMAIN h \ DOMAIN new : g[q] = h[q]
    BY AddNodesIs
  <2> HIDE DEF g
  <2>2. \A q \in DOMAIN t.node : q # p /\ q # common
    BY <1>1, <1>14
  <2> QED
    BY <2>1, <2>2, <1>17, <1>19
<1> HIDE DEF g
<1>21. Extends(g, p)
  BY <1>16, <1>20 DEF Extends, HasValue
<1>22. \A c \in {0, 1} : c = sp \/ c = sn
  BY <1>10
<1>23. g[common].kids[sp] = p /\ g[common].kids[sn] = n
  BY <1>10, <1>15, <1>20
<1>24. Extends(g, common)
  <2>1. Ext!IsStrictPrefix(common, n) /\ Bit(n, Len(common)) = sn
    BY <1>10, StrictIsContains
  <2>2. Ext!IsStrictPrefix(common, p) /\ Bit(p, Len(common)) = sp
    BY <1>10, StrictIsContains
  <2>3. n \in DOMAIN g /\ p \in DOMAIN g /\ n # Nil /\ p # Nil
    BY <1>1, <1>5, <1>20
  <2> HIDE DEF sn, sp
  <2> QED
    BY <2>1, <2>2, <2>3, <1>22, <1>23 DEF Extends
<1>25. \A q \in DOMAIN g : g[q] \in Node
  BY <1>15, <1>16, <1>19, <1>20
<1>26. IsKid(g, n, common) /\ IsKid(g, p, common)
  BY <1>10, <1>23 DEF IsKid
<1>27. /\ \A q \in {common, p} : Extends(g, q)
       /\ \A q \in {common, p} : IF q = common THEN g[q].parent = up
                                 ELSE g[q].parent \in {common, p} /\ IsKid(g, q, g[q].parent)
  BY <1>15, <1>16, <1>20, <1>21, <1>24, <1>26
<1>28. up # Nil => /\ Contains(up, common) /\ Len(up) < Len(common)
                   /\ t.node[up].kids[Bit(common, Len(up))] = n
  BY <1>4, <1>13
<1>29. /\ common \in {common, p} /\ {common, p} \subseteq Prefixes
       /\ {common, p} \cap DOMAIN t.node = {}
  BY <1>1, <1>10, <1>14
<1>30. \A q \in DOMAIN t.node :
          /\ g[q].value = t.node[q].value /\ g[q].kids = t.node[q].kids
          /\ g[q].parent = IF q = n THEN common ELSE t.node[q].parent
  BY <1>19, <1>20
<1>31. Grafted(t, g, up, n, common, common, {common, p})
  BY <1>2, <1>3, <1>20, <1>25, <1>26, <1>27, <1>28, <1>29, <1>30 DEF Grafted
<1>32. g[p].value = v /\ g[common].value = NoValue /\ common # p
  BY <1>10, <1>15, <1>16, <1>20
<1> QED
  BY <1>31, <1>32 DEF ValueIs, WithSplit, g, h, new, branch, common, up, n

(* u is t with the entry p, which has the value v if it is new.            *)
Added(t, u, p, v) ==
    /\ Tree(u)
    /\ \A exact \in BOOLEAN : Parents(t, exact) => Parents(u, exact)
    /\ ValueNodes(u.node) = ValueNodes(t.node) \cup {p}
    /\ \A q \in ValueNodes(t.node) : u.node[q].value = t.node[q].value
    /\ p \notin ValueNodes(t.node) => u.node[p].value = v
    /\ u.size = IF p \in ValueNodes(t.node) THEN t.size ELSE t.size + 1
    /\ IsFiniteSet(DOMAIN t.node) => IsFiniteSet(DOMAIN u.node)

(* In each of these cases the trie has the new entry.                      *)
LEMMA GraftedAdds ==
    ASSUME NEW t, Tree(t), NEW g, NEW up, NEW at, NEW top, NEW above, NEW new, NEW p, NEW v \in SUBSET ASes,
           Grafted(t, g, up, at, top, above, new), IsFiniteSet(new),
           p \in new, ValueIs(g, p, v), \A n \in new \ {p} : ValueIs(g, n, NoValue)
    PROVE  Added(t, Relink([root |-> t.root, node |-> g, size |-> t.size + 1], up, top), p, v)
<1> DEFINE u == Relink([root |-> t.root, node |-> g, size |-> t.size + 1], up, top)
<1>1. /\ Tree(u) /\ u.size = t.size + 1
      /\ DOMAIN u.node = DOMAIN t.node \cup new
      /\ \A n \in DOMAIN u.node : u.node[n].value = g[n].value
      /\ \A exact \in BOOLEAN : Parents(t, exact) => Parents(u, exact)
  BY GraftedTree
<1> HIDE DEF u
<1>2. /\ new \cap DOMAIN t.node = {}
      /\ \A n \in DOMAIN t.node : u.node[n].value = t.node[n].value
  BY <1>1 DEF Grafted
<1>3. v # NoValue
  BY TrieAssumption
<1>4. ValueNodes(u.node) = ValueNodes(t.node) \cup {p}
  BY <1>1, <1>2, <1>3 DEF ValueNodes, HasValue, ValueIs
<1>5. p \notin ValueNodes(t.node) /\ u.node[p].value = v
  BY <1>1, <1>2 DEF ValueNodes, ValueIs
<1>6. IsFiniteSet(DOMAIN t.node) => IsFiniteSet(DOMAIN u.node)
  <2>1. ASSUME IsFiniteSet(DOMAIN t.node) PROVE IsFiniteSet(DOMAIN t.node \cup new)
    BY <2>1, FS_Union
  <2> QED
    BY <2>1, <1>1
<1>7. \A q \in ValueNodes(t.node) : u.node[q].value = t.node[q].value
  BY <1>2 DEF ValueNodes
<1> QED
  BY <1>1, <1>4, <1>5, <1>6, <1>7 DEF Added, u

(* A node is given a value. *)
WithValue(h, p, v) == [h EXCEPT ![p].value = v]

Revalued(t, u, p, v, s) == u = [root |-> t.root, node |-> WithValue(t.node, p, v), size |-> s]

ValueGiven(t, u, p, v, s) ==
    /\ Tree(u) /\ u.size = s
    /\ DOMAIN u.node = DOMAIN t.node
    /\ \A exact \in BOOLEAN : Parents(t, exact) => Parents(u, exact)
    /\ ValueNodes(u.node) = ValueNodes(t.node) \cup {p}
    /\ \A q \in DOMAIN t.node \ {p} : u.node[q].value = t.node[q].value
    /\ ValueIs(u.node, p, v)

(* Setting a value changes nothing else.                                   *)
LEMMA ValueSet ==
    ASSUME NEW t, Tree(t), NEW p \in DOMAIN t.node, NEW v \in SUBSET ASes, NEW s, NEW u,
           Revalued(t, u, p, v, s)
    PROVE  ValueGiven(t, u, p, v, s)
<1> DEFINE g == WithValue(t.node, p, v)
<1>1. DOMAIN g = DOMAIN t.node
  BY DEF WithValue
<1>2. ASSUME NEW n \in DOMAIN t.node
      PROVE  /\ g[n] \in Node /\ g[n].kids = t.node[n].kids /\ g[n].parent = t.node[n].parent
             /\ g[n].value = IF n = p THEN v ELSE t.node[n].value
  <2>1. t.node[n] \in Node
    BY DEF Tree
  <2>2. CASE n = p
    <3>1. g[n] = [t.node[n] EXCEPT !.value = v]
      BY <2>2 DEF WithValue
    <3> QED
      BY <2>1, <2>2, <3>1 DEF Node
  <2>3. CASE n # p
    BY <2>1, <2>3 DEF WithValue
  <2> QED
    BY <2>2, <2>3
<1> HIDE DEF g
<1>3. u = [root |-> t.root, node |-> g, size |-> s]
  BY DEF g, Revalued
<1>4. u.root = t.root /\ u.node = g /\ u.size = s /\ u = [root |-> u.root, node |-> u.node, size |-> u.size]
  BY <1>3
<1>5. v # NoValue
  BY TrieAssumption
<1>6. ASSUME NEW n \in DOMAIN t.node PROVE HasValue(g, n) <=> HasValue(t.node, n) \/ n = p
  BY <1>2, <1>5 DEF HasValue
<1>7. \A n, w \in DOMAIN t.node : IsKid(t.node, n, w) <=> IsKid(g, n, w)
  BY <1>2 DEF IsKid
<1>8. KidsExtend(u)
  <2> SUFFICES ASSUME NEW n \in DOMAIN t.node, NEW b \in {0, 1}
               PROVE  IF g[n].kids[b] = Nil THEN HasValue(g, n)
                      ELSE /\ g[n].kids[b] \in DOMAIN g
                           /\ Ext!IsStrictPrefix(n, g[n].kids[b]) /\ Bit(g[n].kids[b], Len(n)) = b
    BY <1>1, <1>4 DEF KidsExtend
  <2>1. IF t.node[n].kids[b] = Nil THEN HasValue(t.node, n)
        ELSE /\ t.node[n].kids[b] \in DOMAIN t.node
             /\ Ext!IsStrictPrefix(n, t.node[n].kids[b]) /\ Bit(t.node[n].kids[b], Len(n)) = b
    BY DEF Tree, KidsExtend
  <2>2. g[n].kids[b] = t.node[n].kids[b]
    BY <1>2
  <2> QED
    BY <1>1, <1>6, <2>1, <2>2
<1>9. AllHang(u)
  BY <1>1, <1>4, <1>7 DEF Tree, AllHang
<1>10. Tree(u)
  BY <1>1, <1>2, <1>4, <1>8, <1>9 DEF Tree, Pointers
<1>11. \A exact \in BOOLEAN : Parents(t, exact) => Parents(u, exact)
  BY <1>1, <1>2, <1>4, <1>7 DEF Parents
<1>12. ValueNodes(g) = ValueNodes(t.node) \cup {p}
  BY <1>1, <1>6 DEF ValueNodes
<1> QED
  BY <1>1, <1>2, <1>4, <1>10, <1>11, <1>12 DEF ValueIs, ValueGiven

(* addNode adds the entry and keeps the trie.                              *)
LEMMA AddNodeIs ==
    ASSUME NEW t, Tree(t), NEW p \in Prefixes, NEW v \in SUBSET ASes
    PROVE  Added(t, AddNode(t, p, v), p, v)
<1> DEFINE stop == AddPoint(t.node, t.root, p)
           at == stop.node
           up == stop.parent
           grown == [t EXCEPT !.size = @ + 1]
           with(g) == [root |-> t.root, node |-> g, size |-> t.size + 1]
<1>1. Hook(t, p, stop) /\ ~GoesOn(p, stop)
  BY AddPointIs
<1>2. t = [root |-> t.root, node |-> t.node, size |-> t.size]
  BY DEF Tree
<1>3. grown = with(t.node)
  <2>1. \A r, h, s : [[root |-> r, node |-> h, size |-> s] EXCEPT !.size = @ + 1]
                        = [root |-> r, node |-> h, size |-> s + 1]
    OBVIOUS
  <2> QED
    BY <1>2, <2>1
<1>4. AddNode(t, p, v) =
          CASE at = Nil -> AddLeaf(grown, up, p, v)
            [] at = p -> IF HasValue(t.node, p) THEN t ELSE [grown EXCEPT !.node[p].value = v]
            [] at \notin {Nil, p} /\ DiffBit(at, p) < 0 -> AddAbove(grown, at, up, p, v)
            [] OTHER -> Split(grown, at, up, p, v)
  BY DEF AddNode
<1>5. p # Nil
  BY NilIsNoPrefix
<1> HIDE DEF stop, grown
<1>10. grown.node = t.node /\ \A g : [grown EXCEPT !.node = g] = with(g)
  BY <1>3
<1> DEFINE u == AddNode(t, p, v)
<1>6. CASE at = Nil
  <2> DEFINE g == WithLeaf(t.node, up, p, v)
  <2>1. Grafted(t, g, up, Nil, p, Nil, {p}) /\ ValueIs(g, p, v)
    BY <1>1, <1>6, LeafGrafted
  <2>2. AddLeaf(grown, up, p, v) = Relink([grown EXCEPT !.node = WithLeaf(grown.node, up, p, v)], up, p)
    BY DEF AddLeaf, WithLeaf
  <2>3. IsFiniteSet({p})
    BY FS_Singleton
  <2> HIDE DEF g
  <2>4. Added(t, Relink(with(g), up, p), p, v)
    BY <2>1, <2>3, GraftedAdds
  <2>5. AddLeaf(grown, up, p, v) = Relink(with(g), up, p)
    BY <2>2, <1>10 DEF g
  <2>6. u = AddLeaf(grown, up, p, v)
    BY <1>4, <1>5, <1>6
  <2> HIDE DEF u, with
  <2> QED
    BY <2>4, <2>5, <2>6 DEF u
<1>7. CASE at # Nil /\ at = p
  <2>1. p \in DOMAIN t.node
    BY <1>1, <1>7 DEF Hook, Pointers
  <2>2. CASE HasValue(t.node, p)
    <3>1. AddNode(t, p, v) = t /\ p \in ValueNodes(t.node)
      BY <1>4, <1>7, <2>1, <2>2 DEF ValueNodes
    <3>2. ValueNodes(t.node) = ValueNodes(t.node) \cup {p}
      BY <3>1
    <3> QED
      BY <3>1, <3>2 DEF Added
  <2>3. CASE ~HasValue(t.node, p)
    <3> DEFINE w == with(WithValue(t.node, p, v))
    <3>1. u = [grown EXCEPT !.node[p].value = v]
      BY <1>4, <1>7, <2>3
    <3>2. [grown EXCEPT !.node[p].value = v] = [grown EXCEPT !.node = WithValue(grown.node, p, v)]
      BY <1>3 DEF WithValue
    <3>3. u = w
      BY <3>1, <3>2, <1>10
    <3>4. Revalued(t, w, p, v, t.size + 1)
      BY DEF Revalued
    <3> HIDE DEF u, w
    <3>5. ValueGiven(t, w, p, v, t.size + 1)
      BY <2>1, <3>4, ValueSet
    <3>6. p \notin ValueNodes(t.node) /\ ValueNodes(t.node) \subseteq DOMAIN t.node \ {p}
      BY <2>3 DEF ValueNodes
    <3>7. Added(t, w, p, v)
      BY <3>5, <3>6 DEF Added, ValueIs, ValueGiven
    <3> QED
      BY <3>3, <3>7 DEF u
  <2> QED
    BY <2>2, <2>3
<1>8. CASE at # Nil /\ at # p /\ DiffBit(at, p) < 0
  <2> DEFINE g == WithAbove(t.node, at, up, p, v)
  <2>1. Grafted(t, g, up, at, p, p, {p}) /\ ValueIs(g, p, v)
    BY <1>1, <1>8, AboveGrafted
  <2>2. AddAbove(grown, at, up, p, v) = Relink([grown EXCEPT !.node = WithAbove(grown.node, at, up, p, v)], up, p)
    BY DEF AddAbove, WithAbove
  <2>3. IsFiniteSet({p})
    BY FS_Singleton
  <2> HIDE DEF g
  <2>4. Added(t, Relink(with(g), up, p), p, v)
    BY <2>1, <2>3, GraftedAdds
  <2>5. AddAbove(grown, at, up, p, v) = Relink(with(g), up, p)
    BY <2>2, <1>10 DEF g
  <2>6. u = AddAbove(grown, at, up, p, v)
    BY <1>4, <1>8
  <2> HIDE DEF u, with
  <2> QED
    BY <2>4, <2>5, <2>6 DEF u
<1>9. CASE at # Nil /\ at # p /\ ~(DiffBit(at, p) < 0)
  <2> DEFINE g == WithSplit(t.node, at, up, p, v)
             common == Common(at, p)
  <2>1. /\ Grafted(t, g, up, at, common, common, {common, p})
        /\ ValueIs(g, p, v) /\ ValueIs(g, common, NoValue) /\ common # p
    BY <1>1, <1>9, SplitGrafted
  <2>2. Split(grown, at, up, p, v)
            = Relink([grown EXCEPT !.node = WithSplit(grown.node, at, up, p, v)], up, Common(at, p))
    BY DEF Split, WithSplit, Common
  <2>6. u = Split(grown, at, up, p, v)
    BY <1>4, <1>9
  <2>5. Split(grown, at, up, p, v) = Relink(with(g), up, common)
    BY <2>2, <1>10
  <2> HIDE DEF g, common
  <2>3. IsFiniteSet({common, p})
    <3>1. IsFiniteSet({common}) /\ {common, p} = {common} \cup {p}
      BY FS_Singleton
    <3> QED
      BY <3>1, FS_AddElement
  <2>4. Added(t, Relink(with(g), up, common), p, v)
    BY <2>1, <2>3, GraftedAdds
  <2> HIDE DEF u, with
  <2> QED
    BY <2>4, <2>5, <2>6 DEF u
<1> QED
  BY <1>6, <1>7, <1>8, <1>9

-----------------------------------------------------------------------------
(* removeNode.                                                             *)

(* The nodes below n, and n.                                               *)
Under(h, n) == {q \in DOMAIN h : Contains(n, q)}

(* A node hangs on a node below n, or on n, if it is below n itself.       *)
LEMMA UpInside ==
    ASSUME NEW t, Tree(t), NEW n \in DOMAIN t.node, NEW q \in DOMAIN t.node, n # q, Contains(n, q),
           NEW up \in DOMAIN t.node, IsKid(t.node, q, up)
    PROVE  Contains(n, up)
<1>1. n \in Prefixes /\ q \in Prefixes /\ up \in Prefixes /\ q # Nil
  BY NilIsNoPrefix DEF Tree
<1>2. PICK b \in {0, 1} : t.node[up].kids[b] = q
  BY DEF IsKid
<1>3. Contains(up, q) /\ Len(up) < Len(q) /\ Bit(q, Len(up)) = b
  BY <1>1, <1>2, KidFacts
<1>4. Len(n) \in Nat /\ Len(up) \in Nat /\ Len(q) \in Nat
  BY <1>1, PrefixIsSeq
<1>5. CASE Len(n) <= Len(up)
  BY <1>1, <1>3, <1>5, ContainsChain
<1>6. CASE Len(up) < Len(n)
  <2>1. Contains(up, n)
    BY <1>1, <1>3, <1>4, <1>6, ContainsChain
  <2>2. Bit(n, Len(up)) = b
    BY <1>1, <1>3, <1>6, SideBitBelow
  <2>3. up # n
    BY <1>4, <1>6
  <2>4. Contains(q, n)
    BY <1>2, <2>1, <2>2, <2>3, Through
  <2>5. Len(q) <= Len(n) /\ Len(n) < Len(q)
    BY <1>1, <2>4, ContainsLen
  <2> QED
    BY <1>4, <2>5
<1> QED
  BY <1>4, <1>5, <1>6

HungIn(g, q, S) == \E up \in S : IsKid(g, q, up)

ParentIn(g, q, S, exact) ==
    /\ g[q].parent # Nil => g[q].parent \in S /\ IsKid(g, q, g[q].parent)
    /\ exact => g[q].parent # Nil

ValuesLeft(h, g, p) ==
    /\ ValueNodes(g) = ValueNodes(h) \ {p}
    /\ \A q \in ValueNodes(g) : g[q].value = h[q].value

(* The nodes outside n are what they were.                                 *)
Outside(h, g, n) ==
    /\ DOMAIN g \subseteq DOMAIN h
    /\ \A q \in DOMAIN h : ~Contains(n, q) => q \in DOMAIN g /\ g[q] = h[q]
    /\ \A q \in DOMAIN g : g[q] \in Node

(* The nodes below n, when what p was has gone, and n is to be compacted.  *)
Loose(h, g, n, p, exact) ==
    /\ Outside(h, g, n)
    /\ n \in DOMAIN g
    /\ \A b \in {0, 1} :
          LET kid == g[n].kids[b] IN
          kid # Nil => kid \in DOMAIN g /\ Ext!IsStrictPrefix(n, kid) /\ Bit(kid, Len(n)) = b
    /\ \A q \in Under(g, n) \ {n} : /\ Extends(g, q)
                                    /\ HungIn(g, q, Under(g, n))
                                    /\ ParentIn(g, q, Under(g, n), exact)
    /\ ValuesLeft(h, g, p)

(* The nodes below n afterwards, of which top is the highest.              *)
Pruned(h, n, p, g, top, exact) ==
    /\ Outside(h, g, n)
    /\ top = Nil \/ top \in Under(g, n)
    /\ \A q \in Under(g, n) : Extends(g, q)
    /\ \A q \in Under(g, n) \ {top} : /\ HungIn(g, q, Under(g, n))
                                      /\ ParentIn(g, q, Under(g, n), exact)
    /\ ValuesLeft(h, g, p)
    /\ p \notin ValueNodes(h) => top = n

(* Compaction leaves a node that has a value, or two children.             *)
LEMMA CompactKeeps ==
    ASSUME NEW h, DOMAIN h \subseteq Prefixes, NEW g, NEW n \in Prefixes, NEW p, NEW exact,
           Loose(h, g, n, p, exact),
           HasValue(g, n) \/ \A b \in {0, 1} : g[n].kids[b] # Nil
    PROVE  Pruned(h, n, p, g, n, exact)
<1>1. n \in Under(g, n)
  BY ContainsReflexive DEF Loose, Under
<1>2. Extends(g, n)
  BY DEF Loose, Extends
<1>3. \A q \in Under(g, n) : Extends(g, q)
  BY <1>2 DEF Loose
<1> QED
  BY <1>1, <1>3 DEF Loose, Pruned

(* Compaction drops a node that has no value and one child, or none.       *)
LEMMA CompactDrops ==
    ASSUME NEW h, DOMAIN h \subseteq Prefixes, NEW g, NEW n \in Prefixes, NEW p, NEW exact,
           Loose(h, g, n, p, exact), p \in ValueNodes(h), ~HasValue(g, n),
           NEW kid, NEW b \in {0, 1}, kid = g[n].kids[b], g[n].kids[1 - b] = Nil
    PROVE  Pruned(h, n, p, CompactTo(g, n, kid).heap, kid, exact)
<1> DEFINE g2 == CompactTo(g, n, kid).heap
<1>1. DOMAIN g2 = DOMAIN g \ {n} /\ \A q \in DOMAIN g \ {n} : g2[q] = g[q]
  BY DEF CompactTo
<1> HIDE DEF g2
<1>2. Under(g2, n) = Under(g, n) \ {n}
  BY <1>1 DEF Under
<1>3. Contains(n, n)
  BY ContainsReflexive
<1>4. Outside(h, g2, n)
  BY <1>1, <1>3 DEF Loose, Outside
<1>5. \A c \in {0, 1} : c = b \/ c = 1 - b
  OBVIOUS
<1>6. ASSUME NEW q, IsKid(g, q, n), q # Nil PROVE q = kid
  BY <1>5, <1>6 DEF IsKid
<1>7. kid = Nil \/ kid \in Under(g2, n)
  <2>1. ASSUME kid # Nil PROVE kid \in DOMAIN g /\ Contains(n, kid) /\ kid # n
    BY <2>1, StrictIsContains DEF Loose
  <2> QED
    BY <2>1, <1>1 DEF Under
<1>8. \A q \in Under(g2, n) : /\ q \in Under(g, n) \ {n} /\ q \in DOMAIN g /\ q \in DOMAIN g2 /\ q \in Prefixes
                              /\ q # Nil /\ g2[q] = g[q] /\ Contains(n, q)
  BY <1>1, <1>2, NilIsNoPrefix DEF Under, Loose, Outside
<1>9. ASSUME NEW q \in Under(g2, n) PROVE Extends(g2, q)
  <2> SUFFICES ASSUME NEW c \in {0, 1}
               PROVE  IF g2[q].kids[c] = Nil THEN HasValue(g2, q)
                      ELSE /\ g2[q].kids[c] \in DOMAIN g2
                           /\ Ext!IsStrictPrefix(q, g2[q].kids[c]) /\ Bit(g2[q].kids[c], Len(q)) = c
    BY DEF Extends
  <2>1. g2[q] = g[q] /\ (HasValue(g2, q) <=> HasValue(g, q))
    BY <1>8 DEF HasValue
  <2>2. IF g[q].kids[c] = Nil THEN HasValue(g, q)
        ELSE /\ g[q].kids[c] \in DOMAIN g
             /\ Ext!IsStrictPrefix(q, g[q].kids[c]) /\ Bit(g[q].kids[c], Len(q)) = c
    BY <1>8 DEF Loose, Extends
  <2>3. ASSUME g[q].kids[c] # Nil PROVE g[q].kids[c] # n
    <3> SUFFICES ASSUME g[q].kids[c] = n PROVE FALSE
      OBVIOUS
    <3>1. Contains(q, n) /\ q # n
      BY <2>2, <2>3, StrictIsContains
    <3>2. Contains(n, q) /\ q \in Prefixes
      BY <1>8
    <3>3. Len(q) < Len(n) /\ Len(n) <= Len(q) /\ Len(n) \in Nat /\ Len(q) \in Nat
      BY <3>1, <3>2, ContainsLen, PrefixIsSeq
    <3> QED
      BY <3>3
  <2> QED
    BY <1>1, <2>1, <2>2, <2>3
<1>10. ASSUME NEW q \in Under(g2, n), q # kid, NEW up \in Under(g, n), IsKid(g, q, up)
       PROVE  up \in Under(g2, n) /\ IsKid(g2, q, up)
  <2>1. up # n
    BY <1>6, <1>8, <1>10
  <2>2. up \in Under(g2, n) /\ g2[up] = g[up]
    BY <1>2, <1>8, <2>1
  <2> QED
    BY <2>2, <1>10 DEF IsKid
<1>11. ASSUME NEW q \in Under(g2, n) \ {kid}
       PROVE  HungIn(g2, q, Under(g2, n)) /\ ParentIn(g2, q, Under(g2, n), exact)
  <2>1. HungIn(g, q, Under(g, n)) /\ ParentIn(g, q, Under(g, n), exact)
    BY <1>8 DEF Loose
  <2>2. HungIn(g2, q, Under(g2, n))
    BY <2>1, <1>10 DEF HungIn
  <2>3. g2[q].parent = g[q].parent
    BY <1>8
  <2>4. ParentIn(g2, q, Under(g2, n), exact)
    BY <2>1, <2>3, <1>10 DEF ParentIn
  <2> QED
    BY <2>2, <2>4
<1>12. ValuesLeft(h, g2, p)
  <2>1. ValueNodes(g2) = ValueNodes(g)
    BY <1>1 DEF ValueNodes, HasValue
  <2>2. \A q \in ValueNodes(g2) : g2[q] = g[q]
    BY <1>1 DEF ValueNodes
  <2> QED
    BY <2>1, <2>2 DEF Loose, ValuesLeft
<1> QED
  BY <1>4, <1>7, <1>9, <1>11, <1>12 DEF Pruned, g2

(* Compaction leaves a tree below the node.                                *)
LEMMA CompactIs ==
    ASSUME NEW h, DOMAIN h \subseteq Prefixes, NEW g, NEW n \in Prefixes, NEW p, NEW exact,
           Loose(h, g, n, p, exact), p \in ValueNodes(h)
    PROVE  Pruned(h, n, p, Compact(g, n).heap, Compact(g, n).node, exact)
<1> DEFINE left == g[n].kids[0]
           right == g[n].kids[1]
<1>1. CASE HasValue(g, n) \/ (left # Nil /\ right # Nil)
  <2>1. Compact(g, n).heap = g /\ Compact(g, n).node = n
    BY <1>1 DEF Compact
  <2>2. HasValue(g, n) \/ \A b \in {0, 1} : g[n].kids[b] # Nil
    BY <1>1
  <2> QED
    BY <2>1, <2>2, CompactKeeps
<1>2. CASE ~HasValue(g, n) /\ left # Nil /\ right = Nil
  <2>1. Compact(g, n) = CompactTo(g, n, left) /\ CompactTo(g, n, left).node = left
    BY <1>2 DEF Compact, CompactTo
  <2>2. left = g[n].kids[0] /\ g[n].kids[1 - 0] = Nil
    BY <1>2
  <2>3. Pruned(h, n, p, CompactTo(g, n, left).heap, left, exact)
    BY <1>2, <2>2, CompactDrops
  <2> QED
    BY <2>1, <2>3
<1>3. CASE ~HasValue(g, n) /\ left = Nil
  <2>1. Compact(g, n) = CompactTo(g, n, right) /\ CompactTo(g, n, right).node = right
    BY <1>3 DEF Compact, CompactTo
  <2>2. right = g[n].kids[1] /\ g[n].kids[1 - 1] = Nil
    BY <1>3
  <2>3. Pruned(h, n, p, CompactTo(g, n, right).heap, right, exact)
    BY <1>3, <2>2, CompactDrops
  <2> QED
    BY <2>1, <2>3
<1> QED
  BY <1>1, <1>2, <1>3

(* A node loses its value. *)
Emptied(h, n) == [h EXCEPT ![n].value = NoValue]

(* What is known of the nodes below a node.                                *)
LEMMA UnderFacts ==
    ASSUME NEW t, Tree(t), NEW n \in DOMAIN t.node, NEW q \in Under(t.node, n), q # n
    PROVE  /\ q \in DOMAIN t.node /\ q \in Prefixes /\ q # Nil /\ q # t.root
           /\ Contains(n, q) /\ ~Contains(q, n)
           /\ \A up \in DOMAIN t.node : IsKid(t.node, q, up) => up \in Under(t.node, n)
           /\ Extends(t.node, q)
           /\ HungIn(t.node, q, Under(t.node, n))
           /\ \A exact \in BOOLEAN : Parents(t, exact) => ParentIn(t.node, q, Under(t.node, n), exact)
<1>1. /\ n \in Prefixes /\ q \in DOMAIN t.node /\ q \in Prefixes /\ q # Nil /\ Contains(n, q)
  BY NilIsNoPrefix DEF Tree, Under
<1>2. ~Contains(q, n)
  <2>1. ASSUME Contains(q, n) PROVE FALSE
    <3>1. Len(q) <= Len(n) /\ Len(n) < Len(q) /\ Len(n) \in Nat /\ Len(q) \in Nat
      BY <1>1, <2>1, ContainsLen, PrefixIsSeq
    <3> QED
      BY <3>1
  <2> QED
    BY <2>1
<1>3. q # t.root
  BY <1>2, RootAbove
<1>4. \A up \in DOMAIN t.node : IsKid(t.node, q, up) => up \in Under(t.node, n)
  BY <1>1, UpInside DEF Under
<1>5. Extends(t.node, q)
  BY <1>1 DEF Extends, Tree, KidsExtend
<1>6. HungIn(t.node, q, Under(t.node, n))
  BY <1>1, <1>3, <1>4 DEF HungIn, Tree, AllHang
<1>7. ASSUME NEW exact \in BOOLEAN, Parents(t, exact)
      PROVE  ParentIn(t.node, q, Under(t.node, n), exact)
  BY <1>1, <1>3, <1>4, <1>7 DEF ParentIn, Parents
<1> QED
  BY <1>1, <1>2, <1>3, <1>4, <1>5, <1>6, <1>7

(* The node of the removed entry may need compaction.                      *)
LEMMA EmptiedLoose ==
    ASSUME NEW t, Tree(t), NEW exact \in BOOLEAN, Parents(t, exact), NEW p \in ValueNodes(t.node)
    PROVE  Loose(t.node, Emptied(t.node, p), p, p, exact)
<1> DEFINE h == t.node
           g == Emptied(t.node, p)
<1>1. p \in DOMAIN h /\ p \in Prefixes
  BY DEF ValueNodes, Tree
<1>2. DOMAIN g = DOMAIN h
  BY DEF Emptied
<1>3. ASSUME NEW q \in DOMAIN h
      PROVE  /\ g[q] \in Node /\ g[q].kids = h[q].kids /\ g[q].parent = h[q].parent
             /\ g[q].value = IF q = p THEN NoValue ELSE h[q].value
             /\ q # p => g[q] = h[q]
  <2>1. h[q] \in Node
    BY DEF Tree
  <2>2. CASE q = p
    <3>1. g[q] = [h[q] EXCEPT !.value = NoValue]
      BY <2>2 DEF Emptied
    <3> QED
      BY <2>1, <2>2, <3>1 DEF Node
  <2>3. CASE q # p
    BY <2>1, <2>3 DEF Emptied
  <2> QED
    BY <2>2, <2>3
<1> HIDE DEF g
<1>4. Outside(h, g, p)
  BY <1>1, <1>2, <1>3, ContainsReflexive DEF Outside
<1>5. ASSUME NEW b \in {0, 1}, g[p].kids[b] # Nil
      PROVE  g[p].kids[b] \in DOMAIN g /\ Ext!IsStrictPrefix(p, g[p].kids[b]) /\ Bit(g[p].kids[b], Len(p)) = b
  BY <1>1, <1>2, <1>3, <1>5 DEF Tree, KidsExtend
<1>6. Under(g, p) = Under(h, p)
  BY <1>2 DEF Under
<1>7. \A q, w \in DOMAIN h : IsKid(h, q, w) <=> IsKid(g, q, w)
  BY <1>3 DEF IsKid
<1>8. ASSUME NEW q \in Under(g, p) \ {p}
      PROVE  Extends(g, q) /\ HungIn(g, q, Under(g, p)) /\ ParentIn(g, q, Under(g, p), exact)
  <2>1. q \in DOMAIN h /\ Extends(h, q) /\ HungIn(h, q, Under(h, p)) /\ ParentIn(h, q, Under(h, p), exact)
    BY <1>1, <1>6, UnderFacts
  <2>2. Under(h, p) \subseteq DOMAIN h
    BY DEF Under
  <2>3. Extends(g, q)
    BY <2>1, <1>2, <1>3 DEF Extends, HasValue
  <2>4. HungIn(g, q, Under(g, p))
    BY <2>1, <2>2, <1>6, <1>7 DEF HungIn
  <2>5. ParentIn(g, q, Under(g, p), exact)
    BY <2>1, <2>2, <1>3, <1>6, <1>7 DEF ParentIn
  <2> QED
    BY <2>3, <2>4, <2>5
<1>9. ValuesLeft(h, g, p)
  <2>1. ASSUME NEW q \in DOMAIN h PROVE HasValue(g, q) <=> HasValue(h, q) /\ q # p
    BY <1>3 DEF HasValue
  <2>2. ValueNodes(g) = ValueNodes(h) \ {p}
    BY <2>1, <1>2 DEF ValueNodes
  <2> QED
    BY <2>2, <1>3 DEF ValuesLeft, ValueNodes
<1> QED
  BY <1>1, <1>2, <1>4, <1>5, <1>8, <1>9 DEF Loose, g

(* What holds no such entry is left alone.                                 *)
LEMMA UnchangedPruned ==
    ASSUME NEW t, Tree(t), NEW exact \in BOOLEAN, Parents(t, exact), NEW n \in DOMAIN t.node,
           NEW p, p \notin ValueNodes(t.node)
    PROVE  Pruned(t.node, n, p, t.node, n, exact)
<1>1. n \in Prefixes /\ n \in Under(t.node, n)
  BY ContainsReflexive DEF Tree, Under
<1>2. \A q \in Under(t.node, n) \ {n} :
          Extends(t.node, q) /\ HungIn(t.node, q, Under(t.node, n)) /\ ParentIn(t.node, q, Under(t.node, n), exact)
  BY UnderFacts
<1>3. Extends(t.node, n)
  BY DEF Extends, Tree, KidsExtend
<1>4. Outside(t.node, t.node, n) /\ ValuesLeft(t.node, t.node, p)
  BY DEF Outside, ValuesLeft, Tree
<1> QED
  BY <1>1, <1>2, <1>3, <1>4 DEF Pruned

(* What r.node replaces hangs on n.                                        *)
Linked(g, n, side, top) == SetParent([g EXCEPT ![n].kids[side] = top], top, n)

(* Linking sets one child pointer and one _parent.                         *)
LEMMA LinkedIs ==
    ASSUME NEW g, DOMAIN g \subseteq Prefixes, \A q \in DOMAIN g : g[q] \in Node,
           NEW n \in DOMAIN g, NEW side \in {0, 1}, NEW top, top = Nil \/ top \in DOMAIN g, top # n
    PROVE  LET g2 == Linked(g, n, side, top) IN
           /\ DOMAIN g2 = DOMAIN g
           /\ \A q \in DOMAIN g :
                 /\ g2[q] \in Node
                 /\ g2[q].value = g[q].value
                 /\ g2[q].parent = IF top # Nil /\ q = top THEN n ELSE g[q].parent
                 /\ q \notin {n, top} => g2[q] = g[q]
                 /\ \A b \in {0, 1} : g2[q].kids[b] = IF q = n /\ b = side THEN top ELSE g[q].kids[b]
<1> DEFINE g1 == [g EXCEPT ![n].kids[side] = top]
           g2 == SetParent(g1, top, n)
<1>0. top \in Pointer /\ n \in Pointer /\ n # Nil
  BY NilIsNoPrefix DEF Pointer
<1>1. DOMAIN g1 = DOMAIN g
  OBVIOUS
<1>2. ASSUME NEW q \in DOMAIN g
      PROVE  /\ g1[q] \in Node /\ g1[q].value = g[q].value /\ g1[q].parent = g[q].parent
             /\ q # n => g1[q] = g[q]
             /\ \A b \in {0, 1} : g1[q].kids[b] = IF q = n /\ b = side THEN top ELSE g[q].kids[b]
  <2>1. g[q] \in Node
    OBVIOUS
  <2>2. CASE q = n
    <3>1. g1[q] = [g[q] EXCEPT !.kids[side] = top]
      BY <2>2
    <3>2. g[q].kids \in [{0, 1} -> Pointer]
      BY <2>1 DEF Node
    <3>3. [g[q].kids EXCEPT ![side] = top] \in [{0, 1} -> Pointer]
      BY <3>2, <1>0
    <3>4. g1[q].kids = [g[q].kids EXCEPT ![side] = top] /\ g1[q].value = g[q].value /\ g1[q].parent = g[q].parent
      BY <2>1, <3>1 DEF Node
    <3>5. g1[q] \in Node
      BY <2>1, <3>1, <3>3 DEF Node
    <3> QED
      BY <2>2, <3>2, <3>4, <3>5
  <2>3. CASE q # n
    BY <2>1, <2>3
  <2> QED
    BY <2>2, <2>3
<1> HIDE DEF g1
<1>3. CASE top = Nil
  <2>1. Linked(g, n, side, top) = g1
    BY <1>3 DEF SetParent, Linked, g1
  <2> HIDE DEF g2
  <2> QED
    BY <1>1, <1>2, <1>3, <2>1
<1>4. CASE top # Nil
  <2>1. g2 = [g1 EXCEPT ![top].parent = n]
    BY <1>4 DEF SetParent
  <2>2. DOMAIN g2 = DOMAIN g1
    BY <2>1
  <2>3. ASSUME NEW q \in DOMAIN g
        PROVE  /\ g2[q] \in Node /\ g2[q].value = g1[q].value /\ g2[q].kids = g1[q].kids
               /\ g2[q].parent = IF q = top THEN n ELSE g1[q].parent
               /\ q # top => g2[q] = g1[q]
    <3>1. g1[q] \in Node /\ q \in DOMAIN g1
      BY <1>1, <1>2
    <3>2. CASE q = top
      <4>1. g2[q] = [g1[q] EXCEPT !.parent = n]
        BY <2>1, <3>1, <3>2
      <4> QED
        BY <1>0, <3>1, <3>2, <4>1 DEF Node
    <3>3. CASE q # top
      BY <2>1, <3>1, <3>3
    <3> QED
      BY <3>2, <3>3
  <2> HIDE DEF g2
  <2>4. Linked(g, n, side, top) = g2
    BY DEF Linked, g1, g2
  <2> QED
    BY <1>1, <1>2, <1>4, <2>2, <2>3, <2>4
<1> QED
  BY <1>3, <1>4

(* The child of n on a side.                                               *)
KidAt(h, n, side, kid) == h[n].kids[side] = kid /\ kid # Nil

(* A node that hangs on n but not below its child kid was not changed.     *)
LEMMA BesideKid ==
    ASSUME NEW t, Tree(t), NEW n \in DOMAIN t.node, NEW side \in {0, 1}, NEW kid,
           KidAt(t.node, n, side, kid),
           NEW q \in Under(t.node, n), q # n, ~Contains(kid, q)
    PROVE  /\ \A up \in DOMAIN t.node : IsKid(t.node, q, up) => ~Contains(kid, up)
           /\ \A b \in {0, 1} : t.node[q].kids[b] # Nil => ~Contains(kid, t.node[q].kids[b])
<1>1. /\ n \in Prefixes /\ kid \in DOMAIN t.node /\ kid \in Prefixes
      /\ Contains(n, kid) /\ n # kid /\ Len(n) < Len(kid) /\ Bit(kid, Len(n)) = side
  BY KidFacts DEF KidAt
<1>2. q \in DOMAIN t.node /\ q \in Prefixes /\ q # Nil /\ Contains(n, q)
  BY UnderFacts
<1>3. ASSUME NEW up \in DOMAIN t.node, IsKid(t.node, q, up), Contains(kid, up) PROVE FALSE
  <2>1. PICK b \in {0, 1} : t.node[up].kids[b] = q
    BY <1>3 DEF IsKid
  <2>2. up \in Prefixes /\ Contains(up, q)
    BY <1>2, <2>1, KidFacts
  <2> QED
    BY <1>1, <1>2, <1>3, <2>2, ContainsTransitive
<1>4. ASSUME NEW b \in {0, 1}, t.node[q].kids[b] # Nil, Contains(kid, t.node[q].kids[b]) PROVE FALSE
  <2> DEFINE k == t.node[q].kids[b]
  <2>1. k \in DOMAIN t.node /\ IsKid(t.node, k, q) /\ k \in Prefixes /\ Contains(q, k) /\ Len(q) < Len(k)
    BY <1>2, <1>4, KidFacts DEF IsKid
  <2>2. Contains(kid, k)
    BY <1>4
  <2> HIDE DEF k
  <2>3. k = kid
    BY <1>1, <1>2, <2>1, <2>2, UpInside
  <2>4. Contains(q, kid) /\ Len(q) \in Nat /\ Len(n) \in Nat /\ Len(n) < Len(q)
    BY <1>1, <1>2, <2>1, <2>3, ContainsLen, PrefixIsSeq
  <2>5. Bit(q, Len(n)) = side
    BY <1>1, <1>2, <2>4, SideBitBelow
  <2>6. Contains(kid, q)
    BY <1>1, <1>2, <2>5, Through DEF KidAt
  <2> QED
    BY <2>6
<1> QED
  BY <1>3, <1>4

KidReplaced(h, g, n, side, top) ==
    /\ g[n].kids[side] = top
    /\ g[n].kids[1 - side] = h[n].kids[1 - side]
    /\ HasValue(g, n) <=> HasValue(h, n)

(* Above a removed entry, the node may need compaction.                    *)
LEMMA LinkedLoose ==
    ASSUME NEW t, Tree(t), NEW exact \in BOOLEAN, Parents(t, exact), NEW n \in DOMAIN t.node,
           NEW side \in {0, 1}, NEW kid, KidAt(t.node, n, side, kid),
           NEW g, NEW top, NEW p, Pruned(t.node, kid, p, g, top, exact)
    PROVE  /\ Loose(t.node, Linked(g, n, side, top), n, p, exact)
           /\ KidReplaced(t.node, Linked(g, n, side, top), n, side, top)
<1> DEFINE h == t.node
           g2 == Linked(g, n, side, top)
<1>1. /\ n \in Prefixes /\ n # Nil /\ kid \in DOMAIN h /\ kid \in Prefixes
      /\ Contains(n, kid) /\ n # kid /\ Len(n) < Len(kid) /\ Bit(kid, Len(n)) = side
  BY KidFacts DEF KidAt
<1>2. DOMAIN g \subseteq DOMAIN h /\ DOMAIN h \subseteq Prefixes /\ \A q \in DOMAIN g : g[q] \in Node
  BY DEF Pruned, Outside, Tree
<1>3. \A q \in DOMAIN h : ~Contains(kid, q) => q \in DOMAIN g /\ g[q] = h[q]
  BY DEF Pruned, Outside
<1>4. ~Contains(kid, n)
  BY <1>1, ContainsLen, PrefixIsSeq
<1>5. n \in DOMAIN g /\ g[n] = h[n]
  BY <1>3, <1>4
<1>6. top = Nil \/ (top \in DOMAIN g /\ Contains(kid, top) /\ top \in Prefixes)
  BY <1>2 DEF Pruned, Under
<1>7. top # n
  BY <1>1, <1>4, <1>6
<1>8. /\ DOMAIN g2 = DOMAIN g
      /\ \A q \in DOMAIN g :
            /\ g2[q] \in Node
            /\ g2[q].value = g[q].value
            /\ g2[q].parent = IF top # Nil /\ q = top THEN n ELSE g[q].parent
            /\ q \notin {n, top} => g2[q] = g[q]
            /\ \A b \in {0, 1} : g2[q].kids[b] = IF q = n /\ b = side THEN top ELSE g[q].kids[b]
  <2>1. DOMAIN g \subseteq Prefixes
    BY <1>2
  <2> QED
    BY <1>2, <1>5, <1>6, <1>7, <2>1, LinkedIs
<1> HIDE DEF g2
<1>9. Outside(h, g2, n)
  <2>1. ASSUME NEW q \in DOMAIN h, ~Contains(n, q) PROVE q \in DOMAIN g2 /\ g2[q] = h[q]
    <3>1. q \in Prefixes /\ q # Nil /\ ~Contains(kid, q)
      BY <1>1, <1>2, <2>1, ContainsTransitive, NilIsNoPrefix
    <3>2. q # n /\ q # top
      BY <1>1, <1>6, <2>1, <3>1, ContainsReflexive
    <3> QED
      BY <1>3, <1>8, <3>1, <3>2
  <2> QED
    BY <1>2, <1>8, <2>1 DEF Outside
<1>10. ASSUME NEW q \in DOMAIN g PROVE HasValue(g2, q) <=> HasValue(g, q)
  BY <1>8 DEF HasValue
<1>11. ASSUME NEW b \in {0, 1}, g2[n].kids[b] # Nil
       PROVE  /\ g2[n].kids[b] \in DOMAIN g2
              /\ Ext!IsStrictPrefix(n, g2[n].kids[b]) /\ Bit(g2[n].kids[b], Len(n)) = b
  <2>1. CASE b = side
    <3>1. g2[n].kids[b] = top /\ top # Nil
      BY <1>5, <1>8, <1>11, <2>1
    <3>2. top \in DOMAIN g2 /\ Contains(n, top) /\ n # top
      BY <1>1, <1>6, <1>7, <1>8, <3>1, ContainsTransitive
    <3>3. Bit(top, Len(n)) = side
      BY <1>1, <1>6, <3>1, SideBitBelow
    <3> QED
      BY <2>1, <3>1, <3>2, <3>3, StrictIsContains
  <2>2. CASE b # side
    <3>1. g2[n].kids[b] = h[n].kids[b]
      BY <1>5, <1>8, <2>2
    <3> DEFINE k == h[n].kids[b]
    <3>2. k \in DOMAIN h /\ k \in Prefixes /\ Contains(n, k) /\ n # k /\ Bit(k, Len(n)) = b
      BY <1>11, <3>1, KidFacts
    <3> HIDE DEF k
    <3>3. ~Contains(kid, k)
      BY <1>1, <2>2, <3>2, SideBitBelow
    <3>4. k \in DOMAIN g2
      BY <1>3, <1>8, <3>2, <3>3
    <3> QED
      BY <3>1, <3>2, <3>4, StrictIsContains DEF k
  <2> QED
    BY <2>1, <2>2
<1>12. Under(g2, n) = Under(g, n) /\ Under(g, kid) \subseteq Under(g2, n)
  BY <1>1, <1>2, <1>8, ContainsTransitive DEF Under
<1>13. ASSUME NEW q \in DOMAIN g, q # n, Extends(g, q) PROVE Extends(g2, q)
  BY <1>8, <1>10, <1>13 DEF Extends
<1>14. ASSUME NEW q \in Under(g, kid)
       PROVE  Extends(g2, q) /\ HungIn(g2, q, Under(g2, n)) /\ ParentIn(g2, q, Under(g2, n), exact)
  <2>1. q \in DOMAIN g /\ q # n /\ q # Nil
    BY <1>2, <1>4, NilIsNoPrefix DEF Under
  <2>2. Extends(g2, q)
    BY <2>1, <1>13 DEF Pruned
  <2>3. ASSUME NEW up \in Under(g, kid), IsKid(g, q, up) PROVE up \in Under(g2, n) /\ IsKid(g2, q, up)
    <3>1. up \in DOMAIN g /\ up # n
      BY <1>4 DEF Under
    <3> QED
      BY <2>3, <3>1, <1>8, <1>12 DEF IsKid
  <2>4. CASE q = top
    <3>1. n \in Under(g2, n)
      BY <1>1, <1>5, <1>8, ContainsReflexive DEF Under
    <3>2. g2[n].kids[side] = q /\ g2[q].parent = n
      BY <1>5, <1>8, <2>1, <2>4
    <3>3. IsKid(g2, q, n)
      BY <3>2 DEF IsKid
    <3> QED
      BY <1>1, <2>2, <3>1, <3>2, <3>3 DEF HungIn, ParentIn
  <2>5. CASE q # top
    <3>1. HungIn(g, q, Under(g, kid)) /\ ParentIn(g, q, Under(g, kid), exact)
      BY <2>5 DEF Pruned
    <3>2. HungIn(g2, q, Under(g2, n))
      BY <2>3, <3>1 DEF HungIn
    <3>3. g2[q].parent = g[q].parent
      BY <1>8, <2>1, <2>5
    <3>4. ParentIn(g2, q, Under(g2, n), exact)
      BY <2>3, <3>1, <3>3 DEF ParentIn
    <3> QED
      BY <2>2, <3>2, <3>4
  <2> QED
    BY <2>4, <2>5
<1>15. ASSUME NEW q \in Under(g, n), q # n, ~Contains(kid, q)
       PROVE  Extends(g2, q) /\ HungIn(g2, q, Under(g2, n)) /\ ParentIn(g2, q, Under(g2, n), exact)
  <2>1. q \in Under(h, n) /\ q \in DOMAIN h /\ q \in DOMAIN g /\ q # Nil /\ q # top
    BY <1>2, <1>6, <1>15, NilIsNoPrefix DEF Under
  <2>2. g2[q] = h[q] /\ g[q] = h[q]
    BY <1>3, <1>8, <1>15, <2>1
  <2>3. /\ Extends(h, q) /\ HungIn(h, q, Under(h, n)) /\ ParentIn(h, q, Under(h, n), exact)
    BY <1>15, <2>1, UnderFacts
  <2>4. /\ \A up \in DOMAIN h : IsKid(h, q, up) => ~Contains(kid, up)
        /\ \A b \in {0, 1} : h[q].kids[b] # Nil => ~Contains(kid, h[q].kids[b])
    BY <1>15, <2>1, BesideKid
  <2>5. Extends(g, q)
    <3> SUFFICES ASSUME NEW b \in {0, 1}
                 PROVE  IF g[q].kids[b] = Nil THEN HasValue(g, q)
                        ELSE /\ g[q].kids[b] \in DOMAIN g
                             /\ Ext!IsStrictPrefix(q, g[q].kids[b]) /\ Bit(g[q].kids[b], Len(q)) = b
      BY DEF Extends
    <3>1. IF h[q].kids[b] = Nil THEN HasValue(h, q)
          ELSE /\ h[q].kids[b] \in DOMAIN h
               /\ Ext!IsStrictPrefix(q, h[q].kids[b]) /\ Bit(h[q].kids[b], Len(q)) = b
      BY <2>3 DEF Extends
    <3>2. HasValue(g, q) <=> HasValue(h, q)
      BY <2>2 DEF HasValue
    <3>3. h[q].kids[b] # Nil => h[q].kids[b] \in DOMAIN g
      BY <3>1, <2>4, <1>3
    <3> QED
      BY <3>1, <3>2, <3>3, <2>2
  <2>6. ASSUME NEW up \in Under(h, n), IsKid(h, q, up) PROVE up \in Under(g2, n) /\ IsKid(g2, q, up)
    <3>1. up \in DOMAIN h /\ ~Contains(kid, up) /\ Contains(n, up)
      BY <2>4, <2>6 DEF Under
    <3>2. up \in DOMAIN g /\ g[up] = h[up]
      BY <3>1, <1>3
    <3>3. up \in Under(g2, n)
      BY <3>1, <3>2, <1>8 DEF Under
    <3>4. PICK b \in {0, 1} : h[up].kids[b] = q
      BY <2>6 DEF IsKid
    <3>5. ~(up = n /\ b = side)
      BY <1>1, <1>15, <3>4, ContainsReflexive DEF KidAt
    <3>6. g2[up].kids[b] = q
      BY <1>8, <3>2, <3>4, <3>5
    <3> QED
      BY <3>3, <3>6 DEF IsKid
  <2>7. HungIn(g2, q, Under(g2, n))
    BY <2>3, <2>6 DEF HungIn
  <2>8. ParentIn(g2, q, Under(g2, n), exact)
    BY <2>2, <2>3, <2>6 DEF ParentIn
  <2> QED
    BY <1>13, <1>15, <2>1, <2>5, <2>7, <2>8
<1>16. \A q \in Under(g2, n) \ {n} : /\ Extends(g2, q)
                                     /\ HungIn(g2, q, Under(g2, n))
                                     /\ ParentIn(g2, q, Under(g2, n), exact)
  <2>1. \A q \in Under(g2, n) \ {n} : q \in Under(g, n) /\ q # n /\ (Contains(kid, q) => q \in Under(g, kid))
    BY <1>8, <1>12 DEF Under
  <2> QED
    BY <1>14, <1>15, <2>1
<1>17. ValuesLeft(h, g2, p)
  <2>1. ValueNodes(g2) = ValueNodes(g)
    BY <1>8, <1>10 DEF ValueNodes
  <2>2. ValuesLeft(h, g, p) /\ ValueNodes(g) \subseteq DOMAIN g
    BY DEF Pruned, ValueNodes
  <2> QED
    BY <1>8, <2>1, <2>2 DEF ValuesLeft
<1>18. Loose(h, g2, n, p, exact)
  BY <1>5, <1>8, <1>9, <1>11, <1>16, <1>17 DEF Loose
<1>19. g2[n].kids[side] = top /\ g2[n].kids[1 - side] = h[n].kids[1 - side]
  <2>1. 1 - side \in {0, 1} /\ 1 - side # side
    OBVIOUS
  <2> QED
    BY <2>1, <1>5, <1>8
<1>20. HasValue(g2, n) <=> HasValue(h, n)
  BY <1>5, <1>10 DEF HasValue
<1> QED
  BY <1>18, <1>19, <1>20 DEF g2, KidReplaced

(* One level of removeNode, from what it returns one level down.           *)
LEMMA LinkRemovedIs ==
    ASSUME NEW t, Tree(t), NEW exact \in BOOLEAN, Parents(t, exact), NEW n \in DOMAIN t.node,
           NEW p, NEW side \in {0, 1}, side = Bit(p, Len(n)), NEW kid, KidAt(t.node, n, side, kid),
           NEW r, Pruned(t.node, kid, p, r.heap, r.node, exact)
    PROVE  Pruned(t.node, n, p, LinkRemoved(t.node, n, p, r).heap, LinkRemoved(t.node, n, p, r).node, exact)
<1> DEFINE h == t.node
           rest == r.heap
           top == r.node
           g == Linked(rest, n, side, top)
<1>0. Pruned(h, kid, p, rest, top, exact)
  OBVIOUS
<1> HIDE DEF rest, top
<1>1. Loose(h, g, n, p, exact) /\ KidReplaced(h, g, n, side, top)
  BY <1>0, LinkedLoose
<1>2. ValueNodes(rest) = ValueNodes(h) \ {p}
  BY <1>0 DEF Pruned, ValuesLeft
<1>3. n \in Prefixes /\ DOMAIN h \subseteq Prefixes
  BY DEF Tree
<1>4. LinkRemoved(h, n, p, r) = IF p \in ValueNodes(h) THEN Compact(g, n) ELSE [heap |-> g, node |-> n]
  BY <1>2 DEF LinkRemoved, Linked, rest, top
<1> HIDE DEF g
<1>5. CASE p \in ValueNodes(h)
  <2>1. Pruned(h, n, p, Compact(g, n).heap, Compact(g, n).node, exact)
    BY <1>1, <1>3, <1>5, CompactIs
  <2> QED
    BY <1>4, <1>5, <2>1
<1>6. CASE p \notin ValueNodes(h)
  <2>1. top # Nil
    BY <1>0, <1>6 DEF Pruned, KidAt
  <2>2. 1 - side \in {0, 1} /\ \A b \in {0, 1} : b = side \/ b = 1 - side
    OBVIOUS
  <2>3. h[n].kids[1 - side] = Nil => HasValue(h, n)
    BY <2>2, KidFacts
  <2>4. HasValue(g, n) \/ \A b \in {0, 1} : g[n].kids[b] # Nil
    BY <1>1, <2>1, <2>2, <2>3 DEF KidReplaced
  <2>5. Pruned(h, n, p, g, n, exact)
    BY <1>1, <1>3, <2>4, CompactKeeps
  <2> QED
    BY <1>4, <1>6, <2>5
<1> QED
  BY <1>5, <1>6

-----------------------------------------------------------------------------
(* The definitions of PrefixTrie that call themselves: what each computes  *)
(* at x when f is what it computes elsewhere.                              *)
KidTowards(h, p, n) == IF Len(p) <= Len(n) THEN Nil ELSE h[n].kids[Bit(p, Len(n))]

RemoveStep(h, p, f, n) ==
    IF HasValue(h, n) /\ n = p
    THEN Compact(Emptied(h, n), n)
    ELSE IF KidTowards(h, p, n) = Nil \/ ~Contains(KidTowards(h, p, n), p)
    THEN [heap |-> h, node |-> n]
    ELSE LinkRemoved(h, n, p, f[KidTowards(h, p, n)])

FirstStep(h, f, n) ==
    IF n = Nil \/ HasValue(h, n) THEN n
    ELSE IF f[h[n].kids[0]] # Nil THEN f[h[n].kids[0]] ELSE f[h[n].kids[1]]

ClimbStep(h, f, n) ==
    LET up    == h[n].parent
        right == IF h[up].kids[0] = n THEN FirstValueNode(h, h[up].kids[1]) ELSE Nil
    IN  IF up = Nil THEN Nil ELSE IF right # Nil THEN right ELSE f[up]

LastStep(h, f, n) ==
    IF n = Nil THEN Nil
    ELSE IF f[h[n].kids[1]] # Nil THEN f[h[n].kids[1]]
    ELSE IF f[h[n].kids[0]] # Nil THEN f[h[n].kids[0]]
    ELSE IF HasValue(h, n) THEN n ELSE Nil

BeforeStep(h, f, n) ==
    LET up == h[n].parent
    IN  IF up = Nil THEN Nil
        ELSE IF h[up].kids[1] = n /\ h[up].kids[0] # Nil THEN LastValueNode(h, h[up].kids[0])
        ELSE IF HasValue(h, up) THEN up ELSE f[up]

BackStep(h, f, n) == IF n = Nil THEN <<>> ELSE <<n>> \o f[Predecessor(h, n)]

FromStep(h, f, n) == IF n = Nil THEN <<>> ELSE <<n>> \o f[Successor(h, n)]

SeekStep(h, other, v, f, it) ==
    IF it = Nil \/ (it # other /\ Precedes(other, it)) THEN Nil
    ELSE IF it = other /\ h[it].value = v THEN it
    ELSE f[Successor(h, it)]

DropStep(first, f, k) == IF k = 0 THEN first ELSE DropCoveredRound(f[k - 1])

CombineStep(first, f, k) == IF k = 0 THEN first ELSE CombineRound(f[k - 1])

PassStep(first, f, k) == IF k = 0 THEN first ELSE CombinePassAgain(f[k - 1])

ReadStep(t, file, f, k) ==
    IF k <= 1 THEN Cleared(t) ELSE AddNode(f[k - 1], file[k].prefix, file[k].value)

Step(name, a, b, c, f, x) ==
    IF name = "remove" THEN RemoveStep(a, b, f, x)
    ELSE IF name = "first" THEN FirstStep(a, f, x)
    ELSE IF name = "climb" THEN ClimbStep(a, f, x)
    ELSE IF name = "last" THEN LastStep(a, f, x)
    ELSE IF name = "before" THEN BeforeStep(a, f, x)
    ELSE IF name = "back" THEN BackStep(a, f, x)
    ELSE IF name = "from" THEN FromStep(a, f, x)
    ELSE IF name = "seek" THEN SeekStep(a, b, c, f, x)
    ELSE IF name = "drop" THEN DropStep(a, f, x)
    ELSE IF name = "combine" THEN CombineStep(a, f, x)
    ELSE IF name = "pass" THEN PassStep(a, f, x)
    ELSE ReadStep(a, b, f, x)

(* f is the recursive function.                                            *)
Follows(name, a, b, c, S, f) == f = [x \in S |-> Step(name, a, b, c, f, x)]

(* What is computed at x depends only on what is computed at smaller ones. *)
Local(name, a, b, c, S, m) ==
    \A f, g : \A x \in S :
        (\A y \in S : m[y] < m[x] => f[y] = g[y]) => Step(name, a, b, c, f, x) = Step(name, a, b, c, g, x)

(* Such a definition has a value on a finite measure.                      *)
LEMMA Recursion ==
    ASSUME NEW name, NEW a, NEW b, NEW c, NEW S, NEW m \in [S -> Nat], NEW N \in Nat,
           \A x \in S : m[x] < N, Local(name, a, b, c, S, m)
    PROVE  \E f : Follows(name, a, b, c, S, f)
<1> DEFINE Holds(f, k) == \A n \in S : m[n] < k => f[n] = Step(name, a, b, c, f, n)
           T == {k \in Nat : \E f : DOMAIN f = S /\ Holds(f, k)}
<1>1. 0 \in T
  <2> DEFINE f == [n \in S |-> n]
  <2>1. DOMAIN f = S /\ Holds(f, 0)
    OBVIOUS
  <2> HIDE DEF f, Holds
  <2> QED
    BY <2>1
<1>2. ASSUME NEW k \in Nat, k \in T PROVE k + 1 \in T
  <2>1. PICK f : DOMAIN f = S /\ Holds(f, k)
    BY <1>2
  <2> DEFINE g == [n \in S |-> Step(name, a, b, c, f, n)]
  <2>2. \A n \in S : m[n] < k => f[n] = g[n]
    BY <2>1
  <2>3. ASSUME NEW n \in S, m[n] < k + 1 PROVE g[n] = Step(name, a, b, c, g, n)
    <3>1. g[n] = Step(name, a, b, c, f, n)
      OBVIOUS
    <3> HIDE DEF g
    <3>2. \A y \in S : m[y] < m[n] => f[y] = g[y]
      BY <2>2, <2>3
    <3> QED
      BY <3>1, <3>2 DEF Local
  <2>4. DOMAIN g = S
    OBVIOUS
  <2> HIDE DEF g
  <2>5. Holds(g, k + 1)
    BY <2>3
  <2> HIDE DEF Holds
  <2> QED
    BY <2>4, <2>5
<1> HIDE DEF T
<1>3. N \in T
  BY <1>1, <1>2, SetInduction
<1>4. PICK f : DOMAIN f = S /\ Holds(f, N)
  BY <1>3 DEF T
<1> DEFINE g == [x \in S |-> Step(name, a, b, c, f, x)]
<1>5. \A x \in S : f[x] = g[x]
  BY <1>4
<1>6. \A x \in S : Step(name, a, b, c, f, x) = Step(name, a, b, c, g, x)
  <2> HIDE DEF g
  <2> QED
    BY <1>5 DEF Local
<1>7. Follows(name, a, b, c, S, g)
  BY <1>6 DEF Follows
<1> HIDE DEF g
<1> QED
  BY <1>7

(* The child removeNode goes on to.                                        *)
LEMMA KidTowardsFacts ==
    ASSUME NEW t, Tree(t), NEW p \in Prefixes, NEW n \in DOMAIN t.node, KidTowards(t.node, p, n) # Nil
    PROVE  /\ KidTowards(t.node, p, n) \in DOMAIN t.node
           /\ Below(t.node)[KidTowards(t.node, p, n)] < Below(t.node)[n]
           /\ Bit(p, Len(n)) \in {0, 1}
           /\ KidAt(t.node, n, Bit(p, Len(n)), KidTowards(t.node, p, n))
<1>1. n \in Prefixes /\ Len(n) \in Nat /\ Len(p) \in Nat /\ Len(n) < Len(p)
  BY PrefixIsSeq DEF KidTowards, Tree
<1>2. Bit(p, Len(n)) \in {0, 1}
  BY <1>1, SideBit
<1>3. KidTowards(t.node, p, n) = t.node[n].kids[Bit(p, Len(n))]
  BY DEF KidTowards
<1>4. KidTowards(t.node, p, n) \in DOMAIN t.node
  BY <1>2, <1>3, KidFacts
<1>5. Below(t.node)[KidTowards(t.node, p, n)] < Below(t.node)[n]
  BY <1>2, <1>3, BelowIsMeasure
<1> QED
  BY <1>2, <1>3, <1>4, <1>5 DEF KidAt

(* removeNode goes on as it does one level down.                           *)
LEMMA RemoveNodeUnfolds ==
    ASSUME NEW t, Tree(t), NEW p \in Prefixes
    PROVE  \E f : /\ \A n \in DOMAIN t.node : f[n] = RemoveStep(t.node, p, f, n)
                  /\ RemoveNode(t.node, t.root, p) = f[t.root]
<1> DEFINE h == t.node
           S == DOMAIN h
           m == [n \in S |-> Below(h)[n]]
           N == Width + 2
           E(f) == [n \in S |-> RemoveStep(h, p, f, n)]
           d == CHOOSE f : f = E(f)
<1>1. m \in [S -> Nat] /\ \A n \in S : m[n] < N
  BY BelowIsMeasure DEF Pointers
<1>2. N \in Nat
  BY TrieAssumption
<1>3. \A n \in S : KidTowards(h, p, n) # Nil => /\ KidTowards(h, p, n) \in S
                                                /\ m[KidTowards(h, p, n)] < m[n]
  BY KidTowardsFacts
<1> HIDE DEF m, N, h
<1>4. \A f, x : Step("remove", h, p, p, f, x) = RemoveStep(h, p, f, x)
  BY DEF Step
<1>5. Local("remove", h, p, p, S, m)
  BY <1>3, <1>4 DEF Local, RemoveStep
<1>6. \E f : Follows("remove", h, p, p, S, f)
  BY <1>1, <1>2, <1>5, Recursion
<1>7. \E f : f = E(f)
  BY <1>4, <1>6 DEF Follows
<1>8. d = E(d)
  BY <1>7
<1>9. RemoveNode(h, t.root, p) = d[t.root]
  BY DEF RemoveNode, RemoveStep, KidTowards, Emptied
<1>10. \A n \in S : d[n] = RemoveStep(h, p, d, n)
  BY <1>8
<1> QED
  BY <1>9, <1>10 DEF h

(* removeNode, called on the root.                                         *)
LEMMA RemoveNodeIs ==
    ASSUME NEW t, Tree(t), NEW exact \in BOOLEAN, Parents(t, exact), NEW p \in Prefixes, t.root # Nil
    PROVE  Pruned(t.node, t.root, p, RemoveNode(t.node, t.root, p).heap, RemoveNode(t.node, t.root, p).node, exact)
<1> DEFINE h == t.node
           S == DOMAIN h
           Good(n, r) == Pruned(h, n, p, r.heap, r.node, exact)
<1>1. PICK f : /\ \A n \in S : f[n] = RemoveStep(h, p, f, n)
               /\ RemoveNode(h, t.root, p) = f[t.root]
  BY RemoveNodeUnfolds
<1> DEFINE T == {n \in S : (p \in ValueNodes(h) => Contains(n, p)) => Good(n, f[n])}
           m == [n \in S |-> Below(h)[n]]
<1>2. m \in [S -> Nat]
  BY BelowIsMeasure DEF Pointers
<1>3. S \subseteq Prefixes
  BY DEF Tree
<1>4. ASSUME NEW n \in S, \A y \in S : m[y] < m[n] => y \in T PROVE n \in T
  <2> SUFFICES ASSUME p \in ValueNodes(h) => Contains(n, p) PROVE Good(n, f[n])
    OBVIOUS
  <2> DEFINE kid == KidTowards(h, p, n)
  <2>1. CASE HasValue(h, n) /\ n = p
    <3>1. f[n] = Compact(Emptied(h, n), n) /\ p \in ValueNodes(h)
      BY <1>1, <2>1 DEF RemoveStep, ValueNodes
    <3>2. Loose(h, Emptied(h, p), p, p, exact)
      BY <3>1, EmptiedLoose
    <3>3. Pruned(h, n, p, Compact(Emptied(h, n), n).heap, Compact(Emptied(h, n), n).node, exact)
      BY <1>3, <2>1, <3>1, <3>2, CompactIs
    <3> QED
      BY <3>1, <3>3
  <2>2. CASE ~(HasValue(h, n) /\ n = p) /\ (kid = Nil \/ ~Contains(kid, p))
    <3>1. f[n] = [heap |-> h, node |-> n]
      BY <1>1, <2>2 DEF RemoveStep
    <3>2. ASSUME p \in ValueNodes(h) PROVE FALSE
      <4>1. p \in S /\ Contains(n, p) /\ n # p /\ n \in Prefixes
        BY <1>3, <2>2, <3>2 DEF ValueNodes
      <4>2. Len(n) < Len(p) /\ Len(n) \in Nat /\ Len(p) \in Nat
        BY <4>1, ContainsLen, PrefixIsSeq
      <4>3. kid = h[n].kids[Bit(p, Len(n))]
        BY <4>2 DEF KidTowards
      <4> QED
        BY <2>2, <4>1, <4>3, Through
    <3>3. Pruned(h, n, p, h, n, exact)
      BY <3>2, UnchangedPruned
    <3> QED
      BY <3>1, <3>3
  <2>3. CASE ~(HasValue(h, n) /\ n = p) /\ kid # Nil /\ Contains(kid, p)
    <3>1. f[n] = LinkRemoved(h, n, p, f[kid])
      BY <1>1, <2>3 DEF RemoveStep
    <3>2. kid \in S /\ Below(h)[kid] < Below(h)[n]
      BY <2>3, KidTowardsFacts
    <3>3. Bit(p, Len(n)) \in {0, 1} /\ KidAt(h, n, Bit(p, Len(n)), kid)
      BY <2>3, KidTowardsFacts
    <3> HIDE DEF kid
    <3>4. Good(kid, f[kid])
      BY <1>4, <2>3, <3>2
    <3> DEFINE r == f[kid]
    <3>5. Pruned(h, kid, p, r.heap, r.node, exact)
      BY <3>4
    <3> HIDE DEF r
    <3>6. Pruned(h, n, p, LinkRemoved(h, n, p, r).heap, LinkRemoved(h, n, p, r).node, exact)
      BY <3>3, <3>5, LinkRemovedIs
    <3> QED
      BY <3>1, <3>6 DEF r
  <2> QED
    BY <2>1, <2>2, <2>3
<1> HIDE DEF T, m
<1>5. S \subseteq T
  BY <1>2, <1>4, MeasureInduction
<1>6. t.root \in S
  BY DEF Tree, Pointers
<1>7. p \in ValueNodes(h) => Contains(t.root, p)
  BY RootAbove DEF ValueNodes
<1> QED
  BY <1>1, <1>5, <1>6, <1>7 DEF T

(* u is t without the entry p. *)
Removed(t, u, p) ==
    /\ Tree(u)
    /\ \A exact \in BOOLEAN : Parents(t, exact) => Parents(u, exact)
    /\ ValuesLeft(t.node, u.node, p)
    /\ u.size = IF p \in ValueNodes(t.node) THEN t.size - 1 ELSE t.size
    /\ DOMAIN u.node \subseteq DOMAIN t.node

(* The heap of a node that is the root now.                                *)
LEMMA SetParentIs ==
    ASSUME NEW g, \A q \in DOMAIN g : g[q] \in Node, NEW top, top = Nil \/ top \in DOMAIN g
    PROVE  LET g2 == SetParent(g, top, Nil) IN
           /\ DOMAIN g2 = DOMAIN g
           /\ \A q \in DOMAIN g :
                 /\ g2[q] \in Node
                 /\ g2[q].value = g[q].value /\ g2[q].kids = g[q].kids
                 /\ g2[q].parent = IF top # Nil /\ q = top THEN Nil ELSE g[q].parent
<1> DEFINE g2 == SetParent(g, top, Nil)
<1>1. CASE top = Nil
  <2>1. g2 = g
    BY <1>1 DEF SetParent
  <2> HIDE DEF g2
  <2> QED
    BY <1>1, <2>1 DEF g2
<1>2. CASE top # Nil
  <2>1. g2 = [g EXCEPT ![top].parent = Nil]
    BY <1>2 DEF SetParent
  <2>2. ASSUME NEW q \in DOMAIN g
        PROVE  /\ g2[q] \in Node /\ g2[q].value = g[q].value /\ g2[q].kids = g[q].kids
               /\ g2[q].parent = IF q = top THEN Nil ELSE g[q].parent
    <3>1. g[q] \in Node
      OBVIOUS
    <3>2. CASE q = top
      <4>1. g2[q] = [g[q] EXCEPT !.parent = Nil]
        BY <2>1, <3>2
      <4>2. Nil \in Pointer
        BY DEF Pointer
      <4> QED
        BY <3>1, <3>2, <4>1, <4>2 DEF Node
    <3>3. CASE q # top
      <4>1. g2[q] = g[q]
        BY <2>1, <3>3
      <4> QED
        BY <3>1, <3>3, <4>1
    <3> QED
      BY <3>2, <3>3
  <2>3. DOMAIN g2 = DOMAIN g
    BY <2>1
  <2> HIDE DEF g2
  <2> QED
    BY <1>2, <2>2, <2>3 DEF g2
<1> QED
  BY <1>1, <1>2

(* Nodes that all hang on each other: there are none.                      *)
LEMMA HighestNode ==
    ASSUME NEW g, DOMAIN g \subseteq Prefixes, \A q \in DOMAIN g : Extends(g, q) /\ HungIn(g, q, DOMAIN g)
    PROVE  DOMAIN g = {}
<1> DEFINE S == DOMAIN g
           T == {q \in S : FALSE}
           m == [q \in S |-> Len(q)]
<1>1. m \in [S -> Nat]
  BY PrefixIsSeq
<1>2. ASSUME NEW x \in S, \A y \in S : m[y] < m[x] => y \in T PROVE x \in T
  <2>1. PICK up \in S : IsKid(g, x, up)
    BY DEF HungIn
  <2>2. PICK b \in {0, 1} : g[up].kids[b] = x
    BY <2>1 DEF IsKid
  <2>3. x \in Prefixes /\ up \in Prefixes /\ x # Nil
    BY NilIsNoPrefix
  <2>4. Contains(up, x) /\ up # x
    BY <2>2, <2>3, StrictIsContains DEF Extends
  <2>5. m[up] < m[x]
    BY <2>3, <2>4, ContainsLen
  <2> QED
    BY <1>2, <2>5
<1> HIDE DEF T, m
<1>3. S \subseteq T
  BY <1>1, <1>2, MeasureInduction
<1> QED
  BY <1>3 DEF T

(* Remove removes the entry and keeps the trie.                            *)
LEMMA RemoveIs ==
    ASSUME NEW t, Tree(t), Parents(t, FALSE), NEW p \in Prefixes
    PROVE  Removed(t, Remove(t, p), p)
<1> DEFINE h == t.node
           u == Remove(t, p)
<1>0. DOMAIN h \subseteq Prefixes
  BY DEF Tree
<1>1. CASE t.root = Nil
  <2>1. u = t /\ ValueNodes(h) = {}
    BY <1>1 DEF Remove, Tree, AllHang, ValueNodes
  <2> QED
    BY <2>1 DEF Removed, ValuesLeft
<1>2. CASE t.root # Nil
  <2> DEFINE g == RemoveNode(h, t.root, p).heap
             top == RemoveNode(h, t.root, p).node
             g2 == SetParent(g, top, Nil)
             size == IF ValueNodes(g) = ValueNodes(h) THEN t.size ELSE t.size - 1
  <2>1. \A exact \in BOOLEAN : Parents(t, exact) => Pruned(h, t.root, p, g, top, exact)
    BY <1>2, RemoveNodeIs
  <2>2. u = [root |-> top, node |-> g2, size |-> size]
    BY <1>2 DEF Remove
  <2> HIDE DEF g, top, u, size
  <2>3. Pruned(h, t.root, p, g, top, FALSE)
    BY <2>1
  <2>4. DOMAIN g \subseteq DOMAIN h /\ \A q \in DOMAIN g : g[q] \in Node
    BY <2>3 DEF Pruned, Outside
  <2>5. Under(g, t.root) = DOMAIN g
    BY <2>4, RootAbove DEF Under
  <2>6. /\ top = Nil \/ top \in DOMAIN g
        /\ \A q \in DOMAIN g : Extends(g, q)
        /\ \A q \in DOMAIN g \ {top} : HungIn(g, q, DOMAIN g)
        /\ ValuesLeft(h, g, p)
    BY <2>3, <2>5 DEF Pruned
  <2>7. /\ DOMAIN g2 = DOMAIN g
        /\ \A q \in DOMAIN g :
              /\ g2[q] \in Node
              /\ g2[q].value = g[q].value /\ g2[q].kids = g[q].kids
              /\ g2[q].parent = IF top # Nil /\ q = top THEN Nil ELSE g[q].parent
    BY <2>4, <2>6, SetParentIs
  <2> HIDE DEF g2
  <2>8. u.root = top /\ u.node = g2 /\ u.size = size /\ u = [root |-> u.root, node |-> u.node, size |-> u.size]
    BY <2>2
  <2>9. \A q \in DOMAIN g : q \in Prefixes /\ q # Nil
    BY <1>0, <2>4, NilIsNoPrefix
  <2>10. ASSUME top = Nil PROVE DOMAIN g = {}
    <3>1. \A q \in DOMAIN g : Extends(g, q) /\ HungIn(g, q, DOMAIN g)
      BY <2>6, <2>9, <2>10
    <3>2. DOMAIN g \subseteq Prefixes
      BY <2>9
    <3> QED
      BY <3>1, <3>2, HighestNode
  <2>11. \A q, w \in DOMAIN g : IsKid(g2, q, w) <=> IsKid(g, q, w)
    BY <2>7 DEF IsKid
  <2>12. \A q \in DOMAIN g : HasValue(g2, q) <=> HasValue(g, q)
    BY <2>7 DEF HasValue
  <2>13. KidsExtend(u)
    <3> SUFFICES ASSUME NEW q \in DOMAIN g, NEW b \in {0, 1}
                 PROVE  IF g2[q].kids[b] = Nil THEN HasValue(g2, q)
                        ELSE /\ g2[q].kids[b] \in DOMAIN g2
                             /\ Ext!IsStrictPrefix(q, g2[q].kids[b]) /\ Bit(g2[q].kids[b], Len(q)) = b
      BY <2>7, <2>8 DEF KidsExtend
    <3>1. IF g[q].kids[b] = Nil THEN HasValue(g, q)
          ELSE /\ g[q].kids[b] \in DOMAIN g
               /\ Ext!IsStrictPrefix(q, g[q].kids[b]) /\ Bit(g[q].kids[b], Len(q)) = b
      BY <2>6 DEF Extends
    <3> QED
      BY <3>1, <2>7, <2>12
  <2>14. AllHang(u)
    <3>1. \A q \in DOMAIN g \ {top} : \E w \in DOMAIN g : IsKid(g2, q, w)
      BY <2>6, <2>11 DEF HungIn
    <3> QED
      BY <2>7, <2>8, <2>10, <3>1 DEF AllHang
  <2>15. Tree(u)
    BY <2>6, <2>7, <2>8, <2>9, <2>13, <2>14 DEF Tree, Pointers
  <2>16. ASSUME NEW exact \in BOOLEAN, Parents(t, exact) PROVE Parents(u, exact)
    <3>1. \A q \in DOMAIN g \ {top} : ParentIn(g, q, DOMAIN g, exact)
      BY <2>1, <2>5, <2>16 DEF Pruned
    <3> SUFFICES ASSUME NEW q \in DOMAIN g
                 PROVE  /\ g2[q].parent # Nil => g2[q].parent \in DOMAIN g /\ IsKid(g2, q, g2[q].parent)
                        /\ exact /\ q # top => g2[q].parent # Nil
      BY <2>7, <2>8 DEF Parents
    <3>2. CASE q = top
      BY <3>2, <2>7, <2>9
    <3>3. CASE q # top
      <4>1. ParentIn(g, q, DOMAIN g, exact) /\ g2[q].parent = g[q].parent
        BY <3>1, <3>3, <2>7
      <4> QED
        BY <4>1, <2>11 DEF ParentIn
    <3> QED
      BY <3>2, <3>3
  <2>17. ValueNodes(g2) = ValueNodes(g) /\ ValueNodes(g) \subseteq DOMAIN g
    BY <2>7, <2>12 DEF ValueNodes
  <2>18. ValuesLeft(h, g2, p)
    BY <2>6, <2>7, <2>17 DEF ValuesLeft
  <2>19. size = IF p \in ValueNodes(h) THEN t.size - 1 ELSE t.size
    <3>1. ValueNodes(g) = ValueNodes(h) <=> p \notin ValueNodes(h)
      BY <2>6 DEF ValuesLeft
    <3> QED
      BY <3>1 DEF size
  <2> QED
    BY <2>4, <2>7, <2>8, <2>15, <2>16, <2>18, <2>19 DEF Removed, u
<1> QED
  BY <1>1, <1>2

-----------------------------------------------------------------------------
(* The iterators.                                                          *)

(* An entry is a node.                                                     *)
LEMMA ValueNodeFacts ==
    ASSUME NEW t, Tree(t), NEW q \in ValueNodes(t.node)
    PROVE  q \in DOMAIN t.node /\ q \in Prefixes /\ q # Nil
BY NilIsNoPrefix DEF Tree, ValueNodes

(* firstValueNode goes on as it does one level down.                       *)
LEMMA FirstUnfolds ==
    ASSUME NEW t, Tree(t)
    PROVE  \A n \in Pointers(t.node) :
              FirstValueNode(t.node, n) =
                  IF n = Nil \/ HasValue(t.node, n) THEN n
                  ELSE IF FirstValueNode(t.node, t.node[n].kids[0]) # Nil
                  THEN FirstValueNode(t.node, t.node[n].kids[0])
                  ELSE FirstValueNode(t.node, t.node[n].kids[1])
<1> DEFINE h == t.node
           S == Pointers(h)
           m == Below(h)
           N == Width + 2
           E(f) == [n \in S |-> FirstStep(h, f, n)]
           d == CHOOSE f : f = E(f)
<1>1. m \in [S -> Nat] /\ \A n \in S : m[n] < N
  BY BelowIsMeasure
<1>2. N \in Nat
  BY TrieAssumption
<1>3. ASSUME NEW n \in S, n # Nil, NEW b \in {0, 1}
      PROVE  h[n].kids[b] \in S /\ m[h[n].kids[b]] < m[n]
  <2>1. n \in DOMAIN h
    BY <1>3 DEF Pointers
  <2> QED
    BY <2>1, KidFacts, BelowIsMeasure
<1> HIDE DEF m, N, h
<1>4. \A f, x : Step("first", h, h, h, f, x) = FirstStep(h, f, x)
  BY DEF Step
<1>5. Local("first", h, h, h, S, m)
  BY <1>3, <1>4 DEF Local, FirstStep
<1>6. \E f : Follows("first", h, h, h, S, f)
  BY <1>1, <1>2, <1>5, Recursion
<1>7. \E f : f = E(f)
  BY <1>4, <1>6 DEF Follows
<1>8. d = E(d)
  BY <1>7
<1>9. \A n : FirstValueNode(h, n) = d[n]
  BY DEF FirstValueNode, FirstStep
<1>10. \A n \in S : d[n] = FirstStep(h, d, n)
  BY <1>8
<1> HIDE DEF d
<1> QED
  BY <1>9, <1>10 DEF h, FirstStep

(* The first of the entries at n or below.                                 *)
IsFirstBelow(h, n, s) ==
    /\ s \in ValueNodes(h) /\ Contains(n, s)
    /\ \A q \in ValueNodes(h) : Contains(n, q) => q = s \/ Precedes(s, q)

(* firstValueNode finds the first of the entries at a node or below it.    *)
LEMMA FirstIs ==
    ASSUME NEW t, Tree(t), NEW n \in Pointers(t.node)
    PROVE  IF n = Nil THEN FirstValueNode(t.node, n) = Nil
           ELSE FirstValueNode(t.node, n) # Nil /\ IsFirstBelow(t.node, n, FirstValueNode(t.node, n))
<1> DEFINE h == t.node
           S == Pointers(h)
           first(x) == FirstValueNode(h, x)
           T == {x \in S : IF x = Nil THEN first(x) = Nil ELSE first(x) # Nil /\ IsFirstBelow(h, x, first(x))}
           m == Below(h)
<1>1. m \in [S -> Nat]
  BY BelowIsMeasure
<1>2. \A x \in S : first(x) = IF x = Nil \/ HasValue(h, x) THEN x
                              ELSE IF first(h[x].kids[0]) # Nil THEN first(h[x].kids[0])
                              ELSE first(h[x].kids[1])
  BY FirstUnfolds
<1>3. ASSUME NEW x \in S, \A y \in S : m[y] < m[x] => y \in T PROVE x \in T
  <2>1. CASE x = Nil
    BY <1>2, <2>1
  <2>2. CASE x # Nil /\ HasValue(h, x)
    <3>1. x \in ValueNodes(h) /\ x \in Prefixes
      BY <2>2 DEF Pointers, ValueNodes, Tree
    <3>2. \A q \in ValueNodes(h) : Contains(x, q) => q = x \/ Precedes(x, q)
      BY <3>1, ValueNodeFacts, PrecedesBits
    <3>3. IsFirstBelow(h, x, x)
      BY <3>1, <3>2, ContainsReflexive DEF IsFirstBelow
    <3> QED
      BY <1>2, <2>2, <3>3
  <2>3. CASE x # Nil /\ ~HasValue(h, x)
    <3> DEFINE left == h[x].kids[0]
               right == h[x].kids[1]
    <3>1. x \in DOMAIN h /\ x \in Prefixes
      BY <2>3 DEF Pointers, Tree
    <3>2. /\ left # Nil /\ left \in DOMAIN h /\ left \in Prefixes /\ Contains(x, left)
          /\ Len(x) < Len(left) /\ Bit(left, Len(x)) = 0 /\ left \in S /\ m[left] < m[x]
      BY <2>3, <3>1, KidFacts, BelowIsMeasure
    <3> HIDE DEF T, first
    <3>3. left \in T
      BY <1>3, <3>2
    <3> USE DEF T
    <3>4. first(left) # Nil /\ IsFirstBelow(h, left, first(left))
      BY <3>2, <3>3
    <3>5. first(x) = first(left)
      BY <1>2, <2>3, <3>4
    <3> DEFINE s == first(left)
    <3>6. s \in ValueNodes(h) /\ Contains(left, s) /\ s \in Prefixes
      BY <3>4, ValueNodeFacts DEF IsFirstBelow
    <3> HIDE DEF s
    <3>7. Contains(x, s) /\ Bit(s, Len(x)) = 0 /\ Len(x) < Len(s)
      <4>1. Contains(x, s) /\ Bit(s, Len(x)) = 0
        BY <3>1, <3>2, <3>6, ContainsTransitive, SideBitBelow
      <4>2. Len(left) <= Len(s) /\ Len(left) \in Nat /\ Len(s) \in Nat /\ Len(x) \in Nat
        BY <3>1, <3>2, <3>6, ContainsLen, PrefixIsSeq
      <4> QED
        BY <4>1, <4>2, <3>2
    <3>8. ASSUME NEW q \in ValueNodes(h), Contains(x, q) PROVE q = s \/ Precedes(s, q)
      <4>1. q \in DOMAIN h /\ q \in Prefixes /\ q # x
        BY <2>3, ValueNodeFacts DEF ValueNodes
      <4>2. Len(x) < Len(q) /\ Bit(q, Len(x)) \in {0, 1}
        BY <3>1, <3>8, <4>1, ContainsLen, SideBit
      <4>3. Contains(h[x].kids[Bit(q, Len(x))], q)
        BY <3>1, <3>8, <4>1, Through
      <4>4. CASE Bit(q, Len(x)) = 0
        BY <3>4, <4>3, <4>4 DEF IsFirstBelow, s
      <4>5. CASE Bit(q, Len(x)) = 1
        BY <3>1, <3>6, <3>7, <3>8, <4>1, <4>2, <4>5, LeftPrecedesRight
      <4> QED
        BY <4>2, <4>4, <4>5
    <3>9. IsFirstBelow(h, x, s)
      BY <3>6, <3>7, <3>8 DEF IsFirstBelow
    <3> QED
      BY <2>3, <3>4, <3>5, <3>9 DEF s
  <2> QED
    BY <2>1, <2>2, <2>3
<1> HIDE DEF T, m
<1>4. S \subseteq T
  BY <1>1, <1>3, MeasureInduction
<1> QED
  BY <1>4 DEF T

(* q is after n and all that is below n.                                   *)
RightOf(n, q) == Precedes(n, q) /\ ~Contains(n, q)

(* Every entry right of n is s or after s; there is none if s is Nil.      *)
IsFirstRight(h, n, s) ==
    \A q \in ValueNodes(h) : RightOf(n, q) => s # Nil /\ (q = s \/ Precedes(s, q))

(* A node that has a _parent hangs on it.                                  *)
LEMMA ParentFacts ==
    ASSUME NEW t, Tree(t), Parents(t, FALSE), NEW n \in DOMAIN t.node, t.node[n].parent # Nil
    PROVE  \E b \in {0, 1} :
              /\ t.node[n].parent \in DOMAIN t.node /\ t.node[n].parent \in Prefixes
              /\ n \in Prefixes /\ n # Nil
              /\ t.node[t.node[n].parent].kids[b] = n
              /\ Contains(t.node[n].parent, n) /\ Len(t.node[n].parent) < Len(n)
              /\ Bit(n, Len(t.node[n].parent)) = b
<1> DEFINE up == t.node[n].parent
<1>1. up \in DOMAIN t.node /\ IsKid(t.node, n, up)
  BY DEF Parents
<1>2. PICK b \in {0, 1} : t.node[up].kids[b] = n
  BY <1>1 DEF IsKid
<1>3. n # Nil /\ n \in Prefixes /\ up \in Prefixes
  BY <1>1, NilIsNoPrefix DEF Tree
<1> HIDE DEF up
<1>4. Contains(up, n) /\ Len(up) < Len(n) /\ Bit(n, Len(up)) = b
  BY <1>1, <1>2, <1>3, KidFacts
<1> QED
  BY <1>1, <1>2, <1>3, <1>4 DEF up

(* The iterator climbs as it does from the parent.                         *)
LEMMA ClimbUnfolds ==
    ASSUME NEW t, Tree(t), Parents(t, FALSE)
    PROVE  \A n \in DOMAIN t.node : LET up == t.node[n].parent
                                        right == IF t.node[up].kids[0] = n
                                                 THEN FirstValueNode(t.node, t.node[up].kids[1]) ELSE Nil IN
              Climb(t.node, n) = IF up = Nil THEN Nil ELSE IF right # Nil THEN right ELSE Climb(t.node, up)
<1> DEFINE h == t.node
           S == DOMAIN h
           m == [n \in S |-> Len(n)]
           N == Width + 1
           E(f) == [n \in S |-> ClimbStep(h, f, n)]
           d == CHOOSE f : f = E(f)
<1>1. m \in [S -> Nat] /\ (\A n \in S : m[n] < N) /\ N \in Nat
  <2>1. Width \in Nat /\ \A n \in S : Len(n) \in Nat /\ Len(n) <= Width
    BY PrefixIsSeq, TrieAssumption DEF Tree
  <2> QED
    BY <2>1
<1>2. \A n \in S : h[n].parent # Nil => h[n].parent \in S /\ m[h[n].parent] < m[n]
  BY ParentFacts
<1> HIDE DEF m, N, h
<1>4. \A f, x : Step("climb", h, h, h, f, x) = ClimbStep(h, f, x)
  BY DEF Step
<1>5. Local("climb", h, h, h, S, m)
  BY <1>2, <1>4 DEF Local, ClimbStep
<1>6. \E f : Follows("climb", h, h, h, S, f)
  BY <1>1, <1>5, Recursion
<1>7. \E f : f = E(f)
  BY <1>4, <1>6 DEF Follows
<1>8. d = E(d)
  BY <1>7
<1>9. \A n : Climb(h, n) = d[n]
  BY DEF Climb, ClimbStep
<1>10. \A n \in S : d[n] = ClimbStep(h, d, n)
  BY <1>8
<1> HIDE DEF d
<1> QED
  BY <1>9, <1>10 DEF h, ClimbStep

(* The iterator climbs to an entry further right: to the first one when    *)
(* all _parent pointers are right.                                         *)
LEMMA ClimbIs ==
    ASSUME NEW t, Tree(t), Parents(t, FALSE), NEW n \in DOMAIN t.node
    PROVE  /\ Climb(t.node, n) # Nil => Climb(t.node, n) \in ValueNodes(t.node) /\ RightOf(n, Climb(t.node, n))
           /\ Parents(t, TRUE) => IsFirstRight(t.node, n, Climb(t.node, n))
<1> DEFINE h == t.node
           S == DOMAIN h
           climb(x) == Climb(h, x)
           Sound(x) == climb(x) # Nil => climb(x) \in ValueNodes(h) /\ RightOf(x, climb(x))
           First(x) == Parents(t, TRUE) => IsFirstRight(h, x, climb(x))
           T == {x \in S : Sound(x) /\ First(x)}
           m == [x \in S |-> Len(x)]
<1>1. m \in [S -> Nat]
  BY PrefixIsSeq DEF Tree
<1>2. ASSUME NEW x \in S, \A y \in S : m[y] < m[x] => y \in T PROVE x \in T
  <2> DEFINE up == h[x].parent
             right == IF h[up].kids[0] = x THEN FirstValueNode(h, h[up].kids[1]) ELSE Nil
  <2>1. climb(x) = IF up = Nil THEN Nil ELSE IF right # Nil THEN right ELSE climb(up)
    BY ClimbUnfolds
  <2>2. CASE up = Nil
    <3>1. climb(x) = Nil
      BY <2>1, <2>2
    <3>2. ASSUME Parents(t, TRUE), NEW q \in ValueNodes(h) PROVE ~RightOf(x, q)
      <4>1. x = t.root
        BY <2>2, <3>2 DEF Parents
      <4> QED
        BY <4>1, <3>2, RootAbove DEF ValueNodes, RightOf
    <3> HIDE DEF climb
    <3> QED
      BY <3>1, <3>2 DEF IsFirstRight
  <2>3. CASE up # Nil
    <3>1. PICK b \in {0, 1} :
              /\ up \in S /\ up \in Prefixes /\ x \in Prefixes /\ x # Nil
              /\ h[up].kids[b] = x
              /\ Contains(up, x) /\ Len(up) < Len(x) /\ Bit(x, Len(up)) = b
      BY <2>3, ParentFacts
    <3> DEFINE other == h[up].kids[1]
    <3>2. other \in Pointers(h) /\ (other # Nil => /\ other \in Prefixes /\ Contains(up, other)
                                                   /\ Len(up) < Len(other) /\ Bit(other, Len(up)) = 1)
      BY <3>1, KidFacts
    <3>3. m[up] < m[x]
      BY <3>1
    <3> HIDE DEF T
    <3>4. up \in T
      BY <1>2, <3>1, <3>3
    <3> USE DEF T
    <3>5. Sound(up) /\ First(up)
      BY <3>4
    <3>6. h[up].kids[0] = x <=> b = 0
      <4>1. h[up].kids[0] = x => b = 0
        BY <3>1, KidFacts
      <4> QED
        BY <3>1, <4>1
    <3> HIDE DEF up
    (* What is right of x is right of up, or below the other child.        *)
    <3>7. ASSUME NEW q \in ValueNodes(h), RightOf(x, q)
          PROVE  RightOf(up, q) \/ (b = 0 /\ other # Nil /\ Contains(other, q))
      <4>1. q \in DOMAIN h /\ q \in Prefixes
        BY ValueNodeFacts
      <4>2. ~Precedes(q, x)
        BY <3>1, <3>7, <4>1, PrecedesAsymmetric DEF RightOf
      <4>3. CASE Contains(up, q)
        <5>1. q # up
          <6>1. Precedes(up, x)
            BY <3>1, PrecedesBits
          <6> QED
            BY <4>2, <6>1
        <5>2. Len(up) < Len(q) /\ Bit(q, Len(up)) \in {0, 1}
          BY <3>1, <4>1, <4>3, <5>1, ContainsLen, SideBit
        <5>3. h[up].kids[Bit(q, Len(up))] # Nil /\ Contains(h[up].kids[Bit(q, Len(up))], q)
          BY <3>1, <4>1, <4>3, <5>1, Through
        <5>4. Bit(q, Len(up)) # b
          BY <5>3, <3>1, <3>7 DEF RightOf
        <5>5. ~(b = 1 /\ Bit(q, Len(up)) = 0)
          BY <3>1, <4>1, <4>2, <4>3, <5>2, LeftPrecedesRight
        <5>6. b = 0 /\ Bit(q, Len(up)) = 1
          BY <5>2, <5>4, <5>5
        <5> QED
          BY <5>3, <5>6
      <4>4. CASE ~Contains(up, q)
        <5>1. q # up /\ (Precedes(up, q) \/ Precedes(q, up))
          BY <3>1, <4>1, <4>4, ContainsReflexive, PrecedesTotal
        <5>2. ASSUME Precedes(q, up) PROVE FALSE
          <6>1. CASE Contains(q, up)
            <7>1. Contains(q, x)
              BY <3>1, <4>1, <6>1, ContainsTransitive
            <7>2. q # x
              BY <4>1, <4>4, <3>1
            <7> QED
              BY <3>1, <4>1, <4>2, <7>1, <7>2, PrecedesBits
          <6>2. CASE ~Contains(q, up)
            BY <3>1, <4>1, <4>2, <5>2, <6>2, PrecedesBelow, ContainsReflexive
          <6> QED
            BY <6>1, <6>2
        <5> QED
          BY <5>1, <5>2, <4>4 DEF RightOf
      <4> QED
        BY <4>3, <4>4
    <3>8. CASE b = 0 /\ other # Nil
      <4>1. right = FirstValueNode(h, other) /\ right # Nil /\ IsFirstBelow(h, other, right)
        BY <3>2, <3>6, <3>8, FirstIs DEF up
      <4>2. climb(x) = right
        BY <2>1, <2>3, <4>1
      <4> HIDE DEF right, climb, other
      <4>3. right \in ValueNodes(h) /\ Contains(other, right) /\ right \in Prefixes
        BY <4>1, ValueNodeFacts DEF IsFirstBelow
      <4>4. Contains(up, right) /\ Bit(right, Len(up)) = 1 /\ Len(up) < Len(right)
        <5>1. Contains(up, right) /\ Bit(right, Len(up)) = 1
          BY <3>1, <3>2, <3>8, <4>3, ContainsTransitive, SideBitBelow
        <5>2. Len(other) <= Len(right) /\ Len(other) \in Nat /\ Len(right) \in Nat /\ Len(up) \in Nat
          BY <3>1, <3>2, <3>8, <4>3, ContainsLen, PrefixIsSeq
        <5> QED
          BY <5>1, <5>2, <3>2, <3>8
      <4>5. RightOf(x, right)
        BY <3>1, <3>8, <4>3, <4>4, LeftPrecedesRight DEF RightOf
      <4>6. ASSUME NEW q \in ValueNodes(h), RightOf(x, q) PROVE q = right \/ Precedes(right, q)
        <5>1. CASE Contains(other, q)
          BY <4>1, <5>1 DEF IsFirstBelow
        <5>2. CASE RightOf(up, q)
          BY <3>1, <4>3, <4>4, <5>2, ValueNodeFacts, PrecedesBelow, ContainsReflexive DEF RightOf
        <5> QED
          BY <4>6, <5>1, <5>2, <3>7
      <4> QED
        BY <4>1, <4>2, <4>3, <4>5, <4>6 DEF IsFirstRight
    <3>9. CASE ~(b = 0 /\ other # Nil)
      <4>1. right = Nil
        BY <3>2, <3>6, <3>9, FirstIs DEF up
      <4>2. climb(x) = climb(up)
        BY <2>1, <2>3, <4>1 DEF up
      <4> HIDE DEF right, climb, other
      <4>3. ASSUME climb(x) # Nil PROVE climb(x) \in ValueNodes(h) /\ RightOf(x, climb(x))
        <5>1. climb(x) \in ValueNodes(h) /\ RightOf(up, climb(x)) /\ climb(x) \in Prefixes
          BY <3>5, <4>2, <4>3, ValueNodeFacts
        <5> QED
          BY <3>1, <5>1, PrecedesBelow, ContainsReflexive DEF RightOf
      <4>4. ASSUME Parents(t, TRUE) PROVE IsFirstRight(h, x, climb(x))
        BY <3>5, <3>7, <3>9, <4>2, <4>4 DEF IsFirstRight
      <4> QED
        BY <4>3, <4>4
    <3> QED
      BY <3>8, <3>9
  <2> QED
    BY <2>2, <2>3
<1> HIDE DEF T, m
<1>3. S \subseteq T
  BY <1>1, <1>2, MeasureInduction
<1> QED
  BY <1>3 DEF T

(* Every entry after n is s or after s; there is none if s is Nil.         *)
IsNext(h, n, s) ==
    \A q \in ValueNodes(h) : Precedes(n, q) => s # Nil /\ (q = s \/ Precedes(s, q))

(* The first entry below a child comes after the node.                     *)
LEMMA KidFirst ==
    ASSUME NEW t, Tree(t), NEW n \in DOMAIN t.node, NEW b \in {0, 1}, t.node[n].kids[b] # Nil,
           NEW s, s = FirstValueNode(t.node, t.node[n].kids[b])
    PROVE  /\ s # Nil /\ s \in ValueNodes(t.node) /\ s \in Prefixes
           /\ IsFirstBelow(t.node, t.node[n].kids[b], s)
           /\ Contains(n, s) /\ Len(n) < Len(s) /\ Bit(s, Len(n)) = b /\ Precedes(n, s)
<1> DEFINE kid == t.node[n].kids[b]
<1>1. /\ n \in Prefixes /\ kid \in Pointers(t.node) /\ kid # Nil /\ kid \in Prefixes
      /\ Contains(n, kid) /\ Len(n) < Len(kid) /\ Bit(kid, Len(n)) = b
  BY KidFacts
<1> HIDE DEF kid
<1>2. s # Nil /\ IsFirstBelow(t.node, kid, s)
  BY <1>1, FirstIs DEF kid
<1>3. s \in ValueNodes(t.node) /\ s \in Prefixes /\ Contains(kid, s)
  BY <1>2, ValueNodeFacts DEF IsFirstBelow
<1>4. Contains(n, s) /\ Bit(s, Len(n)) = b
  BY <1>1, <1>3, ContainsTransitive, SideBitBelow
<1>5. Len(n) < Len(s)
  <2>1. Len(kid) <= Len(s) /\ Len(kid) \in Nat /\ Len(s) \in Nat /\ Len(n) \in Nat
    BY <1>1, <1>3, ContainsLen, PrefixIsSeq
  <2> QED
    BY <2>1, <1>1
<1>6. n # s
  BY <1>1, <1>3, <1>5, PrefixIsSeq
<1>7. Precedes(n, s)
  BY <1>1, <1>3, <1>4, <1>6, PrecedesBits
<1> QED
  BY <1>2, <1>3, <1>4, <1>5, <1>7 DEF kid

(* operator++ goes to a later entry: to the next one when all _parent      *)
(* pointers are right.                                                     *)
LEMMA SuccessorIs ==
    ASSUME NEW t, Tree(t), Parents(t, FALSE), NEW n \in DOMAIN t.node
    PROVE  /\ Successor(t.node, n) # Nil =>
                 Successor(t.node, n) \in ValueNodes(t.node) /\ Precedes(n, Successor(t.node, n))
           /\ Parents(t, TRUE) => IsNext(t.node, n, Successor(t.node, n))
<1> DEFINE h == t.node
           first(b) == FirstValueNode(h, h[n].kids[b])
           s == Successor(h, n)
<1>1. n \in Prefixes
  BY DEF Tree
<1>2. \A b \in {0, 1} : first(b) = Nil <=> h[n].kids[b] = Nil
  BY KidFacts, FirstIs
<1>3. s = IF first(0) = Nil /\ first(1) = Nil THEN Climb(h, n)
          ELSE IF first(0) # Nil THEN first(0) ELSE first(1)
  <2>1. {first(b) : b \in {0, 1}} \ {Nil} = {} <=> first(0) = Nil /\ first(1) = Nil
    OBVIOUS
  <2> HIDE DEF first
  <2> QED
    BY <2>1 DEF Successor, first
<1> HIDE DEF s
(* An entry after n is right of it, or below a child. *)
<1>4. ASSUME NEW q \in ValueNodes(h), Precedes(n, q)
      PROVE  \/ RightOf(n, q)
             \/ \E b \in {0, 1} : /\ h[n].kids[b] # Nil /\ Contains(h[n].kids[b], q)
                                  /\ Contains(n, q) /\ Len(n) < Len(q) /\ Bit(q, Len(n)) = b
  <2>1. q \in DOMAIN h /\ q \in Prefixes /\ n # q
    BY <1>1, <1>4, ValueNodeFacts, PrecedesIrreflexive
  <2>2. CASE Contains(n, q)
    <3>1. Len(n) < Len(q) /\ Bit(q, Len(n)) \in {0, 1}
      BY <1>1, <2>1, <2>2, ContainsLen, SideBit
    <3> QED
      BY <2>1, <2>2, <3>1, Through
  <2> QED
    BY <1>4, <2>2 DEF RightOf
<1>5. CASE first(0) = Nil /\ first(1) = Nil
  <2>1. s = Climb(h, n)
    BY <1>3, <1>5
  <2>2. \A b \in {0, 1} : h[n].kids[b] = Nil
    BY <1>2, <1>5
  <2>3. ASSUME s # Nil PROVE s \in ValueNodes(h) /\ Precedes(n, s)
    BY <2>1, <2>3, ClimbIs DEF RightOf
  <2>4. ASSUME Parents(t, TRUE) PROVE IsNext(h, n, s)
    <3>1. IsFirstRight(h, n, s)
      BY <2>1, <2>4, ClimbIs
    <3> QED
      BY <3>1, <1>4, <2>2 DEF IsFirstRight, IsNext
  <2> QED
    BY <2>3, <2>4 DEF s
<1>6. ASSUME NEW b \in {0, 1}, h[n].kids[b] # Nil, s = first(b), b = 1 => h[n].kids[0] = Nil
      PROVE  s # Nil /\ s \in ValueNodes(h) /\ Precedes(n, s) /\ IsNext(h, n, s)
  <2>1. /\ s # Nil /\ s \in ValueNodes(h) /\ s \in Prefixes
        /\ IsFirstBelow(h, h[n].kids[b], s)
        /\ Contains(n, s) /\ Len(n) < Len(s) /\ Bit(s, Len(n)) = b /\ Precedes(n, s)
    BY <1>6, KidFirst
  <2>2. ASSUME NEW q \in ValueNodes(h), Precedes(n, q) PROVE q = s \/ Precedes(s, q)
    <3>1. q \in Prefixes
      BY ValueNodeFacts
    <3>2. CASE RightOf(n, q)
      BY <1>1, <2>1, <3>1, <3>2, PrecedesBelow, ContainsReflexive DEF RightOf
    <3>3. ASSUME NEW c \in {0, 1}, h[n].kids[c] # Nil, Contains(h[n].kids[c], q),
                 Contains(n, q), Len(n) < Len(q), Bit(q, Len(n)) = c
          PROVE  q = s \/ Precedes(s, q)
      <4>1. CASE c = b
        BY <2>1, <3>3, <4>1 DEF IsFirstBelow
      <4>2. CASE c # b
        <5>1. b = 0 /\ c = 1
          BY <1>6, <3>3, <4>2
        <5> QED
          BY <1>1, <2>1, <3>1, <3>3, <5>1, LeftPrecedesRight
      <4> QED
        BY <4>1, <4>2
    <3> QED
      BY <1>4, <2>2, <3>2, <3>3
  <2> QED
    BY <2>1, <2>2 DEF IsNext
<1>7. CASE ~(first(0) = Nil /\ first(1) = Nil)
  <2>1. CASE first(0) # Nil
    <3>1. s = first(0) /\ h[n].kids[0] # Nil
      BY <1>2, <1>3, <2>1
    <3> DEFINE b == 0
    <3>2. b \in {0, 1} /\ h[n].kids[b] # Nil /\ s = first(b) /\ (b = 1 => h[n].kids[0] = Nil)
      BY <3>1
    <3> HIDE DEF first, b
    <3>3. s # Nil /\ s \in ValueNodes(h) /\ Precedes(n, s) /\ IsNext(h, n, s)
      BY <3>2, <1>6
    <3> QED
      BY <3>3 DEF s
  <2>2. CASE first(0) = Nil
    <3>1. s = first(1) /\ h[n].kids[1] # Nil /\ h[n].kids[0] = Nil
      BY <1>2, <1>3, <1>7, <2>2
    <3> HIDE DEF first
    <3> QED
      BY <3>1, <1>6 DEF s
  <2> QED
    BY <2>1, <2>2
<1> QED
  BY <1>5, <1>7

-----------------------------------------------------------------------------
(* What every operation keeps.                                             *)
Healthy(t) ==
    /\ Tree(t)
    /\ Parents(t, FALSE)
    /\ IsFiniteSet(DOMAIN t.node)
    /\ t.size = Cardinality(ValueNodes(t.node))

(* u comes from t: the _parent pointers that were right are right.         *)
Keeps(t, u) == Healthy(u) /\ (Parents(t, TRUE) => Parents(u, TRUE))

(* One operation after the other.                                          *)
LEMMA KeepsTransitive ==
    ASSUME NEW t, NEW u, NEW w, Keeps(t, u), Keeps(u, w) PROVE Keeps(t, w)
BY DEF Keeps

(* A trie has finitely many entries, and keeps what it has.                *)
LEMMA HealthyFacts ==
    ASSUME NEW t, Healthy(t)
    PROVE  /\ IsFiniteSet(ValueNodes(t.node)) /\ Cardinality(ValueNodes(t.node)) \in Nat
           /\ t.size \in Nat /\ Keeps(t, t)
<1>1. ValueNodes(t.node) \in SUBSET DOMAIN t.node /\ IsFiniteSet(DOMAIN t.node)
  BY DEF ValueNodes, Healthy
<1>2. IsFiniteSet(ValueNodes(t.node))
  BY <1>1, FS_Subset
<1>3. Cardinality(ValueNodes(t.node)) \in Nat
  BY <1>2, FS_CardinalityType
<1> QED
  BY <1>2, <1>3 DEF Healthy, Keeps

(* Insertion keeps the trie, adds the prefix and counts it.                *)
LEMMA AddNodeKeeps ==
    ASSUME NEW t, Healthy(t), NEW p \in Prefixes, NEW v \in SUBSET ASes
    PROVE  /\ Keeps(t, AddNode(t, p, v))
           /\ ValueNodes(AddNode(t, p, v).node) = ValueNodes(t.node) \cup {p}
           /\ AddNode(t, p, v).size = IF p \in ValueNodes(t.node) THEN t.size ELSE t.size + 1
<1> DEFINE u == AddNode(t, p, v)
<1>1. Added(t, u, p, v)
  BY AddNodeIs DEF Healthy
<1> HIDE DEF u
<1>2. Cardinality(ValueNodes(t.node) \cup {p})
          = IF p \in ValueNodes(t.node) THEN Cardinality(ValueNodes(t.node)) ELSE Cardinality(ValueNodes(t.node)) + 1
  BY HealthyFacts, FS_AddElement
<1>3. /\ Tree(u) /\ Parents(u, FALSE) /\ (Parents(t, TRUE) => Parents(u, TRUE))
      /\ IsFiniteSet(DOMAIN u.node)
      /\ ValueNodes(u.node) = ValueNodes(t.node) \cup {p}
      /\ u.size = IF p \in ValueNodes(t.node) THEN t.size ELSE t.size + 1
  BY <1>1 DEF Added, Healthy
<1>4. u.size = Cardinality(ValueNodes(u.node))
  BY <1>2, <1>3 DEF Healthy
<1> QED
  BY <1>3, <1>4 DEF Keeps, Healthy, u

(* A new value of an entry keeps the trie.                                 *)
LEMMA RevaluedKeeps ==
    ASSUME NEW u, Healthy(u), NEW p \in ValueNodes(u.node), NEW v \in SUBSET ASes, NEW w, Revalued(u, w, p, v, u.size)
    PROVE  Keeps(u, w) /\ ValueNodes(w.node) = ValueNodes(u.node) /\ w.size = u.size
<1>1. Tree(u) /\ p \in DOMAIN u.node
  BY DEF Healthy, ValueNodes
<1>2. ValueGiven(u, w, p, v, u.size)
  BY <1>1, ValueSet
<1>3. ValueNodes(w.node) = ValueNodes(u.node)
  BY <1>2 DEF ValueGiven
<1> QED
  BY <1>2, <1>3 DEF Keeps, Healthy, ValueGiven

(* operator[] and an insertion into its set keep the trie, add the prefix  *)
(* and count it.                                                           *)
LEMMA AddOriginsKeeps ==
    ASSUME NEW t, Healthy(t), NEW p \in Prefixes, NEW v \in SUBSET ASes
    PROVE  /\ Keeps(t, AddOrigins(t, p, v))
           /\ ValueNodes(AddOrigins(t, p, v).node) = ValueNodes(t.node) \cup {p}
           /\ AddOrigins(t, p, v).size = IF p \in ValueNodes(t.node) THEN t.size ELSE t.size + 1
<1> DEFINE u == AddNode(t, p, {})
           all == u.node[p].value \cup v
           w == AddOrigins(t, p, v)
<1>1. /\ Keeps(t, u) /\ ValueNodes(u.node) = ValueNodes(t.node) \cup {p}
      /\ u.size = IF p \in ValueNodes(t.node) THEN t.size ELSE t.size + 1
  BY AddNodeKeeps
<1>2. w = [u EXCEPT !.node[p].value = @ \cup v]
  BY DEF AddOrigins
<1> HIDE DEF u, w
<1>3. Healthy(u) /\ Tree(u)
  BY <1>1 DEF Keeps, Healthy
<1>4. Revalued(u, w, p, all, u.size)
  <2>1. u = [root |-> u.root, node |-> u.node, size |-> u.size]
    BY <1>3 DEF Tree
  <2>2. [u EXCEPT !.node[p].value = @ \cup v] = [u EXCEPT !.node = WithValue(u.node, p, all)]
    BY <2>1 DEF WithValue
  <2>3. \A r, x, s, y : [[root |-> r, node |-> x, size |-> s] EXCEPT !.node = y]
                            = [root |-> r, node |-> y, size |-> s]
    OBVIOUS
  <2> QED
    BY <1>2, <2>1, <2>2, <2>3 DEF Revalued
<1>5. p \in DOMAIN u.node /\ p \in ValueNodes(u.node)
  BY <1>1 DEF ValueNodes
<1>6. all \in SUBSET ASes
  <2>1. u.node[p] \in Node /\ u.node[p].value # NoValue
    BY <1>3, <1>5 DEF Tree, ValueNodes, HasValue
  <2>2. u.node[p].value \in SUBSET ASes
    BY <2>1 DEF Node
  <2> QED
    BY <2>2
<1> HIDE DEF all
<1>7. Keeps(u, w) /\ ValueNodes(w.node) = ValueNodes(u.node) /\ w.size = u.size
  BY <1>3, <1>4, <1>5, <1>6, RevaluedKeeps
<1>8. Keeps(t, w)
  BY <1>1, <1>7, KeepsTransitive
<1> QED
  BY <1>1, <1>7, <1>8 DEF w

(* Removal keeps the trie, takes the prefix away and counts it.            *)
LEMMA RemoveKeeps ==
    ASSUME NEW t, Healthy(t), NEW p \in Prefixes
    PROVE  /\ Keeps(t, Remove(t, p))
           /\ ValueNodes(Remove(t, p).node) = ValueNodes(t.node) \ {p}
           /\ Remove(t, p).size = IF p \in ValueNodes(t.node) THEN t.size - 1 ELSE t.size
<1> DEFINE u == Remove(t, p)
<1>1. Removed(t, u, p)
  BY RemoveIs DEF Healthy
<1> HIDE DEF u
<1>2. Cardinality(ValueNodes(t.node) \ {p})
          = IF p \in ValueNodes(t.node) THEN Cardinality(ValueNodes(t.node)) - 1 ELSE Cardinality(ValueNodes(t.node))
  BY HealthyFacts, FS_RemoveElement
<1>3. /\ Tree(u) /\ Parents(u, FALSE) /\ (Parents(t, TRUE) => Parents(u, TRUE))
      /\ DOMAIN u.node \in SUBSET DOMAIN t.node
      /\ ValueNodes(u.node) = ValueNodes(t.node) \ {p}
      /\ u.size = IF p \in ValueNodes(t.node) THEN t.size - 1 ELSE t.size
  BY <1>1 DEF Removed, ValuesLeft, Healthy
<1>4. IsFiniteSet(DOMAIN u.node)
  BY <1>3, FS_Subset DEF Healthy
<1>5. u.size = Cardinality(ValueNodes(u.node))
  BY <1>2, <1>3 DEF Healthy
<1> QED
  BY <1>3, <1>4, <1>5 DEF Keeps, Healthy, u

(* An empty object is a trie.                                              *)
LEMMA EmptyHealthy == Healthy(EmptyTrie) /\ Parents(EmptyTrie, TRUE) /\ EmptyTrie.size = 0
<1> DEFINE t == EmptyTrie
<1>1. t.root = Nil /\ t.size = 0 /\ DOMAIN t.node = {} /\ t = [root |-> t.root, node |-> t.node, size |-> t.size]
  BY DEF EmptyTrie
<1> HIDE DEF t
<1>2. ValueNodes(t.node) = {}
  BY <1>1 DEF ValueNodes
<1>3. Tree(t) /\ \A exact \in BOOLEAN : Parents(t, exact)
  BY <1>1 DEF Tree, KidsExtend, AllHang, Parents, Pointers
<1>4. IsFiniteSet(DOMAIN t.node) /\ t.size = Cardinality(ValueNodes(t.node))
  BY <1>1, <1>2, FS_EmptySet
<1> QED
  BY <1>1, <1>3, <1>4 DEF Healthy, t

(* Clearing leaves an empty object.                                        *)
LEMMA ClearedIs ==
    ASSUME NEW t, Healthy(t) PROVE Cleared(t) = EmptyTrie
<1>1. t.size - Cardinality(ValueNodes(t.node)) = 0
  <2>1. t.size = Cardinality(ValueNodes(t.node)) /\ t.size \in Nat
    BY HealthyFacts DEF Healthy
  <2> QED
    BY <2>1
<1>2. Cleared(t) = [EmptyTrie EXCEPT !.size = 0]
  BY <1>1 DEF Cleared
<1> QED
  BY <1>2 DEF EmptyTrie

(* A copy is a trie; of its _parent pointers some may be null.             *)
LEMMA CopyHealthy ==
    ASSUME NEW t, Healthy(t)
    PROVE  /\ Healthy(CopyNodes(t)) /\ CopyNodes(t).size = t.size
           /\ t.root = Nil => Parents(CopyNodes(t), TRUE)
<1> DEFINE h == t.node
           g == [n \in DOMAIN h |-> [h[n] EXCEPT !.parent = Nil]]
           u == CopyNodes(t)
<1>1. Tree(t)
  BY DEF Healthy
<1>2. u = [root |-> t.root, node |-> g, size |-> t.size]
  <2>1. t = [root |-> t.root, node |-> t.node, size |-> t.size]
    BY <1>1 DEF Tree
  <2>2. \A r, x, s, y : [[root |-> r, node |-> x, size |-> s] EXCEPT !.node = y]
                            = [root |-> r, node |-> y, size |-> s]
    OBVIOUS
  <2> QED
    BY <2>1, <2>2 DEF CopyNodes
<1>3. DOMAIN g = DOMAIN h
  OBVIOUS
<1>4. ASSUME NEW n \in DOMAIN h
      PROVE  /\ g[n] \in Node /\ g[n].value = h[n].value /\ g[n].kids = h[n].kids /\ g[n].parent = Nil
  <2>1. h[n] \in Node /\ Nil \in Pointer
    BY <1>1 DEF Tree, Pointer
  <2>2. g[n] = [h[n] EXCEPT !.parent = Nil]
    OBVIOUS
  <2> QED
    BY <2>1, <2>2 DEF Node
<1> HIDE DEF g, u
<1>5. u.root = t.root /\ u.node = g /\ u.size = t.size /\ u = [root |-> u.root, node |-> u.node, size |-> u.size]
  BY <1>2
<1>6. \A n \in DOMAIN h : HasValue(g, n) <=> HasValue(h, n)
  BY <1>4 DEF HasValue
<1>7. \A n, w \in DOMAIN h : IsKid(g, n, w) <=> IsKid(h, n, w)
  BY <1>4 DEF IsKid
<1>8. KidsExtend(u)
  <2> SUFFICES ASSUME NEW n \in DOMAIN h, NEW b \in {0, 1}
               PROVE  IF g[n].kids[b] = Nil THEN HasValue(g, n)
                      ELSE /\ g[n].kids[b] \in DOMAIN g
                           /\ Ext!IsStrictPrefix(n, g[n].kids[b]) /\ Bit(g[n].kids[b], Len(n)) = b
    BY <1>3, <1>5 DEF KidsExtend
  <2>1. IF h[n].kids[b] = Nil THEN HasValue(h, n)
        ELSE /\ h[n].kids[b] \in DOMAIN h
             /\ Ext!IsStrictPrefix(n, h[n].kids[b]) /\ Bit(h[n].kids[b], Len(n)) = b
    BY <1>1 DEF Tree, KidsExtend
  <2> QED
    BY <1>3, <1>4, <1>6, <2>1
<1>9. AllHang(u)
  BY <1>1, <1>3, <1>5, <1>7 DEF Tree, AllHang
<1>10. Tree(u)
  BY <1>1, <1>3, <1>4, <1>5, <1>8, <1>9 DEF Tree, Pointers
<1>11. Parents(u, FALSE)
  BY <1>3, <1>4, <1>5 DEF Parents
<1>12. ValueNodes(u.node) = ValueNodes(h)
  BY <1>3, <1>5, <1>6 DEF ValueNodes
<1>13. t.root = Nil => Parents(u, TRUE)
  BY <1>1, <1>3, <1>5 DEF Tree, AllHang, Parents
<1> QED
  BY <1>3, <1>5, <1>10, <1>11, <1>12, <1>13 DEF Healthy, u

(* What is not added or removed keeps its value.                           *)
SameValues(t, u, p) == \A q \in ValueNodes(t.node) \ {p} : u.node[q].value = t.node[q].value

(* What operator[] and the insertions into its set make of the value.      *)
Joined(t, p, v) == v \cup (IF p \in ValueNodes(t.node) THEN t.node[p].value ELSE {})

(* Insertion leaves the values that are there alone.                       *)
LEMMA AddNodeValues ==
    ASSUME NEW t, Healthy(t), NEW p \in Prefixes, NEW v \in SUBSET ASes
    PROVE  /\ SameValues(t, AddNode(t, p, v), p)
           /\ ValueIs(AddNode(t, p, v).node, p, IF p \in ValueNodes(t.node) THEN t.node[p].value ELSE v)
<1> DEFINE u == AddNode(t, p, v)
<1>1. Added(t, u, p, v)
  BY AddNodeIs DEF Healthy
<1> HIDE DEF u
<1>2. SameValues(t, u, p)
  BY <1>1 DEF Added, SameValues
<1>3. ValueIs(u.node, p, IF p \in ValueNodes(t.node) THEN t.node[p].value ELSE v)
  BY <1>1 DEF Added, ValueIs
<1> QED
  BY <1>2, <1>3 DEF u

(* operator[] and insertions into its set join the AS numbers to those     *)
(* that are there.                                                         *)
LEMMA AddOriginsValues ==
    ASSUME NEW t, Healthy(t), NEW p \in Prefixes, NEW v \in SUBSET ASes
    PROVE  /\ SameValues(t, AddOrigins(t, p, v), p)
           /\ ValueIs(AddOrigins(t, p, v).node, p, Joined(t, p, v))
<1> DEFINE u == AddNode(t, p, {})
           all == u.node[p].value \cup v
           w == AddOrigins(t, p, v)
<1>1. /\ Keeps(t, u) /\ ValueNodes(u.node) = ValueNodes(t.node) \cup {p}
      /\ SameValues(t, u, p)
      /\ ValueIs(u.node, p, IF p \in ValueNodes(t.node) THEN t.node[p].value ELSE {})
  BY AddNodeKeeps, AddNodeValues
<1>2. w = [u EXCEPT !.node[p].value = @ \cup v]
  BY DEF AddOrigins
<1> HIDE DEF u, w
<1>3. Tree(u) /\ p \in DOMAIN u.node
  BY <1>1 DEF Keeps, Healthy, ValueNodes
<1>4. w.node = WithValue(u.node, p, all)
  <2>1. u = [root |-> u.root, node |-> u.node, size |-> u.size]
    BY <1>3 DEF Tree
  <2>2. [u EXCEPT !.node[p].value = @ \cup v] = [u EXCEPT !.node = WithValue(u.node, p, all)]
    BY <2>1 DEF WithValue
  <2>3. \A r, x, s, y : [[root |-> r, node |-> x, size |-> s] EXCEPT !.node = y].node = y
    OBVIOUS
  <2> QED
    BY <1>2, <2>1, <2>2, <2>3
<1>5. DOMAIN w.node = DOMAIN u.node /\ \A q \in DOMAIN u.node : q # p => w.node[q] = u.node[q]
  BY <1>4 DEF WithValue
<1>6. w.node[p].value = all
  <2>1. u.node[p] \in Node
    BY <1>3 DEF Tree
  <2>2. w.node[p] = [u.node[p] EXCEPT !.value = all]
    BY <1>3, <1>4 DEF WithValue
  <2> HIDE DEF all
  <2> QED
    BY <2>1, <2>2 DEF Node
<1>7. all = Joined(t, p, v)
  BY <1>1 DEF ValueIs, Joined
<1> HIDE DEF all
<1>8. SameValues(t, w, p)
  BY <1>1, <1>5 DEF SameValues, ValueNodes
<1>9. ValueIs(w.node, p, Joined(t, p, v))
  BY <1>6, <1>7 DEF ValueIs
<1> QED
  BY <1>8, <1>9 DEF w

(* Removal leaves the other values alone.                                  *)
LEMMA RemoveValues ==
    ASSUME NEW t, Healthy(t), NEW p \in Prefixes
    PROVE  SameValues(t, Remove(t, p), p)
<1>1. Removed(t, Remove(t, p), p)
  BY RemoveIs DEF Healthy
<1> QED
  BY <1>1 DEF Removed, ValuesLeft, SameValues
=============================================================================
