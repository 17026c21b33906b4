------------------------ MODULE RouteAggregateProofs ------------------------
(***************************************************************************)
(* Proof, for every width of an address and any prefixes, that Aggregate   *)
(* never loses or gains an address, that its iterators stay valid, and     *)
(* that what it leaves is the smallest set of prefixes for the addresses.  *)
(***************************************************************************)
EXTENDS RouteAggregate, WellFoundedInduction, SequenceTheorems, TLAPS

IInv == TypeOK /\ CoverageKept

USE RouteAssumption

-----------------------------------------------------------------------------
(* The least of some numbers.                                              *)
NatLess == {ss \in Nat \X Nat : ss[1] < ss[2]}

LEMMA NatLessWellFounded == IsWellFoundedOn(NatLess, Nat)
BY NatLessThanWellFounded, Zenon DEF OpToRel, NatLess

LEMMA LeastElement ==
    ASSUME NEW T, T \subseteq Nat, T # {}
    PROVE  \E n \in T : \A m \in T : n <= m
<1>1. PICK n \in T : \A m \in T : ~(<<m, n>> \in NatLess)
  BY NatLessWellFounded, WFMin
<1>2. ASSUME NEW m \in T PROVE n <= m
  <2>1. m \in Nat /\ n \in Nat /\ <<m, n>> \in Nat \X Nat
    OBVIOUS
  <2>2. ~(m < n)
    BY <1>1, <2>1 DEF NatLess
  <2> QED
    BY <2>1, <2>2
<1> QED
  BY <1>2

(* Prefixes and addresses.                                                 *)

LEMMA BitsFacts ==
    ASSUME NEW n \in Nat, NEW p \in [1 .. n -> {0, 1}]
    PROVE  Len(p) = n /\ p \in Seq({0, 1})
<1>1. p = [i \in 1 .. n |-> p[i]]
  OBVIOUS
<1>2. \A i \in 1 .. n : p[i] \in {0, 1}
  OBVIOUS
<1>3. p \in Seq({0, 1})
  BY <1>1, <1>2, IsASeq
<1> QED
  BY <1>3, LenProperties

LEMMA PrefixFacts ==
    ASSUME NEW p \in Prefixes
    PROVE  Len(p) \in 0 .. Width /\ p \in [1 .. Len(p) -> {0, 1}]
<1>1. PICK n \in 0 .. Width : p \in [1 .. n -> {0, 1}]
  BY DEF Prefixes
<1> QED
  BY <1>1, BitsFacts

LEMMA AddressFacts ==
    ASSUME NEW a \in Addresses
    PROVE  Len(a) = Width /\ a \in [1 .. Width -> {0, 1}]
BY BitsFacts DEF Addresses

LEMMA TruncateFacts ==
    ASSUME NEW p \in Prefixes, NEW n \in 0 .. Len(p)
    PROVE  /\ Truncate(p, n) \in Prefixes
           /\ Len(Truncate(p, n)) = n
           /\ \A i \in 1 .. n : Truncate(p, n)[i] = p[i]
<1>1. Len(p) \in 0 .. Width /\ p \in [1 .. Len(p) -> {0, 1}]
  BY PrefixFacts
<1>2. n \in 0 .. Width /\ Truncate(p, n) \in [1 .. n -> {0, 1}]
  BY <1>1 DEF Truncate
<1>3. Len(Truncate(p, n)) = n
  BY <1>2, BitsFacts
<1>4. \A i \in 1 .. n : Truncate(p, n)[i] = p[i]
  BY DEF Truncate
<1> QED
  BY <1>2, <1>3, <1>4 DEF Prefixes

(* A wider prefix contains the addresses of a more specific one.           *)
LEMMA WiderContains ==
    ASSUME NEW p \in Prefixes, NEW n \in 0 .. Len(p), NEW a \in Addresses, Contains(p, a)
    PROVE  Contains(Truncate(p, n), a)
BY PrefixFacts, AddressFacts, TruncateFacts DEF Contains

(* The addresses of a prefix are those of its two halves.                  *)
LEMMA HalvesContain ==
    ASSUME NEW p \in Prefixes, NEW q \in Prefixes, Halves(p, q), NEW a \in Addresses
    PROVE  Contains(Truncate(p, Len(p) - 1), a) <=> Contains(p, a) \/ Contains(q, a)
<1> DEFINE w == Truncate(p, Len(p) - 1)
<1>1. Len(p) \in 1 .. Width /\ p \in [1 .. Len(p) -> {0, 1}]
  BY PrefixFacts DEF Halves
<1>2. Len(a) = Width /\ a \in [1 .. Width -> {0, 1}]
  BY AddressFacts
<1>3. Len(w) = Len(p) - 1 /\ \A i \in 1 .. Len(p) - 1 : w[i] = p[i]
  <2>1. Len(p) - 1 \in 0 .. Len(p)
    BY <1>1
  <2> QED
    BY <2>1, TruncateFacts
<1>4. q \in [1 .. Len(p) -> {0, 1}] /\ q[Len(p)] = 1 /\ p[Len(p)] = 0
  BY <1>1 DEF Halves
<1>5. Len(q) = Len(p) /\ \A i \in 1 .. Len(p) - 1 : q[i] = p[i]
  <2>1. Len(p) \in Nat
    BY <1>1
  <2>2. Len(q) = Len(p)
    BY <2>1, <1>4, BitsFacts
  <2>3. \A i \in DOMAIN p : i # Len(p) => q[i] = p[i]
    BY DEF Halves
  <2>4. \A i \in 1 .. Len(p) - 1 : i \in 1 .. Len(p) /\ i # Len(p)
    BY <2>1
  <2>5. DOMAIN p = 1 .. Len(p)
    BY <1>1
  <2> QED
    BY <2>2, <2>3, <2>4, <2>5
<1>6. a[Len(p)] \in {0, 1}
  BY <1>1, <1>2
<1> HIDE DEF w
<1>7. ASSUME Contains(w, a) PROVE Contains(p, a) \/ Contains(q, a)
  <2>1. \A i \in 1 .. Len(p) - 1 : p[i] = a[i] /\ q[i] = a[i]
    BY <1>1, <1>3, <1>5, <1>7 DEF Contains
  <2>2. CASE a[Len(p)] = 0
    BY <2>1, <2>2, <1>1, <1>2, <1>4 DEF Contains
  <2>3. CASE a[Len(p)] = 1
    BY <2>1, <2>3, <1>1, <1>2, <1>4, <1>5 DEF Contains
  <2> QED
    BY <2>2, <2>3, <1>6
<1>8. ASSUME Contains(p, a) \/ Contains(q, a) PROVE Contains(w, a)
  BY <1>8, <1>1, <1>2, <1>3, <1>5 DEF Contains
<1> QED
  BY <1>7, <1>8 DEF w

-----------------------------------------------------------------------------
(* The order within a set.                                                 *)

LEMMA BeforeStrict ==
    ASSUME NEW n \in Nat, NEW p \in [1 .. n -> {0, 1}], NEW q \in [1 .. n -> {0, 1}]
    PROVE  ~Before(p, p) /\ ~(Before(p, q) /\ Before(q, p))
<1>1. Len(p) = n /\ Len(q) = n
  BY BitsFacts
<1> QED
  BY <1>1 DEF Before

LEMMA AfterFacts ==
    ASSUME NEW S, NEW p, NEW q \in After(S, p), q # End
    PROVE  q \in S /\ Before(p, q)
BY DEF After, FirstOf

LEMMA FirstFacts ==
    ASSUME NEW S, NEW q \in FirstOf(S), q # End
    PROVE  q \in S
BY DEF FirstOf

LEMMA LongestFacts ==
    ASSUME NEW keys, NEW n \in Longest(keys), keys \subseteq 0 .. Width
    PROVE  n \in -1 .. Width
BY DEF Longest

-----------------------------------------------------------------------------
(* The steps.                                                              *)

LEMMA InitIInv == Init => IInv
BY DEF Init, IInv, TypeOK, CoverageKept, Covered

(* Steps that only move the iterators.                                     *)
LEMMA MoveIInv ==
    ASSUME IInv, NEW keys, keys \subseteq 0 .. Width, AtLevel(Longest(keys)),
           phase' \in {"idle", "swallow", "combine"}, UNCHANGED <<prefixes, lengths, inserted>>
    PROVE  IInv'
<1>1. level' \in Longest(keys) /\ cur' \in FirstOf(OfLength(prefixes, level'))
  BY DEF AtLevel
<1>2. level' \in -1 .. Width
  BY <1>1, LongestFacts
<1>3. cur' \in OfLength(prefixes, level') \cup {End}
  BY <1>1, FirstFacts
<1> QED
  BY <1>2, <1>3 DEF IInv, TypeOK, CoverageKept, OfLength

LEMMA InsertIInv ==
    ASSUME IInv, NEW p \in Prefixes, Insert(p)
    PROVE  IInv'
<1>1. Len(p) \in 0 .. Width
  BY PrefixFacts
<1>2. TypeOK'
  BY <1>1 DEF IInv, TypeOK, Insert, OfLength
<1>3. CoverageKept'
  BY DEF IInv, CoverageKept, Covered, Insert
<1> QED
  BY <1>2, <1>3 DEF IInv

(* The element an inner iterator is at.                                    *)
LEMMA CurrentFacts ==
    ASSUME TypeOK, cur # End
    PROVE  /\ cur \in prefixes /\ cur \in Prefixes
           /\ Len(cur) = level /\ level \in 0 .. Width
BY PrefixFacts DEF TypeOK, OfLength

LEMMA NextFacts ==
    ASSUME TypeOK, cur # End, NEW nxt \in After(OfLength(prefixes, level), cur), nxt # End
    PROVE  /\ nxt \in prefixes /\ nxt \in Prefixes /\ Len(nxt) = level
           /\ nxt # cur
           /\ Before(cur, nxt) /\ ~Before(nxt, cur) /\ ~Before(nxt, nxt)
<1>1. nxt \in OfLength(prefixes, level) /\ Before(cur, nxt)
  BY AfterFacts
<1>2. nxt \in prefixes /\ nxt \in Prefixes /\ Len(nxt) = level
  BY <1>1 DEF OfLength, TypeOK
<1>3. cur \in [1 .. level -> {0, 1}] /\ nxt \in [1 .. level -> {0, 1}] /\ level \in Nat
  BY <1>2, CurrentFacts, PrefixFacts
<1>4. ~Before(cur, cur) /\ ~Before(nxt, nxt) /\ ~Before(nxt, cur)
  BY <1>1, <1>3, BeforeStrict
<1> QED
  BY <1>1, <1>2, <1>4

LEMMA SwallowIInv ==
    ASSUME IInv, SwallowSpecific
    PROVE  IInv'
<1>1. TypeOK /\ CoverageKept /\ cur # End
  BY DEF IInv, SwallowSpecific
<1>2. cur \in prefixes /\ cur \in Prefixes /\ Len(cur) = level /\ level \in 0 .. Width
  BY <1>1, CurrentFacts
<1>3. cur' \in OfLength(prefixes, level) \cup {End} /\ cur' # cur
  <2>1. cur' \in After(OfLength(prefixes, level), cur)
    BY DEF SwallowSpecific
  <2>2. CASE cur' = End
    BY <2>2, <1>1
  <2>3. CASE cur' # End
    BY <2>1, <2>3, <1>1, NextFacts DEF OfLength
  <2> QED
    BY <2>2, <2>3
<1>4. TypeOK'
  BY <1>1, <1>3 DEF TypeOK, SwallowSpecific, OfLength
<1>5. CoverageKept'
  <2>1. CASE ~HaveWider(cur)
    BY <2>1, <1>1 DEF SwallowSpecific, CoverageKept
  <2>2. CASE HaveWider(cur)
    <3>1. PICK n \in lengths : n < Len(cur) /\ Truncate(cur, n) \in prefixes
      BY <2>2 DEF HaveWider
    <3>2. n \in 0 .. Len(cur)
      BY <3>1, <1>1, <1>2 DEF TypeOK
    <3>3. Truncate(cur, n) # cur
      BY <3>1, <3>2, <1>2, TruncateFacts
    <3>4. prefixes' = prefixes \ {cur} /\ inserted' = inserted
      BY <2>2 DEF SwallowSpecific
    <3>5. \A a \in Addresses : Contains(cur, a) => Contains(Truncate(cur, n), a)
      BY <3>2, <1>2, WiderContains
    <3>6. \A a \in Addresses : Covered(prefixes', a) <=> Covered(prefixes, a)
      BY <3>1, <3>3, <3>4, <3>5 DEF Covered
    <3> QED
      BY <3>4, <3>6, <1>1 DEF CoverageKept
  <2> QED
    BY <2>1, <2>2
<1> QED
  BY <1>4, <1>5 DEF IInv

LEMMA CombineIInv ==
    ASSUME IInv, CombineHalves
    PROVE  IInv'
<1>1. TypeOK /\ CoverageKept /\ cur # End
  BY DEF IInv, CombineHalves
<1>2. cur \in prefixes /\ cur \in Prefixes /\ Len(cur) = level /\ level \in 0 .. Width
  BY <1>1, CurrentFacts
<1> DEFINE aggpfx == Truncate(cur, level - 1)
<1>3. PICK nxt \in After(OfLength(prefixes, level), cur) :
           /\ nxt # End
           /\ Halves(cur, nxt)
           /\ prefixes' = (prefixes \ {cur, nxt}) \cup {aggpfx}
           /\ lengths' = lengths \cup {level - 1}
           /\ cur' \in After(OfLength(prefixes, level), nxt)
  BY DEF CombineHalves
<1>4. /\ nxt \in prefixes /\ nxt \in Prefixes /\ Len(nxt) = level
      /\ ~Before(nxt, cur) /\ ~Before(nxt, nxt)
  BY <1>1, <1>3, NextFacts
<1>5. level - 1 \in 0 .. Len(cur) /\ level - 1 \in 0 .. Width
  BY <1>2, <1>3 DEF Halves
<1>6. aggpfx \in Prefixes /\ Len(aggpfx) = level - 1
  BY <1>2, <1>5, TruncateFacts
<1>7. UNCHANGED <<phase, level, inserted>>
  BY DEF CombineHalves
<1> HIDE DEF aggpfx
<1>8. cur' \in OfLength(prefixes', level) \cup {End}
  <2>1. CASE cur' # End
    <3>1. cur' \in OfLength(prefixes, level) /\ Before(nxt, cur')
      BY <1>3, <2>1, AfterFacts
    <3>2. cur' # cur /\ cur' # nxt
      BY <3>1, <1>4
    <3> QED
      BY <3>1, <3>2, <1>3 DEF OfLength
  <2> QED
    BY <2>1
<1>9. TypeOK'
  BY <1>1, <1>3, <1>5, <1>6, <1>7, <1>8 DEF TypeOK
<1>10. CoverageKept'
  <2>1. \A a \in Addresses : Contains(aggpfx, a) <=> Contains(cur, a) \/ Contains(nxt, a)
    BY <1>2, <1>3, <1>4, HalvesContain DEF aggpfx
  <2>2. \A a \in Addresses : Covered(prefixes', a) <=> Covered(prefixes, a)
    BY <2>1, <1>2, <1>3, <1>4 DEF Covered
  <2> QED
    BY <2>2, <1>1, <1>7 DEF CoverageKept
<1> QED
  BY <1>9, <1>10 DEF IInv

LEMMA AdvanceIInv ==
    ASSUME IInv, CombineAdvance
    PROVE  IInv'
<1>1. TypeOK /\ cur # End
  BY DEF IInv, CombineAdvance
<1>2. PICK nxt \in After(OfLength(prefixes, level), cur) : nxt # End /\ cur' = nxt
  BY DEF CombineAdvance
<1>3. nxt \in OfLength(prefixes, level)
  BY <1>1, <1>2, NextFacts DEF OfLength
<1> QED
  BY <1>2, <1>3 DEF CombineAdvance, IInv, TypeOK, CoverageKept

LEMMA EraseEmptyIInv ==
    ASSUME IInv, EraseEmpty
    PROVE  IInv'
<1>1. \A p \in prefixes : Len(p) \in 0 .. Width
  BY PrefixFacts DEF IInv, TypeOK
<1> QED
  BY <1>1 DEF EraseEmpty, IInv, TypeOK, CoverageKept, OfLength

LEMMA NextIInv ==
    ASSUME IInv, [Next]_vars
    PROVE  IInv'
<1>1. lengths \subseteq 0 .. Width
  BY DEF IInv, TypeOK
<1>2. {k \in lengths : k < level} \subseteq 0 .. Width
  BY <1>1
<1>3. phase \in {"idle", "swallow", "combine"}
  BY DEF IInv, TypeOK
<1>4. ASSUME NEW p \in Prefixes, Insert(p) PROVE IInv'
  BY <1>4, InsertIInv
<1>5. CASE Aggregate
  BY <1>5, <1>1, MoveIInv DEF Aggregate
<1>6. CASE SwallowSpecific
  BY <1>6, SwallowIInv
<1>7. CASE SwallowNextLevel
  BY <1>7, <1>2, <1>3, MoveIInv DEF SwallowNextLevel, NextLevel
<1>8. CASE SwallowDone
  BY <1>8, <1>1, MoveIInv DEF SwallowDone
<1>9. CASE CombineHalves
  BY <1>9, CombineIInv
<1>10. CASE CombineAdvance
  BY <1>10, AdvanceIInv
<1>11. CASE CombineNextLevel
  BY <1>11, <1>2, <1>3, MoveIInv DEF CombineNextLevel, NextLevel
<1>12. CASE EraseEmpty
  BY <1>12, EraseEmptyIInv
<1>13. CASE UNCHANGED vars
  BY <1>13 DEF vars, IInv, TypeOK, CoverageKept
<1> QED
  BY <1>4, <1>5, <1>6, <1>7, <1>8, <1>9, <1>10, <1>11, <1>12, <1>13 DEF Next, AggregateStep

LEMMA IInvInvariant == Spec => []IInv
<1>1. Init => IInv
  BY InitIInv
<1>2. IInv /\ [Next]_vars => IInv'
  BY NextIInv
<1> QED
  BY <1>1, <1>2, PTL DEF Spec

-----------------------------------------------------------------------------
(* The iterators of Aggregate stay valid and its containers well formed,   *)
(* for every width of an address.                                          *)
THEOREM AggregateTypeCorrect == Spec => []TypeOK
<1>1. IInv => TypeOK
  BY DEF IInv
<1> QED
  BY <1>1, IInvInvariant, PTL

(* Aggregate changes no address's membership, for every width of an        *)
(* address and any prefixes, at any point of its loops.                    *)
THEOREM AggregateKeepsCoverage == Spec => []CoverageKept
<1>1. IInv => CoverageKept
  BY DEF IInv
<1> QED
  BY <1>1, IInvInvariant, PTL

-----------------------------------------------------------------------------
(* Prefixes as sets of addresses.                                          *)

LEMMA ContainsOrder ==
    ASSUME NEW p \in Prefixes, NEW q \in Prefixes, NEW r \in Prefixes
    PROVE  /\ Contains(p, p)
           /\ Contains(p, q) /\ Contains(q, r) => Contains(p, r)
           /\ Contains(p, q) /\ Contains(q, p) => p = q
           /\ Contains(p, q) /\ p # q => Len(p) < Len(q)
           /\ Contains(p, r) /\ Contains(q, r) /\ Len(p) <= Len(q) => Contains(p, q)
<1>1. /\ Len(p) \in Nat /\ p \in [1 .. Len(p) -> {0, 1}]
      /\ Len(q) \in Nat /\ q \in [1 .. Len(q) -> {0, 1}]
      /\ Len(r) \in Nat /\ r \in [1 .. Len(r) -> {0, 1}]
  BY PrefixFacts
<1>2. Contains(p, p) /\ (Contains(p, q) /\ Contains(q, r) => Contains(p, r))
  BY <1>1 DEF Contains
<1>3. Contains(p, q) /\ Len(p) = Len(q) => p = q
  BY <1>1 DEF Contains
<1>4. (Contains(p, q) => Len(p) <= Len(q)) /\ (Contains(q, p) => Len(q) <= Len(p))
  BY DEF Contains
<1>5. Len(p) \in Nat /\ Len(q) \in Nat
  BY <1>1
<1>7. ASSUME Contains(p, q), Contains(q, p) PROVE p = q
  <2>1. Len(p) = Len(q)
    BY <1>4, <1>5, <1>7
  <2> QED
    BY <1>3, <1>7, <2>1
<1>8. ASSUME Contains(p, q), p # q PROVE Len(p) < Len(q)
  <2>1. Len(p) # Len(q)
    BY <1>3, <1>8
  <2> QED
    BY <1>4, <1>5, <1>8, <2>1
<1>6. Contains(p, r) /\ Contains(q, r) /\ Len(p) <= Len(q) => Contains(p, q)
  BY <1>1 DEF Contains
<1> QED
  BY <1>2, <1>6, <1>7, <1>8

LEMMA TruncateContains ==
    ASSUME NEW p \in Prefixes, NEW n \in 0 .. Len(p)
    PROVE  Contains(Truncate(p, n), p)
BY PrefixFacts, TruncateFacts DEF Contains

LEMMA ContainsTruncates ==
    ASSUME NEW p \in Prefixes, NEW q \in Prefixes, Contains(q, p)
    PROVE  q = Truncate(p, Len(q)) /\ Len(q) \in 0 .. Len(p)
<1>1. /\ Len(p) \in Nat /\ p \in [1 .. Len(p) -> {0, 1}]
      /\ Len(q) \in Nat /\ q \in [1 .. Len(q) -> {0, 1}]
  BY PrefixFacts
<1> QED
  BY <1>1 DEF Contains, Truncate

LEMMA AddressIsPrefix == Addresses \subseteq Prefixes
BY DEF Addresses, Prefixes

(* A prefix has more specific ones of each length.                         *)
LEMMA Extends ==
    ASSUME NEW p \in Prefixes, NEW n \in Len(p) .. Width
    PROVE  \E r \in [1 .. n -> {0, 1}] :
              r \in Prefixes /\ Len(r) = n /\ Contains(p, r) /\ (n > Len(p) => r[n] = 0)
<1> DEFINE r == [i \in 1 .. n |-> IF i <= Len(p) THEN p[i] ELSE 0]
<1>1. Len(p) \in Nat /\ p \in [1 .. Len(p) -> {0, 1}] /\ n \in Nat /\ n \in 0 .. Width /\ Len(p) <= n
  BY PrefixFacts
<1>2. r \in [1 .. n -> {0, 1}]
  BY <1>1
<1>3. r \in Prefixes
  BY <1>1, <1>2 DEF Prefixes
<1>4. Len(r) = n
  BY <1>1, <1>2, BitsFacts
<1>5. \A i \in 1 .. Len(p) : r[i] = p[i]
  BY <1>1
<1>6. n > Len(p) => r[n] = 0
  BY <1>1
<1> HIDE DEF r
<1>7. Contains(p, r)
  BY <1>1, <1>4, <1>5 DEF Contains
<1> QED
  BY <1>2, <1>3, <1>4, <1>6, <1>7

LEMMA ExtendsToHalves ==
    ASSUME NEW p \in Prefixes, NEW n \in Len(p) + 1 .. Width
    PROVE  \E r, q \in Prefixes :
              Len(r) = n /\ Len(q) = n /\ Contains(p, r) /\ Contains(p, q) /\ Halves(r, q)
<1>1. Len(p) \in Nat /\ n \in Nat /\ n \in 0 .. Width /\ n > Len(p) /\ n \in Len(p) .. Width
  BY PrefixFacts
<1>2. PICK r \in [1 .. n -> {0, 1}] :
          r \in Prefixes /\ Len(r) = n /\ Contains(p, r) /\ (n > Len(p) => r[n] = 0)
  BY <1>1, Extends
<1> DEFINE q == [r EXCEPT ![Len(r)] = 1]
<1>3. q \in [1 .. n -> {0, 1}] /\ \A i \in 1 .. n : i # n => q[i] = r[i]
  BY <1>1, <1>2
<1>4. q \in Prefixes /\ Len(q) = n
  BY <1>1, <1>3, BitsFacts DEF Prefixes
<1>5. Halves(r, q)
  BY <1>1, <1>2 DEF Halves
<1> HIDE DEF q
<1>6. Contains(p, q)
  BY <1>1, <1>2, <1>3, <1>4 DEF Contains
<1> QED
  BY <1>2, <1>4, <1>5, <1>6

LEMMA HasAddress ==
    ASSUME NEW p \in Prefixes
    PROVE  \E a \in Addresses : Contains(p, a)
<1>1. Width \in Len(p) .. Width
  BY PrefixFacts
<1> QED
  BY <1>1, Extends DEF Addresses

LEMMA FullNarrows ==
    ASSUME NEW S, NEW p \in Prefixes, NEW q \in Prefixes, Contains(p, q), Full(S, p)
    PROVE  Full(S, q)
BY ContainsOrder, AddressIsPrefix DEF Full

-----------------------------------------------------------------------------
LEMMA BeforeTotal ==
    ASSUME NEW n \in Nat, NEW p \in [1 .. n -> {0, 1}], NEW q \in [1 .. n -> {0, 1}], p # q
    PROVE  Before(p, q) \/ Before(q, p)
<1> DEFINE D == {i \in 1 .. n : p[i] # q[i]}
<1>1. D \subseteq Nat /\ D # {}
  OBVIOUS
<1>2. PICK i \in D : \A j \in D : i <= j
  BY <1>1, LeastElement
<1>3. \A j \in 1 .. i - 1 : j \in 1 .. n /\ j \notin D
  BY <1>2
<1>4. \A j \in 1 .. i - 1 : p[j] = q[j]
  BY <1>3
<1>5. p[i] \in {0, 1} /\ q[i] \in {0, 1} /\ p[i] # q[i] /\ i \in 1 .. n
  BY <1>2
<1>6. Len(p) = n /\ Len(q) = n
  BY BitsFacts
<1> QED
  BY <1>4, <1>5, <1>6 DEF Before

LEMMA FirstIs ==
    ASSUME NEW S, S \subseteq Prefixes, NEW c \in FirstOf(S)
    PROVE  /\ S # {} => c # End /\ c \in S
           /\ \A p \in S : ~Before(p, c)
           /\ c = End => S = {}
BY DEF FirstOf

LEMMA LongestIs ==
    ASSUME NEW keys, keys \subseteq 0 .. Width, NEW n \in Longest(keys)
    PROVE  /\ \A k \in keys : k <= n
           /\ keys # {} => n \in keys
           /\ keys = {} => n = -1
BY DEF Longest

(* No prefix lies between two halves.                                      *)
LEMMA HalvesAdjacent ==
    ASSUME NEW p \in Prefixes, NEW q \in Prefixes, NEW r \in Prefixes,
           Halves(p, q), Len(r) = Len(p), Before(p, r), r # q
    PROVE  Before(q, r)
<1> DEFINE n == Len(p)
<1>1. /\ n \in Nat /\ n > 0 /\ p \in [1 .. n -> {0, 1}]
      /\ r \in [1 .. n -> {0, 1}] /\ q = [p EXCEPT ![n] = 1] /\ p[n] = 0
  BY PrefixFacts DEF Halves
<1>2. PICK i \in 1 .. n : p[i] < r[i] /\ \A j \in 1 .. i - 1 : p[j] = r[j]
  BY DEF Before
<1> HIDE DEF n
<1>3. q \in [1 .. n -> {0, 1}] /\ q[n] = 1 /\ \A j \in 1 .. n : j # n => q[j] = p[j]
  BY <1>1
<1>4. Len(q) = n
  BY <1>1, <1>3, BitsFacts
<1>5. p[i] = 0 /\ r[i] = 1
  <2>1. p[i] \in {0, 1} /\ r[i] \in {0, 1}
    BY <1>1
  <2> QED
    BY <1>2, <2>1
<1>6. i # n
  <2> SUFFICES ASSUME i = n PROVE r = q
    OBVIOUS
  <2>1. ASSUME NEW j \in 1 .. n PROVE r[j] = q[j]
    <3>1. CASE j = n
      BY <1>3, <1>5, <3>1
    <3>2. CASE j # n
      BY <1>1, <1>2, <1>3, <3>2
    <3> QED
      BY <3>1, <3>2
  <2> QED
    BY <1>1, <1>3, <2>1
<1>7. q[i] < r[i]
  BY <1>3, <1>5, <1>6
<1>8. ASSUME NEW j \in 1 .. i - 1 PROVE q[j] = r[j]
  <2>1. j \in 1 .. n /\ j # n
    BY <1>1
  <2> QED
    BY <1>2, <1>3, <2>1
<1> QED
  BY <1>4, <1>7, <1>8 DEF Before

LEMMA HalvesBefore ==
    ASSUME NEW p \in Prefixes, NEW q \in Prefixes, Halves(p, q)
    PROVE  Before(p, q) /\ ~Before(q, p) /\ p # q /\ Len(q) = Len(p)
<1> DEFINE n == Len(p)
<1>1. n \in Nat /\ n > 0 /\ p \in [1 .. n -> {0, 1}] /\ q = [p EXCEPT ![n] = 1] /\ p[n] = 0
  BY PrefixFacts DEF Halves
<1> HIDE DEF n
<1>2. q \in [1 .. n -> {0, 1}] /\ q[n] = 1 /\ \A j \in 1 .. n : j # n => q[j] = p[j]
  BY <1>1
<1>3. Len(q) = n /\ Len(p) = n
  BY <1>1, <1>2, BitsFacts
<1>4. n \in 1 .. n /\ \A j \in 1 .. n - 1 : j \in 1 .. n /\ j # n
  BY <1>1
<1>5. Before(p, q)
  BY <1>1, <1>2, <1>3, <1>4 DEF Before
<1> QED
  BY <1>1, <1>2, <1>3, <1>5, BeforeStrict

LEMMA HalvesShare ==
    ASSUME NEW p \in Prefixes, NEW q \in Prefixes, Halves(p, q)
    PROVE  Contains(Truncate(p, Len(p) - 1), q)
<1> DEFINE n == Len(p)
<1>1. n \in Nat /\ n > 0 /\ p \in [1 .. n -> {0, 1}] /\ q = [p EXCEPT ![n] = 1]
  BY PrefixFacts DEF Halves
<1>2. n - 1 \in 0 .. n
  BY <1>1
<1>3. Len(Truncate(p, n - 1)) = n - 1 /\ \A i \in 1 .. n - 1 : Truncate(p, n - 1)[i] = p[i]
  BY <1>2, TruncateFacts
<1>4. Len(q) = n
  BY HalvesBefore
<1> HIDE DEF n
<1>5. \A i \in 1 .. n - 1 : i \in 1 .. n /\ i # n
  BY <1>1
<1>6. \A i \in 1 .. n - 1 : q[i] = p[i]
  BY <1>1, <1>5
<1>7. n - 1 <= n
  BY <1>1
<1> QED
  BY <1>3, <1>4, <1>6, <1>7 DEF Contains, n

(* What is within a prefix is within one of its halves, or is itself.      *)
LEMMA HalvesSplit ==
    ASSUME NEW p \in Prefixes, NEW q \in Prefixes, Halves(p, q),
           NEW r \in Prefixes, Contains(Truncate(p, Len(p) - 1), r)
    PROVE  r = Truncate(p, Len(p) - 1) \/ Contains(p, r) \/ Contains(q, r)
<1> DEFINE n == Len(p)
           w == Truncate(p, n - 1)
<1>1. n \in Nat /\ n > 0 /\ p \in [1 .. n -> {0, 1}] /\ q = [p EXCEPT ![n] = 1] /\ p[n] = 0
  BY PrefixFacts DEF Halves
<1>2. n - 1 \in 0 .. n
  BY <1>1
<1>3. w \in Prefixes /\ Len(w) = n - 1 /\ \A i \in 1 .. n - 1 : w[i] = p[i]
  BY <1>2, TruncateFacts
<1>4. Len(q) = n
  BY HalvesBefore
<1> HIDE DEF n, w
<1>5. q[n] = 1 /\ \A i \in 1 .. n - 1 : q[i] = p[i]
  <2>1. n \in 1 .. n /\ \A i \in 1 .. n - 1 : i \in 1 .. n /\ i # n
    BY <1>1
  <2> QED
    BY <1>1, <2>1
<1>6. Contains(w, r)
  BY DEF w, n
<1>7. Len(r) \in Nat /\ r \in [1 .. Len(r) -> {0, 1}]
  BY PrefixFacts
<1>8. CASE r # w
  <2>1. n - 1 < Len(r)
    BY <1>3, <1>6, <1>8, ContainsOrder
  <2>2. r[n] \in {0, 1} /\ n <= Len(r)
    BY <1>1, <1>7, <2>1
  <2>3. \A i \in 1 .. n - 1 : p[i] = r[i] /\ q[i] = r[i]
    BY <1>3, <1>5, <1>6 DEF Contains
  <2>4. \A i \in 1 .. n : i = n \/ i \in 1 .. n - 1
    BY <1>1
  <2>5. CASE r[n] = 0
    BY <1>1, <2>2, <2>3, <2>4, <2>5 DEF Contains, n
  <2>6. CASE r[n] = 1
    BY <1>1, <1>4, <1>5, <2>2, <2>3, <2>4, <2>6 DEF Contains
  <2> QED
    BY <2>2, <2>5, <2>6
<1> QED
  BY <1>8 DEF w, n

-----------------------------------------------------------------------------
(* How far the loops are.                                                  *)

(* No prefix is within another.                                            *)
Antichain(S) == \A p, q \in S : Contains(q, p) => p = q

(* What SwallowSpecifics has not come to yet may have a wider prefix.      *)
SwallowInv ==
    phase = "swallow" =>
        \A p, q \in prefixes :
            Contains(q, p) /\ p # q =>
                Len(p) <= level /\ (Len(p) = level => cur # End /\ ~Before(p, cur))

(* A prefix of which all is covered is within one of the set, at the       *)
(* lengths the loop is past; the halves it has not combined are ahead.     *)
FullAreWithin(n) ==
    \A p \in Prefixes :
        Len(p) >= n /\ Full(prefixes, p) => \E q \in prefixes : Contains(q, p)

CombineInv ==
    phase = "combine" =>
        /\ Antichain(prefixes)
        /\ FullAreWithin(level)
        /\ \A p, q \in OfLength(prefixes, level) :
              Halves(p, q) => cur # End /\ ~Before(p, cur)

MInv == IInv /\ SwallowInv /\ CombineInv

LEMMA CoveredSame ==
    ASSUME CoverageKept, CoverageKept', inserted' = inserted, NEW p
    PROVE  Full(prefixes', p) <=> Full(prefixes, p)
BY DEF CoverageKept, Full

(* The outer iterator moves to the longest of the sets that are left.      *)
LEMMA LevelFacts ==
    ASSUME TypeOK, NEW keys, keys \subseteq lengths, AtLevel(Longest(keys)), UNCHANGED prefixes
    PROVE  /\ \A p \in prefixes : Len(p) \in keys => Len(p) <= level'
           /\ \A p \in prefixes : Len(p) = level' => cur' # End /\ ~Before(p, cur')
           /\ level' \in keys \cup {-1}
<1>1. keys \subseteq 0 .. Width /\ level' \in Longest(keys)
  BY DEF TypeOK, AtLevel
<1>2. OfLength(prefixes, level') \subseteq Prefixes /\ cur' \in FirstOf(OfLength(prefixes, level'))
  BY DEF TypeOK, AtLevel, OfLength
<1>3. \A p \in prefixes : Len(p) \in keys => Len(p) <= level'
  BY <1>1, LongestIs
<1>4. level' \in keys \cup {-1}
  BY <1>1, LongestIs
<1>5. ASSUME NEW p \in prefixes, Len(p) = level' PROVE cur' # End /\ ~Before(p, cur')
  <2>1. p \in OfLength(prefixes, level')
    BY <1>5 DEF OfLength
  <2> QED
    BY <1>2, <2>1, FirstIs
<1> QED
  BY <1>3, <1>4, <1>5

(* The element behind another.                                             *)
LEMMA NextElement ==
    ASSUME TypeOK, NEW c \in prefixes, NEW nxt \in After(OfLength(prefixes, level), c),
           Len(c) = level, NEW p \in prefixes, Len(p) = level, p # c, ~Before(p, c)
    PROVE  nxt # End /\ nxt \in prefixes /\ Len(nxt) = level /\ ~Before(p, nxt)
<1> DEFINE S == {q \in OfLength(prefixes, level) : Before(c, q)}
<1>1. S \subseteq Prefixes /\ nxt \in FirstOf(S)
  BY DEF TypeOK, OfLength, After
<1>2. p \in Prefixes /\ c \in Prefixes
  BY DEF TypeOK
<1>3. level \in Nat /\ p \in [1 .. level -> {0, 1}] /\ c \in [1 .. level -> {0, 1}]
  BY <1>2, PrefixFacts
<1>4. Before(c, p)
  BY <1>3, BeforeTotal
<1>5. p \in S
  BY <1>4 DEF OfLength
<1>6. nxt # End /\ nxt \in S /\ ~Before(p, nxt)
  BY <1>1, <1>5, FirstIs
<1> QED
  BY <1>6 DEF OfLength

-----------------------------------------------------------------------------
(* The first loop.                                                         *)

LEMMA SwallowStep ==
    ASSUME MInv, SwallowSpecific
    PROVE  SwallowInv'
<1>1. TypeOK /\ cur # End /\ phase = "swallow" /\ phase' = "swallow" /\ level' = level
  BY DEF MInv, IInv, SwallowSpecific
<1>2. cur \in prefixes /\ cur \in Prefixes /\ Len(cur) = level
  BY <1>1, CurrentFacts
<1>3. prefixes' = (IF HaveWider(cur) THEN prefixes \ {cur} ELSE prefixes)
      /\ cur' \in After(OfLength(prefixes, level), cur)
  BY DEF SwallowSpecific
<1>4. ASSUME NEW p \in prefixes', NEW q \in prefixes', Contains(q, p), p # q
      PROVE  Len(p) <= level /\ (Len(p) = level => cur' # End /\ ~Before(p, cur'))
  <2>1. p \in prefixes /\ q \in prefixes /\ p \in Prefixes /\ q \in Prefixes
    BY <1>1, <1>3 DEF TypeOK
  <2>2. Len(p) <= level /\ (Len(p) = level => ~Before(p, cur))
    BY <1>1, <1>4, <2>1 DEF MInv, SwallowInv
  <2>3. p # cur
    <3> SUFFICES ASSUME p = cur PROVE HaveWider(cur)
      BY <1>3
    <3>1. Len(q) < Len(cur) /\ q = Truncate(cur, Len(q))
      BY <1>4, <2>1, ContainsOrder, ContainsTruncates
    <3>2. Len(q) \in lengths
      BY <1>1, <2>1 DEF TypeOK
    <3> QED
      BY <2>1, <3>1, <3>2 DEF HaveWider
  <2> QED
    BY <1>1, <1>2, <1>3, <2>1, <2>2, <2>3, NextElement
<1> QED
  BY <1>1, <1>4 DEF SwallowInv

LEMMA AggregateStarts ==
    ASSUME MInv, Aggregate
    PROVE  SwallowInv'
<1>1. TypeOK /\ UNCHANGED prefixes /\ AtLevel(Longest(lengths))
  BY DEF MInv, IInv, Aggregate
<1>2. /\ \A p \in prefixes : Len(p) \in lengths => Len(p) <= level'
      /\ \A p \in prefixes : Len(p) = level' => cur' # End /\ ~Before(p, cur')
  BY <1>1, LevelFacts
<1> QED
  BY <1>1, <1>2 DEF SwallowInv, TypeOK

LEMMA SwallowMoves ==
    ASSUME MInv, SwallowNextLevel
    PROVE  SwallowInv'
<1> DEFINE keys == {k \in lengths : k < level}
<1>1. /\ TypeOK /\ UNCHANGED prefixes /\ AtLevel(Longest(keys)) /\ keys \subseteq lengths
      /\ phase = "swallow" /\ phase' = "swallow" /\ cur = End
  BY DEF MInv, IInv, SwallowNextLevel, NextLevel
<1>2. /\ \A p \in prefixes : Len(p) \in keys => Len(p) <= level'
      /\ \A p \in prefixes : Len(p) = level' => cur' # End /\ ~Before(p, cur')
  BY <1>1, LevelFacts
<1>3. ASSUME NEW p \in prefixes, NEW q \in prefixes, Contains(q, p), p # q
      PROVE  Len(p) \in keys
  <2>1. Len(p) <= level /\ Len(p) # level /\ Len(p) \in lengths
    BY <1>1, <1>3 DEF MInv, SwallowInv, TypeOK
  <2>2. Len(p) \in Int /\ level \in Int
    BY <1>1, PrefixFacts DEF TypeOK
  <2> QED
    BY <2>1, <2>2
<1> HIDE DEF keys
<1> QED
  BY <1>1, <1>2, <1>3 DEF SwallowInv

-----------------------------------------------------------------------------
(* The second loop.                                                        *)

LEMMA CombineStarts ==
    ASSUME MInv, SwallowDone
    PROVE  CombineInv'
<1>1. /\ TypeOK /\ UNCHANGED prefixes /\ AtLevel(Longest(lengths))
      /\ phase = "swallow" /\ level = -1
  BY DEF MInv, IInv, SwallowDone
<1>2. /\ \A p \in prefixes : Len(p) <= level'
      /\ \A p \in prefixes : Len(p) = level' => cur' # End /\ ~Before(p, cur')
      /\ level' \in lengths \cup {-1}
  BY <1>1, LevelFacts DEF TypeOK
<1>3. Antichain(prefixes)
  BY <1>1, PrefixFacts DEF Antichain, MInv, SwallowInv, TypeOK
<1>4. ASSUME NEW p \in Prefixes, Len(p) >= level', Full(prefixes, p)
      PROVE  \E q \in prefixes : Contains(q, p)
  <2>1. PICK a \in Addresses : Contains(p, a)
    BY HasAddress
  <2>2. PICK q \in prefixes : Contains(q, a)
    BY <1>4, <2>1 DEF Full, Covered
  <2>3. q \in Prefixes /\ a \in Prefixes /\ Len(q) \in Nat /\ Len(p) \in Nat
    BY <1>1, AddressIsPrefix, PrefixFacts DEF TypeOK
  <2>4. Len(q) <= Len(p)
    <3>1. Len(q) <= level' /\ level' \in Int
      BY <1>1, <1>2 DEF TypeOK
    <3> QED
      BY <1>4, <2>3, <3>1
  <2> QED
    BY <2>1, <2>2, <2>3, <2>4, ContainsOrder
<1> QED
  BY <1>1, <1>2, <1>3, <1>4 DEF CombineInv, FullAreWithin, OfLength

LEMMA AdvanceStep ==
    ASSUME MInv, CombineAdvance
    PROVE  CombineInv'
<1>1. TypeOK /\ cur # End /\ phase = "combine" /\ UNCHANGED <<prefixes, level>>
  BY DEF MInv, IInv, CombineAdvance
<1>2. cur \in prefixes /\ cur \in Prefixes /\ Len(cur) = level
  BY <1>1, CurrentFacts
<1>3. PICK nxt \in After(OfLength(prefixes, level), cur) : nxt # End /\ ~Halves(cur, nxt) /\ cur' = nxt
  BY DEF CombineAdvance
<1>4. nxt \in prefixes /\ nxt \in Prefixes /\ Len(nxt) = level /\ Before(cur, nxt)
  BY <1>1, <1>3, NextFacts
<1>5. ASSUME NEW p \in OfLength(prefixes, level), NEW q \in OfLength(prefixes, level), Halves(p, q)
      PROVE  ~Before(p, nxt)
  <2>1. p \in prefixes /\ p \in Prefixes /\ Len(p) = level /\ q \in prefixes /\ q \in Prefixes /\ Len(q) = level
    BY <1>1 DEF OfLength, TypeOK
  <2>2. ~Before(p, cur)
    BY <1>1, <1>5 DEF MInv, CombineInv
  <2>3. p # cur
    <3> SUFFICES ASSUME p = cur PROVE FALSE
      OBVIOUS
    <3>1. nxt # q
      BY <1>3, <1>5
    <3>2. Before(q, nxt)
      BY <1>2, <1>4, <1>5, <2>1, <3>1, HalvesAdjacent
    <3>3. Before(p, q)
      BY <1>5, <2>1, HalvesBefore
    <3>4. q \in {r \in OfLength(prefixes, level) : Before(cur, r)}
      BY <3>3
    <3>5. {r \in OfLength(prefixes, level) : Before(cur, r)} \subseteq Prefixes
      BY <1>1 DEF TypeOK, OfLength
    <3> QED
      BY <1>3, <3>2, <3>4, <3>5, FirstIs DEF After
  <2> QED
    BY <1>1, <1>2, <1>3, <2>1, <2>2, <2>3, NextElement
<1> QED
  BY <1>1, <1>3, <1>5 DEF MInv, CombineInv, FullAreWithin, Full, Covered, CombineAdvance

LEMMA CombineStep ==
    ASSUME MInv, CombineHalves
    PROVE  CombineInv'
<1>1. TypeOK /\ cur # End /\ phase = "combine" /\ UNCHANGED <<phase, level, inserted>>
  BY DEF MInv, IInv, CombineHalves
<1>2. cur \in prefixes /\ cur \in Prefixes /\ Len(cur) = level /\ level \in 0 .. Width
  BY <1>1, CurrentFacts
<1> DEFINE aggpfx == Truncate(cur, level - 1)
<1>3. PICK nxt \in After(OfLength(prefixes, level), cur) :
           /\ nxt # End
           /\ Halves(cur, nxt)
           /\ prefixes' = (prefixes \ {cur, nxt}) \cup {aggpfx}
           /\ cur' \in After(OfLength(prefixes, level), nxt)
  BY DEF CombineHalves
<1>4. nxt \in prefixes /\ nxt \in Prefixes /\ Len(nxt) = level
  BY <1>1, <1>3, NextFacts
<1>5. level - 1 \in 0 .. Len(cur)
  BY <1>2, <1>3 DEF Halves
<1>6. aggpfx \in Prefixes /\ Len(aggpfx) = level - 1
  BY <1>2, <1>5, TruncateFacts
<1>7. Contains(aggpfx, cur) /\ Contains(aggpfx, nxt)
  BY <1>2, <1>3, <1>4, <1>5, TruncateContains, HalvesShare
<1>8. prefixes \subseteq Prefixes /\ Antichain(prefixes) /\ FullAreWithin(level)
  BY <1>1 DEF TypeOK, MInv, CombineInv
<1>9. \A p \in Prefixes : Contains(aggpfx, p) => p = aggpfx \/ Contains(cur, p) \/ Contains(nxt, p)
  BY <1>2, <1>3, <1>4, HalvesSplit
<1> HIDE DEF aggpfx
<1>10. Antichain(prefixes')
  <2> SUFFICES ASSUME NEW p \in prefixes', NEW q \in prefixes', Contains(q, p) PROVE p = q
    BY DEF Antichain
  <2>1. CASE p = aggpfx /\ q # aggpfx
    BY <1>2, <1>3, <1>6, <1>7, <1>8, <2>1, ContainsOrder DEF Antichain
  <2>2. CASE p # aggpfx /\ q = aggpfx
    BY <1>2, <1>3, <1>4, <1>8, <1>9, <2>2 DEF Antichain
  <2>3. CASE p # aggpfx /\ q # aggpfx
    BY <1>3, <1>8, <2>3 DEF Antichain
  <2> QED
    BY <2>1, <2>2, <2>3
<1>11. FullAreWithin(level)'
  <2> SUFFICES ASSUME NEW p \in Prefixes, Len(p) >= level, Full(prefixes', p)
               PROVE  \E q \in prefixes' : Contains(q, p)
    BY <1>1 DEF FullAreWithin
  <2>1. CoverageKept /\ CoverageKept'
    BY CombineIInv DEF MInv, IInv
  <2>2. Full(prefixes, p)
    BY <1>1, <2>1, CoveredSame
  <2>3. PICK q \in prefixes : Contains(q, p)
    BY <1>8, <2>2 DEF FullAreWithin
  <2>4. CASE q \in {cur, nxt}
    BY <1>2, <1>3, <1>4, <1>6, <1>7, <2>3, <2>4, ContainsOrder
  <2>5. CASE q \notin {cur, nxt}
    BY <1>3, <2>3, <2>5
  <2> QED
    BY <2>4, <2>5
<1>12. ASSUME NEW p \in OfLength(prefixes', level), NEW q \in OfLength(prefixes', level), Halves(p, q)
       PROVE  cur' # End /\ ~Before(p, cur')
  <2>1. Len(p) = level /\ Len(q) = level /\ p # aggpfx /\ q # aggpfx
    BY <1>2, <1>6 DEF OfLength
  <2>2. p \in prefixes /\ q \in prefixes /\ p # cur /\ p # nxt
    BY <1>3, <2>1 DEF OfLength
  <2>3. ~Before(p, cur)
    BY <1>1, <1>12, <2>1, <2>2 DEF MInv, CombineInv, OfLength
  <2>4. ~Before(p, nxt)
    BY <1>1, <1>2, <1>3, <2>1, <2>2, <2>3, NextElement
  <2> QED
    BY <1>1, <1>3, <1>4, <2>1, <2>2, <2>4, NextElement
<1> QED
  BY <1>1, <1>10, <1>11, <1>12 DEF CombineInv

(* A set without halves at the level gives way to the next shorter one:    *)
(* what is full at the lengths between has both halves at the level.       *)
LEMMA CombineMoves ==
    ASSUME MInv, CombineNextLevel
    PROVE  CombineInv'
<1> DEFINE keys == {k \in lengths : k < level}
<1>1. /\ TypeOK /\ UNCHANGED prefixes /\ AtLevel(Longest(keys)) /\ keys \subseteq lengths
      /\ phase = "combine" /\ level # -1 /\ (cur # End => After(OfLength(prefixes, level), cur) = {End})
  BY DEF MInv, IInv, CombineNextLevel, NextLevel
<1>2. /\ \A p \in prefixes : Len(p) < level => Len(p) <= level'
      /\ \A p \in prefixes : Len(p) = level' => cur' # End /\ ~Before(p, cur')
      /\ level' \in keys \cup {-1}
  BY <1>1, LevelFacts DEF TypeOK
<1>3. prefixes \subseteq Prefixes /\ Antichain(prefixes) /\ FullAreWithin(level) /\ level \in 0 .. Width
  BY <1>1 DEF TypeOK, MInv, CombineInv
<1>4. level' \in Int /\ level' < level
  BY <1>1, <1>2, <1>3 DEF TypeOK
<1> HIDE DEF keys
<1>5. ASSUME NEW p \in prefixes, NEW q \in prefixes, Len(p) = level, Len(q) = level, Halves(p, q)
      PROVE  FALSE
  <2>1. p \in OfLength(prefixes, level) /\ q \in OfLength(prefixes, level)
    BY <1>5 DEF OfLength
  <2>2. cur # End /\ ~Before(p, cur)
    BY <1>1, <1>5, <2>1 DEF MInv, CombineInv
  <2>3. cur \in prefixes /\ Len(cur) = level
    BY <1>1, <2>2, CurrentFacts
  <2>4. End \in After(OfLength(prefixes, level), cur)
    BY <1>1, <2>2
  <2>5. p = cur
    BY <1>1, <1>5, <2>2, <2>3, <2>4, NextElement
  <2>6. q # cur /\ ~Before(q, cur)
    BY <1>3, <1>5, <2>5, HalvesBefore
  <2> QED
    BY <1>1, <1>5, <2>3, <2>4, <2>6, NextElement
<1>6. ASSUME NEW p \in Prefixes, Len(p) >= level', Full(prefixes, p)
      PROVE  \E q \in prefixes : Contains(q, p)
  <2>1. CASE Len(p) >= level
    BY <1>3, <1>6, <2>1 DEF FullAreWithin
  <2>2. CASE Len(p) < level
    <3>1. Len(p) \in Nat /\ level \in Len(p) + 1 .. Width
      BY <1>3, <2>2, PrefixFacts
    <3>2. PICK r, s \in Prefixes : /\ Len(r) = level /\ Len(s) = level
                                   /\ Contains(p, r) /\ Contains(p, s) /\ Halves(r, s)
      BY <3>1, ExtendsToHalves
    <3>3. PICK q1 \in prefixes : Contains(q1, r)
      BY <1>3, <1>6, <3>2, FullNarrows DEF FullAreWithin
    <3>4. PICK q2 \in prefixes : Contains(q2, s)
      BY <1>3, <1>6, <3>2, FullNarrows DEF FullAreWithin
    <3>5. ASSUME NEW q \in prefixes, NEW x \in Prefixes, Len(x) = level, Contains(p, x), Contains(q, x), q # x
          PROVE  Contains(q, p)
      <4>1. q \in Prefixes /\ Len(q) \in Nat
        BY <1>3, PrefixFacts
      <4>2. Len(q) < level
        BY <3>5, <4>1, ContainsOrder
      <4>3. Len(q) <= Len(p)
        BY <1>2, <1>4, <1>6, <3>1, <4>1, <4>2
      <4> QED
        BY <3>5, <4>1, <4>3, ContainsOrder
    <3>6. CASE q1 = r /\ q2 = s
      BY <1>5, <3>2, <3>6
    <3> QED
      BY <3>2, <3>3, <3>4, <3>5, <3>6
  <2> QED
    BY <1>3, <2>1, <2>2, PrefixFacts
<1>7. phase' = phase
  BY DEF CombineNextLevel
<1> QED
  BY <1>1, <1>2, <1>3, <1>6, <1>7 DEF CombineInv, FullAreWithin, OfLength

(* What is left when the sweep is over.                                    *)
LEMMA SweepMinimal ==
    ASSUME MInv, EraseEmpty
    PROVE  prefixes' = Minimal(inserted)
<1>1. TypeOK /\ CoverageKept /\ phase = "combine" /\ level = -1 /\ prefixes' = prefixes
  BY DEF MInv, IInv, EraseEmpty
<1>2. prefixes \subseteq Prefixes /\ Antichain(prefixes)
  BY <1>1 DEF TypeOK, MInv, CombineInv
<1>3. \A p \in Prefixes : Full(prefixes, p) => \E q \in prefixes : Contains(q, p)
  BY <1>1, PrefixFacts DEF MInv, CombineInv, FullAreWithin
<1>4. \A p \in Prefixes : Full(inserted, p) <=> Full(prefixes, p)
  BY <1>1 DEF CoverageKept, Full
<1> DEFINE up(p) == Truncate(p, Len(p) - 1)
<1>5. ASSUME NEW p \in Prefixes, p # <<>>
      PROVE  up(p) \in Prefixes /\ Contains(up(p), p) /\ up(p) # p /\ Len(up(p)) = Len(p) - 1 /\ Len(p) \in Nat
  <2>1. Len(p) \in Nat /\ p \in Seq({0, 1})
    BY PrefixFacts, BitsFacts
  <2>2. Len(p) # 0
    BY <1>5, <2>1, EmptySeq
  <2>3. Len(p) - 1 \in 0 .. Len(p)
    BY <2>1, <2>2
  <2> QED
    BY <2>1, <2>3, TruncateFacts, TruncateContains
<1>6. ASSUME NEW p \in prefixes PROVE p \in Minimal(inserted)
  <2>1. p \in Prefixes /\ Full(inserted, p)
    BY <1>2, <1>4 DEF Full, Covered
  <2>2. ASSUME p # <<>>, Full(inserted, up(p)) PROVE FALSE
    <3>1. PICK q \in prefixes : Contains(q, up(p))
      BY <1>3, <1>4, <1>5, <2>1, <2>2
    <3>2. q \in Prefixes /\ Contains(q, p)
      BY <1>2, <1>5, <2>1, <2>2, <3>1, ContainsOrder
    <3>3. q = p
      BY <1>2, <3>2 DEF Antichain
    <3> QED
      BY <1>5, <2>1, <2>2, <3>1, <3>3, ContainsOrder
  <2> QED
    BY <2>1, <2>2 DEF Minimal
<1>7. ASSUME NEW p \in Minimal(inserted) PROVE p \in prefixes
  <2>1. p \in Prefixes /\ Full(prefixes, p) /\ (p = <<>> \/ ~Full(inserted, up(p)))
    BY <1>4 DEF Minimal
  <2>2. PICK q \in prefixes : Contains(q, p)
    BY <1>3, <2>1
  <2>3. q \in Prefixes
    BY <1>2
  <2>4. CASE p = <<>>
    <3>1. Len(p) = 0 /\ Len(q) \in Nat
      BY <2>3, <2>4, EmptySeq, PrefixFacts
    <3> QED
      BY <2>1, <2>2, <2>3, <3>1, ContainsOrder
  <2>5. CASE p # <<>>
    <3> SUFFICES ASSUME q # p PROVE FALSE
      BY <2>2
    <3>1. Len(q) < Len(p) /\ Len(q) \in Nat
      BY <2>1, <2>2, <2>3, ContainsOrder, PrefixFacts
    <3>2. up(p) \in Prefixes /\ Contains(up(p), p) /\ Len(up(p)) = Len(p) - 1 /\ Len(p) \in Nat
      BY <1>5, <2>1, <2>5
    <3>3. Len(q) <= Len(up(p))
      BY <3>1, <3>2
    <3> HIDE DEF up
    <3>4. Contains(q, up(p))
      BY <2>1, <2>2, <2>3, <3>2, <3>3, ContainsOrder
    <3>5. Full(prefixes, up(p))
      BY <2>3, <3>2, <3>4, ContainsOrder, AddressIsPrefix DEF Full, Covered
    <3> QED
      BY <1>4, <2>1, <2>5, <3>2, <3>5
  <2> QED
    BY <2>4, <2>5
<1> QED
  BY <1>1, <1>6, <1>7

LEMMA NextMInv ==
    ASSUME MInv, [Next]_vars
    PROVE  MInv'
<1>1. IInv'
  BY NextIInv DEF MInv
<1>2. ASSUME NEW p \in Prefixes, Insert(p) PROVE SwallowInv' /\ CombineInv'
  BY <1>2 DEF Insert, SwallowInv, CombineInv
<1>3. CASE Aggregate
  BY <1>1, <1>3, AggregateStarts DEF Aggregate, CombineInv, MInv
<1>4. CASE SwallowSpecific
  BY <1>1, <1>4, SwallowStep DEF SwallowSpecific, CombineInv, MInv
<1>5. CASE SwallowNextLevel
  BY <1>1, <1>5, SwallowMoves DEF SwallowNextLevel, CombineInv, MInv
<1>6. CASE SwallowDone
  BY <1>1, <1>6, CombineStarts DEF SwallowDone, SwallowInv, MInv
<1>7. CASE CombineHalves
  BY <1>1, <1>7, CombineStep DEF CombineHalves, SwallowInv, MInv
<1>8. CASE CombineAdvance
  BY <1>1, <1>8, AdvanceStep DEF CombineAdvance, SwallowInv, MInv
<1>9. CASE CombineNextLevel
  BY <1>1, <1>9, CombineMoves DEF CombineNextLevel, SwallowInv, MInv
<1>10. CASE EraseEmpty
  BY <1>1, <1>10 DEF EraseEmpty, SwallowInv, CombineInv, MInv
<1>11. CASE UNCHANGED vars
  BY <1>1, <1>11 DEF vars, MInv, SwallowInv, CombineInv, Antichain, FullAreWithin, OfLength, Full, Covered
<1> QED
  BY <1>1, <1>2, <1>3, <1>4, <1>5, <1>6, <1>7, <1>8, <1>9, <1>10, <1>11 DEF Next, AggregateStep, MInv

LEMMA MInvInvariant == Spec => []MInv
<1>1. Init => MInv
  BY InitIInv DEF Init, MInv, SwallowInv, CombineInv
<1>2. MInv /\ [Next]_vars => MInv'
  BY NextMInv
<1> QED
  BY <1>1, <1>2, PTL DEF Spec

(* One sweep leaves the smallest set that covers the same addresses, for   *)
(* every width of an address: the widest prefixes that are all covered.    *)
THEOREM AggregateLeavesMinimal == Spec => AggregateMinimal
<1>1. MInv /\ [Next]_vars => [EraseEmpty => prefixes' = Minimal(inserted)]_vars
  BY SweepMinimal
<1> QED
  BY <1>1, MInvInvariant, PTL DEF Spec, AggregateMinimal
=============================================================================
