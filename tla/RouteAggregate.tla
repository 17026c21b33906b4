--------------------------- MODULE RouteAggregate ---------------------------
(***************************************************************************)
(* CaidaV4Routeviews::ASMapValue, the prefixes announced by one set of     *)
(* autonomous systems: Insert, and Aggregate with its SwallowSpecifics,    *)
(* which mkcurtaindb and the query tools run over every such set.  (The    *)
(* class of CaidaV6Routeviews is the same over 128 bits.)                  *)
(*                                                                         *)
(* Aggregate is modelled loop iteration by loop iteration, because its     *)
(* loops change the containers under their own iterators.                  *)
(***************************************************************************)
EXTENDS Integers, Sequences, FiniteSets

CONSTANTS Width,      \* bits of an address: 32 or 128 in the code
          MaxRoutes,  \* bound: the prefixes inserted
          End         \* the end iterator of a set

Prefixes == UNION {[1 .. n -> {0, 1}] : n \in 0 .. Width}
Addresses == [1 .. Width -> {0, 1}]

ASSUME RouteAssumption ==
    /\ Width \in Nat
    /\ MaxRoutes \in Nat
    /\ End \notin Prefixes

VARIABLES
    prefixes,  \* the elements of all the sets in _prefixSets
    lengths,   \* the keys of _prefixSets, which may have empty sets
    phase,     \* "idle", or the loop of Aggregate that executes
    level,     \* the key its outer iterator is at, -1 behind the last
    cur,       \* curit, its inner iterator
    inserted   \* all prefixes ever inserted, for the properties

vars == <<prefixes, lengths, phase, level, cur, inserted>>

Contains(p, q) == Len(p) <= Len(q) /\ \A i \in 1 .. Len(p) : p[i] = q[i]
Truncate(p, n) == [i \in 1 .. n |-> p[i]]
Covered(S, a) == \E p \in S : Contains(p, a)

-----------------------------------------------------------------------------
(* The order of a std::set of prefixes of one length.                      *)
Before(p, q) ==
    \E i \in 1 .. Len(p) : p[i] < q[i] /\ \A j \in 1 .. i - 1 : p[j] = q[j]

OfLength(S, n) == {p \in S : Len(p) = n}

(* The iterators at the first of S, and behind p.  Each has one element.   *)
FirstOf(S) == IF S = {} THEN {End} ELSE {p \in S : \A q \in S : ~Before(q, p)}
After(S, p) == FirstOf({q \in S : Before(p, q)})

(* The outer iterator runs from the longest prefixes to the shortest.      *)
Longest(keys) == IF keys = {} THEN {-1} ELSE {n \in keys : \A k \in keys : k <= n}

AtLevel(levels) ==
    /\ level' \in levels
    /\ cur' \in FirstOf(OfLength(prefixes, level'))

NextLevel == AtLevel(Longest({k \in lengths : k < level}))

-----------------------------------------------------------------------------
Iterator == Prefixes \cup {End}

(* An iterator is never used after its element was erased.                 *)
TypeOK ==
    /\ prefixes \subseteq Prefixes
    /\ lengths \subseteq 0 .. Width
    /\ \A p \in prefixes : Len(p) \in lengths
    /\ phase \in {"idle", "swallow", "combine"}
    /\ level \in -1 .. Width
    /\ cur \in OfLength(prefixes, level) \cup {End}
    /\ inserted \subseteq Prefixes

Init ==
    /\ prefixes = {}
    /\ lengths = {}
    /\ phase = "idle"
    /\ level = -1
    /\ cur = End
    /\ inserted = {}

Insert(p) ==
    /\ phase = "idle"
    /\ Cardinality(inserted) < MaxRoutes
    /\ prefixes' = prefixes \cup {p}
    /\ lengths' = lengths \cup {Len(p)}
    /\ inserted' = inserted \cup {p}
    /\ UNCHANGED <<phase, level, cur>>

(* Aggregate begins with SwallowSpecifics.                                 *)
Aggregate ==
    /\ phase = "idle"
    /\ phase' = "swallow"
    /\ AtLevel(Longest(lengths))
    /\ UNCHANGED <<prefixes, lengths, inserted>>

\* Mutant: the length of the prefix itself is not passed over.
HaveWider_Itself(p) == \E n \in lengths : n <= Len(p) /\ Truncate(p, n) \in prefixes

HaveWider(p) == \E n \in lengths : n < Len(p) /\ Truncate(p, n) \in prefixes

\* Mutant: the iterator erase returns is not taken.
SwallowSpecific_Dangling ==
    /\ phase = "swallow"
    /\ cur # End
    /\ prefixes' = IF HaveWider(cur) THEN prefixes \ {cur} ELSE prefixes
    /\ cur' \in IF HaveWider(cur) THEN {cur} ELSE After(OfLength(prefixes, level), cur)
    /\ UNCHANGED <<lengths, phase, level, inserted>>

SwallowSpecific ==
    /\ phase = "swallow"
    /\ cur # End
    /\ prefixes' = IF HaveWider(cur) THEN prefixes \ {cur} ELSE prefixes
    /\ cur' \in After(OfLength(prefixes, level), cur)
    /\ UNCHANGED <<lengths, phase, level, inserted>>

SwallowNextLevel ==
    /\ phase = "swallow"
    /\ level # -1 /\ cur = End
    /\ NextLevel
    /\ UNCHANGED <<prefixes, lengths, phase, inserted>>

SwallowDone ==
    /\ phase = "swallow"
    /\ level = -1
    /\ phase' = "combine"
    /\ AtLevel(Longest(lengths))
    /\ UNCHANGED <<prefixes, lengths, inserted>>

(* The halves of a prefix: a last bit of 0, and ++ of it is the next.      *)
Halves(p, q) == Len(p) > 0 /\ p[Len(p)] = 0 /\ q = [p EXCEPT ![Len(p)] = 1]

\* Mutant: the inner loop ends after the first pair.
CombineHalves_Break ==
    /\ phase = "combine"
    /\ cur # End
    /\ \E nxt \in After(OfLength(prefixes, level), cur) \ {End} :
          LET aggpfx == Truncate(cur, level - 1)
          IN  /\ Halves(cur, nxt)
              /\ prefixes' = (prefixes \ {cur, nxt}) \cup {aggpfx}
              /\ lengths' = lengths \cup {level - 1}
              /\ cur' = End
    /\ UNCHANGED <<phase, level, inserted>>

(* Two halves are replaced by the prefix they make up, in the set that the *)
(* outer iterator comes to next; the inner one goes on behind them.        *)
CombineHalves ==
    /\ phase = "combine"
    /\ cur # End
    /\ \E nxt \in After(OfLength(prefixes, level), cur) \ {End} :
          LET aggpfx == Truncate(cur, level - 1)
          IN  /\ Halves(cur, nxt)
              /\ prefixes' = (prefixes \ {cur, nxt}) \cup {aggpfx}
              /\ lengths' = lengths \cup {level - 1}
              /\ cur' \in After(OfLength(prefixes, level), nxt)
    /\ UNCHANGED <<phase, level, inserted>>

CombineAdvance ==
    /\ phase = "combine"
    /\ cur # End
    /\ \E nxt \in After(OfLength(prefixes, level), cur) \ {End} :
          ~Halves(cur, nxt) /\ cur' = nxt
    /\ UNCHANGED <<prefixes, lengths, phase, level, inserted>>

\* Mutant: the outer iterator stays when a set has less than two elements.
CombineNextLevel_LargeSets ==
    /\ phase = "combine"
    /\ level # -1
    /\ Cardinality(OfLength(prefixes, level)) > 1
    /\ cur # End => After(OfLength(prefixes, level), cur) = {End}
    /\ NextLevel
    /\ UNCHANGED <<prefixes, lengths, phase, inserted>>

CombineNextLevel ==
    /\ phase = "combine"
    /\ level # -1
    /\ cur # End => After(OfLength(prefixes, level), cur) = {End}
    /\ NextLevel
    /\ UNCHANGED <<prefixes, lengths, phase, inserted>>

(* The last loop erases the sets that have become empty.                   *)
EraseEmpty ==
    /\ phase = "combine"
    /\ level = -1
    /\ lengths' = {Len(p) : p \in prefixes}
    /\ phase' = "idle"
    /\ UNCHANGED <<prefixes, level, cur, inserted>>

AggregateStep ==
    \/ SwallowSpecific \/ SwallowNextLevel \/ SwallowDone
    \/ CombineHalves \/ CombineAdvance \/ CombineNextLevel \/ EraseEmpty

Next ==
    \/ \E p \in Prefixes : Insert(p)
    \/ Aggregate
    \/ AggregateStep

Spec == Init /\ [][Next]_vars

(* A call of Aggregate runs on; nobody has to insert or aggregate.         *)
FairSpec == Spec /\ WF_vars(AggregateStep)

-----------------------------------------------------------------------------
(* No address is lost and none is gained, at any step of Aggregate: an     *)
(* address belongs to the ASes exactly if an inserted prefix covers it.    *)
CoverageKept ==
    \A a \in Addresses : Covered(prefixes, a) <=> Covered(inserted, a)

(* The widest prefixes whose addresses all are covered.                    *)
Full(S, p) == \A a \in Addresses : Contains(p, a) => Covered(S, a)
Minimal(S) ==
    {p \in Prefixes : Full(S, p) /\ (p = <<>> \/ ~Full(S, Truncate(p, Len(p) - 1)))}

(* One sweep from the longest prefixes to the shortest is enough: what     *)
(* Aggregate leaves is the smallest set that covers the same addresses.    *)
AggregateMinimal ==
    [][EraseEmpty => prefixes' = Minimal(inserted)]_vars

(* Aggregate ends, although it inserts into the map it walks.              *)
AggregateReturns == phase # "idle" ~> phase = "idle"
=============================================================================
