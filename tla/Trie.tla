-------------------------------- MODULE Trie --------------------------------
(***************************************************************************)
(* The Patricia trie of Ipv4Net2AS, from which every answer of mccurtaind  *)
(* comes: what the members of the class do to an object, and what they     *)
(* read of it.  (Ipv6Net2AS is the same code over 128 bits: Ipv6Trie.)     *)
(*                                                                         *)
(* No two nodes of a trie have the same prefix, so the prefix of a node    *)
(* stands for the pointer to it, and the nodes of an object are a function *)
(* from their prefixes.  MaskLength is Len, Bit(i) the element i + 1.      *)
(***************************************************************************)
EXTENDS Integers, Sequences, FiniteSets

Ext == INSTANCE SequencesExt
Sets == INSTANCE FiniteSetsExt

CONSTANTS Width,       \* bits of an address: 32 or 128 in the code
          Words,       \* the words it is compared in: 1 of 32 bits, or 2 of 64
          ASes,        \* AS numbers
          Nil,         \* the null pointer
          NoValue      \* the node's _hasValue is false

Prefixes == UNION {[1 .. n -> {0, 1}] : n \in 0 .. Width}
Addresses == [1 .. Width -> {0, 1}]

ASSUME TrieAssumption ==
    /\ Words \in Nat \ {0}
    /\ Width \in Nat \ {0} /\ Width % Words = 0
    /\ \A v \in SUBSET ASes : v # NoValue
    /\ \A p \in Prefixes : p # Nil

Contains(p, q) == Ext!IsPrefix(p, q)
Bit(p, i) == p[i + 1]

Pointer == Prefixes \cup {Nil}
Node == [value : {NoValue} \cup SUBSET ASes, kids : [{0, 1} -> Pointer], parent : Pointer]
NoKids == [b \in {0, 1} |-> Nil]
NewNode(v, up) == [value |-> v, kids |-> NoKids, parent |-> up]
EmptyTrie == [root |-> Nil, node |-> [p \in {} |-> NewNode(NoValue, Nil)], size |-> 0]

HasValue(h, n) == h[n].value # NoValue
ValueNodes(h) == {n \in DOMAIN h : HasValue(h, n)}
Pointers(h) == DOMAIN h \cup {Nil}
Entries(t) == [p \in ValueNodes(t.node) |-> t.node[p].value]

-----------------------------------------------------------------------------
(* addNode.                                                                *)

(* The addresses are compared word by word; a prefix has zeros behind its  *)
(* mask.                                                                   *)
NetworkBit(p, i) == IF i < Len(p) THEN Bit(p, i) ELSE 0

FirstDiffBit(p, q, maxBits) ==
    LET word(w)   == w * (Width \div Words) .. (w + 1) * (Width \div Words) - 1
        differ(w) == {i \in word(w) : NetworkBit(p, i) # NetworkBit(q, i)}
        words     == {w \in 0 .. Words - 1 : differ(w) # {}}
        bit       == Sets!Min(differ(Sets!Min(words)))
    IN  IF words # {} /\ bit < maxBits THEN bit ELSE -1

DiffBit(n, p) == FirstDiffBit(n, p, Sets!Min({Len(n), Len(p)}))

(* The descent stops at a null pointer, or at a node that is not wider     *)
(* than the new prefix or differs from it.                                 *)
AddPoint(h, root, p) ==
    LET stop[at \in [node : Pointers(h), parent : Pointers(h)]] ==
            IF at.node # Nil /\ Len(at.node) < Len(p) /\ DiffBit(at.node, p) < 0
            THEN stop[[node |-> h[at.node].kids[Bit(p, Len(at.node))], parent |-> at.node]]
            ELSE at
    IN  stop[[node |-> root, parent |-> Nil]]

AddNodes(h, new) == [q \in DOMAIN h \cup DOMAIN new |-> IF q \in DOMAIN new THEN new[q] ELSE h[q]]

(* What addNode returns replaces the pointer to the node it was called on. *)
Relink(t, up, n) ==
    IF up = Nil THEN [t EXCEPT !.root = n]
    ELSE [t EXCEPT !.node[up].kids[Bit(n, Len(up))] = n]

AddLeaf(t, up, p, v) ==
    Relink([t EXCEPT !.node = AddNodes(@, [q \in {p} |-> NewNode(v, up)])], up, p)

\* Mutant: the existing node keeps its old _parent.
AddAbove_ParentKept(t, at, up, p, v) ==
    LET new == [NewNode(v, up) EXCEPT !.kids[Bit(at, Len(p))] = at]
    IN  Relink([t EXCEPT !.node = AddNodes(@, [q \in {p} |-> new])], up, p)

AddAbove(t, at, up, p, v) ==
    LET new == [NewNode(v, up) EXCEPT !.kids[Bit(at, Len(p))] = at]
        h   == AddNodes([t.node EXCEPT ![at].parent = p], [q \in {p} |-> new])
    IN  Relink([t EXCEPT !.node = h], up, p)

(* The two prefixes diverge: a node without a value for what they share.   *)
Split(t, at, up, p, v) ==
    LET common == SubSeq(p, 1, DiffBit(at, p))
        branch == [NewNode(NoValue, up) EXCEPT !.kids[Bit(at, Len(common))] = at,
                                               !.kids[Bit(p, Len(common))] = p]
        new    == [q \in {common, p} |-> IF q = p THEN NewNode(v, common) ELSE branch]
        h      == AddNodes([t.node EXCEPT ![at].parent = common], new)
    IN  Relink([t EXCEPT !.node = h], up, common)

\* Mutant: a split counts the branching node as an entry.
AddNode_CountsBranch(t, p, v) ==
    LET stop == AddPoint(t.node, t.root, p)
        at   == stop.node
        up   == stop.parent
        grown == [t EXCEPT !.size = @ + 1]
    IN  CASE at = Nil -> AddLeaf(grown, up, p, v)
          [] at = p -> IF HasValue(t.node, p) THEN t ELSE [grown EXCEPT !.node[p].value = v]
          [] at \notin {Nil, p} /\ DiffBit(at, p) < 0 -> AddAbove(grown, at, up, p, v)
          [] OTHER -> Split([grown EXCEPT !.size = @ + 1], at, up, p, v)

\* Mutant: a branching node that becomes an entry is not counted.
AddNode_BranchUncounted(t, p, v) ==
    LET stop == AddPoint(t.node, t.root, p)
        at   == stop.node
        up   == stop.parent
        grown == [t EXCEPT !.size = @ + 1]
    IN  CASE at = Nil -> AddLeaf(grown, up, p, v)
          [] at = p -> IF HasValue(t.node, p) THEN t ELSE [t EXCEPT !.node[p].value = v]
          [] at \notin {Nil, p} /\ DiffBit(at, p) < 0 -> AddAbove(grown, at, up, p, v)
          [] OTHER -> Split(grown, at, up, p, v)

AddNode(t, p, v) ==
    LET stop == AddPoint(t.node, t.root, p)
        at   == stop.node
        up   == stop.parent
        grown == [t EXCEPT !.size = @ + 1]
    IN  CASE at = Nil -> AddLeaf(grown, up, p, v)
          [] at = p -> IF HasValue(t.node, p) THEN t ELSE [grown EXCEPT !.node[p].value = v]
          [] at \notin {Nil, p} /\ DiffBit(at, p) < 0 -> AddAbove(grown, at, up, p, v)
          [] OTHER -> Split(grown, at, up, p, v)

-----------------------------------------------------------------------------
(* removeNode and Remove.                                                  *)

(* A node without a value is deleted when it has at most one child, which  *)
(* then takes its place; its _parent is set by the caller.                 *)
CompactTo(h, n, kid) == [heap |-> [q \in DOMAIN h \ {n} |-> h[q]], node |-> kid]

Compact(h, n) ==
    LET left  == h[n].kids[0]
        right == h[n].kids[1]
    IN  IF HasValue(h, n) \/ (left # Nil /\ right # Nil)
        THEN [heap |-> h, node |-> n]
        ELSE CompactTo(h, n, IF left # Nil THEN left ELSE right)

\* Mutant: the node that takes the place of another keeps its _parent.
SetParent_Forgotten(h, n, up) == h

SetParent(h, n, up) == IF n = Nil THEN h ELSE [h EXCEPT ![n].parent = up]

(* On the way back up from the child that p is below, which r replaces.    *)
LinkRemoved(h, n, p, r) ==
    LET linked == SetParent([r.heap EXCEPT ![n].kids[Bit(p, Len(n))] = r.node], r.node, n)
    IN  IF p \in ValueNodes(h) /\ p \notin ValueNodes(r.heap)
        THEN Compact(linked, n)
        ELSE [heap |-> linked, node |-> n]

(* The nodes afterwards, and the node that takes the place of the root.    *)
RemoveNode(h, root, p) ==
    LET removed[n \in DOMAIN h] ==
            LET kid == IF Len(p) <= Len(n) THEN Nil ELSE h[n].kids[Bit(p, Len(n))]
            IN  IF HasValue(h, n) /\ n = p
                THEN Compact([h EXCEPT ![n].value = NoValue], n)
                ELSE IF kid = Nil \/ ~Contains(kid, p)
                THEN [heap |-> h, node |-> n]
                ELSE LinkRemoved(h, n, p, removed[kid])
    IN  removed[root]

Remove(t, p) ==
    IF t.root = Nil THEN t
    ELSE LET r == RemoveNode(t.node, t.root, p)
         IN  [root |-> r.node,
              node |-> SetParent(r.heap, r.node, Nil),
              size |-> IF ValueNodes(r.heap) = ValueNodes(t.node) THEN t.size ELSE t.size - 1]

-----------------------------------------------------------------------------
(* copyNode and clear.                                                     *)

(* The copies have no _parent. *)
CopyNodes(t) == [t EXCEPT !.node = [n \in DOMAIN t.node |-> [t.node[n] EXCEPT !.parent = Nil]]]

Cleared(t) == [EmptyTrie EXCEPT !.size = t.size - Cardinality(ValueNodes(t.node))]

-----------------------------------------------------------------------------
(* The iterators.                                                          *)

FirstValueNode(h, root) ==
    LET first[n \in Pointers(h)] ==
            IF n = Nil \/ HasValue(h, n) THEN n
            ELSE LET left == first[h[n].kids[0]]
                 IN  IF left # Nil THEN left ELSE first[h[n].kids[1]]
    IN  first[root]

LastValueNode(h, root) ==
    LET last[n \in Pointers(h)] ==
            IF n = Nil THEN Nil
            ELSE LET right == last[h[n].kids[1]]
                     left  == last[h[n].kids[0]]
                 IN  IF right # Nil THEN right
                     ELSE IF left # Nil THEN left
                     ELSE IF HasValue(h, n) THEN n ELSE Nil
    IN  last[root]

Climb(h, from) ==
    LET climb[n \in DOMAIN h] ==
            LET up    == h[n].parent
                right == IF h[up].kids[0] = n THEN FirstValueNode(h, h[up].kids[1]) ELSE Nil
            IN  IF up = Nil THEN Nil ELSE IF right # Nil THEN right ELSE climb[up]
    IN  climb[from]

Successor(h, n) ==
    LET below == {FirstValueNode(h, h[n].kids[b]) : b \in {0, 1}} \ {Nil}
    IN  IF below = {} THEN Climb(h, n)
        ELSE LET left == FirstValueNode(h, h[n].kids[0])
             IN  IF left # Nil THEN left ELSE FirstValueNode(h, h[n].kids[1])

Predecessor(h, node) ==
    LET before[n \in DOMAIN h] ==
            LET up == h[n].parent
            IN  IF up = Nil THEN Nil
                ELSE IF h[up].kids[1] = n /\ h[up].kids[0] # Nil THEN LastValueNode(h, h[up].kids[0])
                ELSE IF HasValue(h, up) THEN up ELSE before[up]
    IN  before[node]

(* What a loop from begin() to end(), and one from rbegin() to rend() that *)
(* ends where it began, visit.                                             *)
From(h, first) ==
    LET from[n \in Pointers(h)] == IF n = Nil THEN <<>> ELSE <<n>> \o from[Successor(h, n)]
    IN  from[first]
Forward(t) == From(t.node, FirstValueNode(t.node, t.root))

BackFrom(h, last) ==
    LET from[n \in Pointers(h)] == IF n = Nil THEN <<>> ELSE <<n>> \o from[Predecessor(h, n)]
    IN  from[last]
Backward(t) == BackFrom(t.node, LastValueNode(t.node, t.root))

-----------------------------------------------------------------------------
(* The lookups: one descent each.                                          *)

Pushed(h, n) == IF HasValue(h, n) THEN <<n>> ELSE <<>>

(* The entries met while the nodes contain p, and at the first node that   *)
(* is not shorter, which is p, those of atEnd.                             *)
Descent(t, p, atEnd) ==
    LET met[n \in Pointers(t.node)] ==
            IF n = Nil \/ ~Contains(n, p) THEN <<>>
            ELSE IF Len(n) >= Len(p) THEN atEnd
            ELSE Pushed(t.node, n) \o met[t.node[n].kids[Bit(p, Len(n))]]
    IN  met[t.root]

Matches(t, p) == Descent(t, p, IF p \in ValueNodes(t.node) THEN <<p>> ELSE <<>>)
Wider(t, p) == Descent(t, p, <<>>)

\* Mutant: the first match is kept, not the last.
LastOrEnd_First(s) == IF s = <<>> THEN Nil ELSE s[1]

LastOrEnd(s) == IF s = <<>> THEN Nil ELSE s[Len(s)]

FindMatches(t, p) == Matches(t, p)
FindWider(t, p) == Wider(t, p)
FindLongest(t, p) == LastOrEnd(Matches(t, p))
Find(t, p) == IF p \in Ext!ToSet(Matches(t, p)) THEN p ELSE Nil

\* Mutant: the ASes are not compared.
WiderCovering_AnyASes(t, p) == LastOrEnd(Wider(t, p))

(* The nearest wider entry, if it has every AS of the entry p. *)
WiderCovering(t, p) ==
    LET w == LastOrEnd(Wider(t, p))
    IN  IF w # Nil /\ t.node[p].value \subseteq t.node[w].value THEN w ELSE Nil

-----------------------------------------------------------------------------
(* operator[], and insert where the entry exists: the set gains v. *)
AddOrigins(t, p, v) == [AddNode(t, p, {}) EXCEPT !.node[p].value = @ \cup v]

(* Aggregate.                                                              *)

(* First pass: an entry goes when its nearest wider entry has all its      *)
(* ASes.  Rounds after the last entry change nothing, here and below.      *)
DropCoveredRound(s) ==
    IF s.it = Nil THEN s
    ELSE [trie |-> IF WiderCovering(s.trie, s.it) # Nil THEN Remove(s.trie, s.it) ELSE s.trie,
          it   |-> Successor(s.trie.node, s.it)]

DropCovered(t) ==
    LET entries == Cardinality(ValueNodes(t.node))
        after[k \in 0 .. entries] ==
            IF k = 0 THEN [trie |-> t, it |-> FirstValueNode(t.node, t.root)]
            ELSE DropCoveredRound(after[k - 1])
    IN  after[entries].trie

(* The order of prefixes: by network, then by length. *)
Precedes(p, q) ==
    \/ Ext!IsStrictPrefix(p, q)
    \/ \E i \in 1 .. Width : /\ i <= Len(p) /\ i <= Len(q)
                            /\ SubSeq(p, 1, i - 1) = SubSeq(q, 1, i - 1)
                            /\ p[i] < q[i]

(* The iterator goes on to the other half of the next wider prefix.        *)
Seek(h, first, other, v) ==
    LET seek[it \in Pointers(h)] ==
            IF it = Nil \/ (it # other /\ Precedes(other, it)) THEN Nil
            ELSE IF it = other /\ h[it].value = v THEN it
            ELSE seek[Successor(h, it)]
    IN  seek[first]

(* Bit(-1) of the prefix of length 0 is undefined, but either value finds  *)
(* nothing: no prefix of length 0 follows it.                              *)
FindCombinableAdjacent(t, it) ==
    IF it = <<>> \/ it[Len(it)] = 1 THEN Nil
    ELSE Seek(t.node, Successor(t.node, it), [it EXCEPT ![Len(it)] = 1], t.node[it].value)

CombineRound(s) ==
    LET t    == s.trie
        nxt  == FindCombinableAdjacent(t, s.it)
        wide == SubSeq(s.it, 1, Len(s.it) - 1)
    IN  IF s.it = Nil THEN s
        ELSE IF nxt = Nil THEN [s EXCEPT !.it = Successor(t.node, s.it)]
        ELSE [trie |-> AddOrigins(Remove(Remove(t, nxt), s.it), wide, t.node[s.it].value),
              it |-> wide, combining |-> TRUE]

(* Between two that combine there are as many rounds as there are entries, *)
(* of which each that combines leaves one less.                            *)
CombinePass(t) ==
    LET entries == Cardinality(ValueNodes(t.node))
        rounds  == entries * (entries + 1)
        after[k \in 0 .. rounds] ==
            IF k = 0
            THEN [trie |-> t, it |-> FirstValueNode(t.node, t.root), combining |-> FALSE]
            ELSE CombineRound(after[k - 1])
    IN  after[rounds]

CombinePassAgain(s) == IF s.combining THEN CombinePass(s.trie) ELSE s

CombineLoop(t) ==
    LET entries == Cardinality(ValueNodes(t.node))
        after[k \in 0 .. entries] ==
            IF k = 0 THEN [trie |-> t, combining |-> TRUE] ELSE CombinePassAgain(after[k - 1])
    IN  after[entries].trie

\* Mutant: one pass over the entries is made, not as many as combine some.
CombineAdjacents_OnePass(t) == IF t.size > 1 THEN CombinePass(t).trie ELSE t

CombineAdjacents(t) == IF t.size > 1 THEN CombineLoop(t) ELSE t

Aggregated(t) == CombineAdjacents(DropCovered(t))

-----------------------------------------------------------------------------
(* The files: the number of entries, and the entries in the order of a     *)
(* const_iterator, which walks as an iterator does.                        *)
WriteOrder(t) == Forward(t)
Contents(t) ==
    LET order == WriteOrder(t)
    IN  <<t.size>> \o [i \in DOMAIN order |-> [prefix |-> order[i], value |-> t.node[order[i]].value]]

BytesOrFailure(whole, f) == IF whole THEN Len(f) ELSE -1

(* What the writes return, when there is room for so much of the file.     *)
WriteOstream(f, room) == Len(f) <= room
WriteDescriptor(f, room) == BytesOrFailure(Len(f) <= room, f)
WriteFILE(f, room) == IF Len(f) <= room THEN 1 ELSE 0
WriteGZ(f, room) == BytesOrFailure(Len(f) <= room, f)
BZWrite(f, room) == BytesOrFailure(Len(f) <= room, f)
Save(f, room) == room > 0 /\ WriteOstream(f, room)

Written(form, f, room) ==
    CASE form = "ostream"    -> WriteOstream(f, room)
      [] form = "descriptor" -> WriteDescriptor(f, room) > 0
      [] form = "FILE"       -> WriteFILE(f, room) = 1
      [] form = "gz"         -> WriteGZ(f, room) > 0
      [] form = "bz2"        -> BZWrite(f, room) > 0
      [] form = "path"       -> Save(f, room)

(* The object is cleared, and the entries that are there are inserted.     *)
InsertAll(t, f) ==
    LET read[k \in 0 .. Len(f)] ==
            IF k <= 1 THEN Cleared(t) ELSE AddNode(read[k - 1], f[k].prefix, f[k].value)
    IN  read[Len(f)]

(* As many as were announced.                                              *)
Whole(f) == f # <<>> /\ Len(f) - 1 = f[1]

ReadIstream(t, f) == [trie |-> InsertAll(t, f), result |-> Whole(f)]
ReadDescriptor(t, f) == [trie |-> InsertAll(t, f), result |-> BytesOrFailure(Whole(f), f)]
ReadFILE(t, f) == [trie |-> InsertAll(t, f), result |-> IF Whole(f) THEN 1 ELSE 0]
ReadGZ(t, f) == [trie |-> InsertAll(t, f), result |-> BytesOrFailure(Whole(f), f)]
BZRead(t, f) == [trie |-> InsertAll(t, f), result |-> BytesOrFailure(Whole(f), f)]
Load(t, f) == IF f = <<>> THEN [trie |-> t, result |-> FALSE] ELSE ReadIstream(t, f)

ReadBack(form, t, f) ==
    LET istream == ReadIstream(t, f)  descriptor == ReadDescriptor(t, f)  FILE == ReadFILE(t, f)
        gz == ReadGZ(t, f)  bz2 == BZRead(t, f)  path == Load(t, f)
        is(r, good) == [trie |-> r.trie, good |-> good]
    IN  CASE form = "ostream"    -> is(istream, istream.result)
          [] form = "descriptor" -> is(descriptor, descriptor.result > 0)
          [] form = "FILE"       -> is(FILE, FILE.result = 1)
          [] form = "gz"         -> is(gz, gz.result > 0)
          [] form = "bz2"        -> is(bz2, bz2.result > 0)
          [] form = "path"       -> is(path, path.result)

Forms == {"ostream", "descriptor", "FILE", "gz", "bz2", "path"}

-----------------------------------------------------------------------------
(* Path compression, as the class comment promises it: a node without a    *)
(* value has two children, a child extends its node by the bit it hangs    *)
(* on, and all nodes hang on the root.  The _parent pointers are the       *)
(* children pointers reversed, except in objects with copied nodes.        *)
KidsExtend(t) ==
    \A n \in DOMAIN t.node, b \in {0, 1} :
        LET kid == t.node[n].kids[b] IN
        IF kid = Nil THEN HasValue(t.node, n)
        ELSE kid \in DOMAIN t.node /\ Ext!IsStrictPrefix(n, kid) /\ Bit(kid, Len(n)) = b

IsKid(h, n, up) == \E b \in {0, 1} : h[up].kids[b] = n

AllHang(t) ==
    /\ t.root = Nil => DOMAIN t.node = {}
    /\ \A n \in DOMAIN t.node : n = t.root \/ \E up \in DOMAIN t.node : IsKid(t.node, n, up)

ParentsReverse(t) ==
    \A n \in DOMAIN t.node :
        LET up == t.node[n].parent
        IN  IF n = t.root THEN up = Nil ELSE up \in DOMAIN t.node /\ IsKid(t.node, n, up)

(* s holds each element of S once, in the order of prefixes. *)
Sorts(s, S) ==
    /\ Ext!ToSet(s) = S
    /\ \A i, j \in DOMAIN s : i < j => Precedes(s[i], s[j])
=============================================================================
