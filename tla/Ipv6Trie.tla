------------------------------ MODULE Ipv6Trie ------------------------------
(***************************************************************************)
(* Ipv6Net2AS: the members of Ipv4Net2AS again, in a class of its own over *)
(* addresses that are compared as two words of 64 bits (Words = 2).  What  *)
(* Trie defines for the one class is what the other does.  A 6 marks the   *)
(* members whose names PrefixTrie has for the first class.  Here objects   *)
(* are copied, moved and written to files of each other, as mccurtaind and *)
(* the tools do.                                                           *)
(***************************************************************************)
EXTENDS PrefixTrie

-----------------------------------------------------------------------------
(* The members that change an object. *)
Node6 == Node
Empty6 == EmptyTrie

addNode(t, p, v) == AddNode(t, p, v)
removeNode(t, p) == Remove(t, p)

\* Mutant: _hasValue is left to the default argument of Node.
copyNode_HasValueDefault(t) ==
    [t EXCEPT !.node = [n \in DOMAIN t.node |->
        [t.node[n] EXCEPT !.parent = Nil, !.value = IF @ = NoValue THEN {} ELSE @]]]

copyNode(t) == CopyNodes(t)
clear(t) == Cleared(t)

wider_covering(t, it) == WiderCovering(t, it)
CombineAdjacents6(t) == CombineAdjacents(t)

(* The first loop of Aggregate: erase(it) returns the iterator behind it,  *)
(* and rounds after the last entry change nothing.                         *)
EraseCoveredRound(s) ==
    IF s.it = Nil THEN s
    ELSE [trie |-> IF wider_covering(s.trie, s.it) # Nil THEN removeNode(s.trie, s.it) ELSE s.trie,
          it   |-> Successor(s.trie.node, s.it)]

EraseCovered(t) ==
    LET entries == Cardinality(ValueNodes(t.node))
        after[k \in 0 .. entries] ==
            IF k = 0 THEN [trie |-> t, it |-> FirstValueNode(t.node, t.root)]
            ELSE EraseCoveredRound(after[k - 1])
    IN  after[entries].trie

-----------------------------------------------------------------------------
(* The members that read it.                                               *)
find(t, p) == Find(t, p)

\* Mutant: the first match is kept, not the last.
find_longest_First(t, p) ==
    IF FindMatches(t, p) = <<>> THEN Nil ELSE FindMatches(t, p)[1]

find_longest(t, p) == FindLongest(t, p)
find_matches(t, p) == FindMatches(t, p)
find_wider(t, p) == FindWider(t, p)

findFirstValueNode(t) == FirstValueNode(t.node, t.root)
findLastValueNode(t) == LastValueNode(t.node, t.root)
findSuccessor(t, n) == Successor(t.node, n)
findPredecessor(t, n) == Predecessor(t.node, n)

-----------------------------------------------------------------------------
(* Files. *)
WriteOstream6(f, room) == WriteOstream(f, room)
WriteDescriptor6(f, room) == WriteDescriptor(f, room)
WriteFILE6(f, room) == WriteFILE(f, room)
WriteGZ6(f, room) == WriteGZ(f, room)
BZWrite6(f, room) == BZWrite(f, room)
Save6(f, room) == Save(f, room)

ReadIstream6(t, f) == ReadIstream(t, f)
ReadDescriptor6(t, f) == ReadDescriptor(t, f)
ReadFILE6(t, f) == ReadFILE(t, f)
ReadGZ6(t, f) == ReadGZ(t, f)
BZRead6(t, f) == BZRead(t, f)
Load6(t, f) == Load(t, f)

Written6(form, f, room) ==
    CASE form = "ostream"    -> WriteOstream6(f, room)
      [] form = "descriptor" -> WriteDescriptor6(f, room) > 0
      [] form = "FILE"       -> WriteFILE6(f, room) = 1
      [] form = "gz"         -> WriteGZ6(f, room) > 0
      [] form = "bz2"        -> BZWrite6(f, room) > 0
      [] form = "path"       -> Save6(f, room)

(* What is read, and whether the caller is told that it is all. *)
ReadBack6(form, t, f) ==
    LET as(r, good) == [trie |-> r.trie, good |-> good]
    IN  CASE form = "ostream"    -> LET r == ReadIstream6(t, f) IN as(r, r.result)
          [] form = "descriptor" -> LET r == ReadDescriptor6(t, f) IN as(r, r.result > 0)
          [] form = "FILE"       -> LET r == ReadFILE6(t, f) IN as(r, r.result = 1)
          [] form = "gz"         -> LET r == ReadGZ6(t, f) IN as(r, r.result > 0)
          [] form = "bz2"        -> LET r == BZRead6(t, f) IN as(r, r.result > 0)
          [] form = "path"       -> LET r == Load6(t, f) IN as(r, r.result)

-----------------------------------------------------------------------------
Init6 ==
    /\ trie = [o \in Tries |-> Empty6]
    /\ copied = [o \in Tries |-> FALSE]
    /\ ret = "clear"

Update(o, t, r) ==
    /\ trie' = [trie EXCEPT ![o] = t]
    /\ ret' = r

insert(o, p, v) ==
    /\ Room(o, p)
    /\ LET t == addNode(trie[o], p, v)
       IN  Update(o, t, IF t.size > trie[o].size THEN "inserted" ELSE "present")
    /\ UNCHANGED copied

Index6(o, p, as) ==
    /\ Room(o, p)
    /\ Update(o, [addNode(trie[o], p, {}) EXCEPT !.node[p].value = @ \cup {as}], "index")
    /\ UNCHANGED copied

erase(o, p) ==
    /\ LET t == removeNode(trie[o], p)
       IN  Update(o, t, IF t.size < trie[o].size THEN "erased" ELSE "absent")
    /\ UNCHANGED copied

Clear6(o) ==
    /\ Update(o, clear(trie[o]), "clear")
    /\ copied' = [copied EXCEPT ![o] = FALSE]

Copy6(o, src) ==
    \/ o = src /\ ret' = "copy" /\ UNCHANGED <<trie, copied>>
    \/ /\ o # src
       /\ Update(o, copyNode(trie[src]), "copy")
       /\ copied' = [copied EXCEPT ![o] = trie[src].root # Nil]

Move6(o, src) ==
    \/ o = src /\ ret' = "move" /\ UNCHANGED <<trie, copied>>
    \/ /\ o # src
       /\ trie' = [trie EXCEPT ![o] = trie[src], ![src] = Empty6]
       /\ copied' = [copied EXCEPT ![o] = copied[src], ![src] = FALSE]
       /\ ret' = "move"

(* The loops are those of iterators: in an object of copied nodes they end *)
(* early, and less is aggregated.                                          *)
Aggregate6(o) ==
    /\ Update(o, CombineAdjacents6(EraseCovered(trie[o])), "aggregate")
    /\ UNCHANGED copied

Reload6(o, src, form, room) ==
    LET f == Contents(trie[src])
        r == ReadBack6(form, trie[o], SubSeq(f, 1, IF room < Len(f) THEN room ELSE Len(f)))
    IN  /\ Update(o, r.trie, IF ~Written6(form, f, room) THEN "unwritten"
                             ELSE IF r.good THEN "reloaded" ELSE "unread")
        /\ copied' = [copied EXCEPT ![o] = @ /\ r.trie = trie[o]]

Next6 ==
    \E o \in Tries :
        \/ \E p \in Prefixes, v \in SUBSET ASes \ {{}} : insert(o, p, v)
        \/ \E p \in Prefixes, as \in ASes : Index6(o, p, as)
        \/ \E p \in Prefixes : erase(o, p)
        \/ Clear6(o) \/ Aggregate6(o)
        \/ \E src \in Tries : Copy6(o, src) \/ Move6(o, src)
        \/ \E src \in Tries, form \in Forms, room \in 0 .. MaxEntries + 1 :
              Reload6(o, src, form, room)

Spec6 == Init6 /\ [][Next6]_trieVars

-----------------------------------------------------------------------------
(* The first and the last of a set of prefixes in the order of addresses.  *)
First(S) == IF S = {} THEN Nil ELSE CHOOSE n \in S : \A m \in S \ {n} : Precedes(n, m)
Last(S) == IF S = {} THEN Nil ELSE CHOOSE n \in S : \A m \in S \ {n} : Precedes(m, n)

(* What a reader of an object gets, be it a copy, a moved one or read from *)
(* a file: the lookups find what a search of all the entries finds, and    *)
(* the iterators of an object that is not a copy begin at its ends and     *)
(* step to the next entry in the order of addresses, both ways.            *)
ReadersAgree ==
    \A o \in Tries :
        LET t       == trie[o]
            entries == ValueNodes(t.node)
        IN  /\ \A n \in DOMAIN t.node : t.node[n] \in Node6
            /\ \A p \in Prefixes :
                  LET covering == {q \in entries : Contains(q, p)}
                  IN  /\ Sorts(find_matches(t, p), covering)
                      /\ Sorts(find_wider(t, p), covering \ {p})
                      /\ find(t, p) = IF p \in entries THEN p ELSE Nil
                      /\ find_longest(t, p) = Last(covering)
            /\ ~copied[o] =>
                  /\ findFirstValueNode(t) = First(entries)
                  /\ findLastValueNode(t) = Last(entries)
                  /\ \A n \in entries :
                        /\ findSuccessor(t, n) = First({m \in entries : Precedes(n, m)})
                        /\ findPredecessor(t, n) = Last({m \in entries : Precedes(m, n)})
=============================================================================
