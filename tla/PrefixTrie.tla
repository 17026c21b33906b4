----------------------------- MODULE PrefixTrie -----------------------------
(***************************************************************************)
(* The objects of class Ipv4Net2AS, and what mccurtaind and the tools do   *)
(* with them: the operations of module Trie, in any order.                 *)
(***************************************************************************)
EXTENDS Trie

CONSTANTS Tries,       \* the objects
          MaxEntries   \* bound: the entries of an object

ASSUME BoundAssumption == MaxEntries \in Nat

VARIABLES trie,    \* _root, _size and the nodes of each object
          copied,  \* the object's nodes were made by copyNode
          ret      \* what the last operation returned, or its name

trieVars == <<trie, copied, ret>>

-----------------------------------------------------------------------------
TypeOK ==
    /\ \A o \in Tries :
          /\ trie[o].root \in DOMAIN trie[o].node \cup {Nil}
          /\ DOMAIN trie[o].node \subseteq Prefixes
          /\ \A n \in DOMAIN trie[o].node : trie[o].node[n] \in Node
          /\ trie[o].size \in 0 .. MaxEntries
    /\ copied \in [Tries -> BOOLEAN]
    /\ ret \in {"inserted", "present", "erased", "absent",
                "index", "clear", "copy", "move", "aggregate",
                "reloaded", "unwritten", "unread"}

Init ==
    /\ trie = [o \in Tries |-> EmptyTrie]
    /\ copied = [o \in Tries |-> FALSE]
    /\ ret = "clear"

Room(o, p) == trie[o].size < MaxEntries \/ p \in ValueNodes(trie[o].node)

Insert(o, p, v) ==
    /\ Room(o, p)
    /\ trie' = [trie EXCEPT ![o] = AddNode(@, p, v)]
    /\ ret' = IF trie'[o].size > trie[o].size THEN "inserted" ELSE "present"
    /\ UNCHANGED copied

(* operator[] and insert(as) on the set it returns, as Load does. *)
Index(o, p, as) ==
    /\ Room(o, p)
    /\ trie' = [trie EXCEPT ![o] = AddOrigins(@, p, {as})]
    /\ ret' = "index"
    /\ UNCHANGED copied

Erase(o, p) ==
    /\ trie' = [trie EXCEPT ![o] = Remove(@, p)]
    /\ ret' = IF trie'[o].size < trie[o].size THEN "erased" ELSE "absent"
    /\ UNCHANGED copied

Clear(o) ==
    /\ trie' = [trie EXCEPT ![o] = Cleared(@)]
    /\ copied' = [copied EXCEPT ![o] = FALSE]
    /\ ret' = "clear"

(* An object that is assigned to itself is left alone. *)
Copy(o, src) ==
    /\ ret' = "copy"
    /\ \/ o = src /\ UNCHANGED <<trie, copied>>
       \/ /\ o # src
          /\ trie' = [trie EXCEPT ![o] = CopyNodes(trie[src])]
          /\ copied' = [copied EXCEPT ![o] = trie[src].root # Nil]

Move(o, src) ==
    /\ ret' = "move"
    /\ \/ o = src /\ UNCHANGED <<trie, copied>>
       \/ /\ o # src
          /\ trie' = [trie EXCEPT ![o] = trie[src], ![src] = EmptyTrie]
          /\ copied' = [copied EXCEPT ![o] = copied[src], ![src] = FALSE]

Aggregate(o) ==
    /\ trie' = [trie EXCEPT ![o] = Aggregated(@)]
    /\ ret' = "aggregate"
    /\ UNCHANGED copied

(* A trie is written to a file, of which so much reaches the disk, and the *)
(* file is read into the same object or another.                           *)
Reload(o, src, form, room) ==
    LET f == Contents(trie[src])
        r == ReadBack(form, trie[o], SubSeq(f, 1, IF room < Len(f) THEN room ELSE Len(f)))
    IN  /\ trie' = [trie EXCEPT ![o] = r.trie]
        /\ copied' = [copied EXCEPT ![o] = @ /\ r.trie = trie[o]]
        /\ ret' = IF ~Written(form, f, room) THEN "unwritten"
                  ELSE IF r.good THEN "reloaded" ELSE "unread"

Next ==
    \E o \in Tries :
        \/ \E p \in Prefixes, v \in SUBSET ASes \ {{}} : Insert(o, p, v)
        \/ \E p \in Prefixes, as \in ASes : Index(o, p, as)
        \/ \E p \in Prefixes : Erase(o, p)
        \/ Clear(o) \/ Aggregate(o)
        \/ \E src \in Tries : Copy(o, src) \/ Move(o, src)
        \/ \E src \in Tries, form \in Forms, room \in 0 .. MaxEntries + 1 :
              Reload(o, src, form, room)

Spec == Init /\ [][Next]_trieVars

-----------------------------------------------------------------------------
(* The nodes of every object are such a tree: path compression and right   *)
(* _parent pointers, after any sequence of its operations.                 *)
WellFormed ==
    \A o \in Tries :
        /\ KidsExtend(trie[o]) /\ AllHang(trie[o])
        /\ ~copied[o] => ParentsReverse(trie[o])

(* _size is what size() returns and what a file of the trie announces.     *)
SizeCountsEntries ==
    \A o \in Tries : trie[o].size = Cardinality(ValueNodes(trie[o].node))

(* A loop over the entries visits all of them in address order; backwards, *)
(* in the reverse order.                                                   *)
TraversalSorted ==
    \A o \in Tries : ~copied[o] =>
        /\ Sorts(Forward(trie[o]), ValueNodes(trie[o].node))
        /\ Backward(trie[o]) = Ext!Reverse(Forward(trie[o]))

(* The lookups find what a search of all the entries finds.                *)
LookupsAgree ==
    \A o \in Tries, p \in Prefixes :
        LET covering == {q \in ValueNodes(trie[o].node) : Contains(q, p)}
            longest  == FindLongest(trie[o], p)
        IN  /\ Sorts(FindMatches(trie[o], p), covering)
            /\ Sorts(FindWider(trie[o], p), covering \ {p})
            /\ Find(trie[o], p) = IF p \in covering THEN p ELSE Nil
            /\ IF covering = {} THEN longest = Nil
               ELSE longest \in covering /\ \A q \in covering : Len(q) <= Len(longest)

(* Aggregate leaves no two halves of a prefix with the same origins,       *)
(* although it erases and inserts under its own iterator.  (That iterator  *)
(* does not reach all copied nodes.)                                       *)
AggregateCombinesAll ==
    [][\A o \in Tries : ret' = "aggregate" /\ Aggregate(o) /\ ~copied[o] =>
          \A p, q \in ValueNodes(trie'[o].node) :
              ~(/\ Len(p) = Len(q) /\ p # q /\ SubSeq(p, 1, Len(p) - 1) = SubSeq(q, 1, Len(q) - 1)
                /\ trie'[o].node[p].value = trie'[o].node[q].value)]_trieVars

(* A trie is a map, whatever shape it has; Aggregate keeps the origins of  *)
(* every address.                                                          *)
Abstract == INSTANCE OriginMap WITH map <- [o \in Tries |-> Entries(trie[o])]
ImplementsOriginMap == Abstract!MapSpec

(* What the comments on copying and on begin() say: a copy is a trie, and  *)
(* traversal produces its prefixes sorted.                                 *)
CopyTraverses ==
    \A o \in Tries : Sorts(Forward(trie[o]), ValueNodes(trie[o].node))
=============================================================================
