----------------------------- MODULE OriginMap -----------------------------
(***************************************************************************)
(* What Ipv4Net2AS and Ipv6Net2AS promise: each object is a map from       *)
(* prefixes to sets of AS numbers, "modeled after" std::map.  PrefixTrie   *)
(* implements it.                                                          *)
(***************************************************************************)
EXTENDS Naturals, Sequences, FiniteSets

Ext == INSTANCE SequencesExt

CONSTANTS Width,   \* bits of an address: 32 or 128 in the code
          ASes,    \* AS numbers
          Tries    \* the objects

VARIABLES map,     \* the entries of each object
          ret      \* what the last operation returned, or its name

mapVars == <<map, ret>>

(* A prefix is the sequence of its leading bits, as many as its mask has.  *)
Prefixes == UNION {[1 .. n -> {0, 1}] : n \in 0 .. Width}
Addresses == [1 .. Width -> {0, 1}]
Covers(p, q) == Ext!IsPrefix(p, q)

NoEntries == [p \in {} |-> {}]

MapInit == map = [o \in Tries |-> NoEntries] /\ ret = "clear"

With(m, p, v) == [q \in DOMAIN m \cup {p} |-> IF q = p THEN v ELSE m[q]]
Without(m, p) == [q \in DOMAIN m \ {p} |-> m[q]]

(* The AS numbers any entry gives for an address. *)
Origins(m, a) == UNION {m[p] : p \in {q \in DOMAIN m : Covers(q, a)}}

MapInsert(o, p, v) ==
    \/ ret' = "present" /\ p \in DOMAIN map[o] /\ UNCHANGED map
    \/ ret' = "inserted" /\ p \notin DOMAIN map[o] /\ map' = [map EXCEPT ![o] = With(@, p, v)]

MapAddOrigin(o, p, as) ==
    /\ ret' = "index"
    /\ map' = [map EXCEPT ![o] = With(@, p, {as} \cup IF p \in DOMAIN @ THEN @[p] ELSE {})]

MapErase(o, p) ==
    \/ ret' = "absent" /\ p \notin DOMAIN map[o] /\ UNCHANGED map
    \/ ret' = "erased" /\ p \in DOMAIN map[o] /\ map' = [map EXCEPT ![o] = Without(@, p)]

MapClear(o) == ret' = "clear" /\ map' = [map EXCEPT ![o] = NoEntries]

MapCopy(o, src) == ret' = "copy" /\ map' = [map EXCEPT ![o] = map[src]]

MapMove(o, src) ==
    /\ ret' = "move"
    /\ map' = IF o = src THEN map ELSE [map EXCEPT ![o] = map[src], ![src] = NoEntries]

(* Aggregation may change the entries in any way that leaves every address *)
(* the AS numbers it had and does not add to the number of entries.        *)
MapAggregate(o) ==
    /\ ret' = "aggregate"
    /\ \A x \in Tries \ {o} : map'[x] = map[x]
    /\ Cardinality(DOMAIN map'[o]) <= Cardinality(DOMAIN map[o])
    /\ \A a \in Addresses : Origins(map'[o], a) = Origins(map[o], a)

(* A file that is read back gives all of the map it was written from, or   *)
(* the operation fails; then the object is what it was, or a part of that. *)
MapReload(o, src) ==
    /\ ret' \in {"reloaded", "unwritten", "unread"}
    /\ \A x \in Tries \ {o} : map'[x] = map[x]
    /\ \/ ret' = "reloaded" /\ map'[o] = map[src]
       \/ /\ ret' # "reloaded"
          /\ \/ map'[o] = map[o]
             \/ /\ DOMAIN map'[o] \subseteq DOMAIN map[src]
                /\ \A p \in DOMAIN map'[o] : map'[o][p] = map[src][p]

MapNext ==
    \E o \in Tries :
        \/ \E p \in Prefixes : \/ MapErase(o, p)
                               \/ \E as \in ASes : MapAddOrigin(o, p, as)
                               \/ \E v \in SUBSET ASes : MapInsert(o, p, v)
        \/ MapClear(o)
        \/ \E src \in Tries : MapCopy(o, src) \/ MapMove(o, src) \/ MapReload(o, src)
        \/ MapAggregate(o)

MapSpec == MapInit /\ [][MapNext]_mapVars
=============================================================================
