--------------------------- MODULE DatabaseProofs ---------------------------
(***************************************************************************)
(* Proof, for every number of blocks of a map, of updates and of power     *)
(* failures, that the state of the pipeline has its type and that a load   *)
(* that meets no save serves the last save, or no half of a plain file.    *)
(***************************************************************************)
EXTENDS Database, SequenceTheorems, TLAPS

USE DatabaseAssumption

-----------------------------------------------------------------------------
(* What a save writes, block by block, and what of it is on the disk.      *)
Entry(g, i) ==
    [net |-> IF i <= Blocks THEN "ipv4" ELSE "ipv6", gen |-> g,
     part |-> IF i <= Blocks THEN i ELSE i - Blocks]

PartOf(s, g) ==
    s \in Seq(Block) /\ Len(s) <= 2 * Blocks /\ \A i \in 1 .. Len(s) : s[i] = Entry(g, i)

(* The disk always has the beginning of one save; of the save that runs,   *)
(* what is pending comes next, unless the stream has failed.               *)
FileInv ==
    /\ \E g \in Generations : PartOf(file, g)
    /\ saved # 0 => saved \in Generations /\ PartOf(file, saved) /\ Len(file) = 2 * Blocks

SaveInv ==
    /\ ~Saving \/ bad => pending = <<>>
    /\ Saving => saved = 0 /\ PartOf(file \o pending, gen)
    /\ script = "save_ipv4" => ~bad /\ Len(file \o pending) = 0
    /\ script = "save_ipv6" /\ ~bad => Len(file \o pending) = Blocks
    /\ script = "close" /\ ~bad => Len(file \o pending) = 2 * Blocks

(* What has been read of a file that nobody writes are its first blocks,   *)
(* and all of them, when a map is taken for read that is not complete.     *)
ReadInv ==
    /\ daemon # "serving" => net2as = NoTables
    /\ daemon \in {"down", "load_ipv4"} => as2ip["ipv6"] = <<>>
    /\ pos = Len(as2ip["ipv4"]) + Len(as2ip["ipv6"])

LoadInv ==
    Loading /\ ~overlapped =>
        /\ ~Saving
        /\ pos <= Len(file)
        /\ \A i \in 1 .. Len(as2ip["ipv4"]) : as2ip["ipv4"][i] = file[i]
        /\ \A i \in 1 .. Len(as2ip["ipv6"]) : as2ip["ipv6"][i] = file[Blocks + i]
        /\ as2ip["ipv6"] # <<>> => Len(as2ip["ipv4"]) = Blocks
        /\ daemon # "load_ipv4" => Len(as2ip["ipv4"]) = Blocks \/ pos = Len(file)
        /\ daemon = "init" => Len(as2ip["ipv6"]) = Blocks \/ pos = Len(file)
        /\ format = "plain" /\ daemon # "load_ipv4" => Len(as2ip["ipv4"]) = Blocks
        /\ format = "plain" /\ daemon = "init" => Len(as2ip["ipv6"]) = Blocks

IInv == TypeOK /\ FileInv /\ SaveInv /\ ReadInv /\ LoadInv

-----------------------------------------------------------------------------
(* Sequences of blocks.                                                    *)

LEMMA UpToSeq ==
    ASSUME NEW S, NEW n \in Nat
    PROVE  \A s : s \in UpTo(S, n) <=> s \in Seq(S) /\ Len(s) <= n
<1>1. ASSUME NEW s \in UpTo(S, n) PROVE s \in Seq(S) /\ Len(s) <= n
  <2>1. PICK k \in 0 .. n : s \in [1 .. k -> S]
    BY DEF UpTo
  <2>2. s = [i \in 1 .. k |-> s[i]] /\ \A i \in 1 .. k : s[i] \in S
    BY <2>1
  <2>3. s \in Seq(S) /\ Len(s) = k
    BY <2>1, <2>2
  <2> QED
    BY <2>3
<1>2. ASSUME NEW s \in Seq(S), Len(s) <= n PROVE s \in UpTo(S, n)
  <2>1. Len(s) \in 0 .. n /\ s \in [1 .. Len(s) -> S]
    BY <1>2
  <2> QED
    BY <2>1 DEF UpTo
<1> QED
  BY <1>1, <1>2

LEMMA WholeFacts ==
    ASSUME NEW g \in Generations, NEW net \in Nets
    PROVE  /\ Whole(net, g) \in Seq(Block)
           /\ Len(Whole(net, g)) = Blocks
           /\ \A i \in 1 .. Blocks : Whole(net, g)[i] = [net |-> net, gen |-> g, part |-> i]
<1>1. \A i \in 1 .. Blocks : [net |-> net, gen |-> g, part |-> i] \in Block
  BY DEF Block
<1> QED
  BY <1>1 DEF Whole

LEMMA EntryFacts ==
    ASSUME NEW g \in Generations, NEW i \in 1 .. Blocks
    PROVE  /\ Entry(g, i) = [net |-> "ipv4", gen |-> g, part |-> i]
           /\ Entry(g, Blocks + i) = [net |-> "ipv6", gen |-> g, part |-> i]
<1>1. i <= Blocks /\ ~(Blocks + i <= Blocks) /\ (Blocks + i) - Blocks = i
  OBVIOUS
<1> QED
  BY <1>1 DEF Entry

(* The blocks of a map are written behind those that are there.            *)
LEMMA SaveContinues ==
    ASSUME NEW g \in Generations, NEW s, PartOf(s, g)
    PROVE  /\ Len(s) = 0 =>
                PartOf(s \o Whole("ipv4", g), g) /\ Len(s \o Whole("ipv4", g)) = Blocks
           /\ Len(s) = Blocks =>
                PartOf(s \o Whole("ipv6", g), g) /\ Len(s \o Whole("ipv6", g)) = 2 * Blocks
<1>1. s \in Seq(Block) /\ \A i \in 1 .. Len(s) : s[i] = Entry(g, i)
  BY DEF PartOf
<1> DEFINE v4 == Whole("ipv4", g)
           v6 == Whole("ipv6", g)
<1>2. /\ v4 \in Seq(Block) /\ Len(v4) = Blocks
      /\ \A i \in 1 .. Blocks : v4[i] = [net |-> "ipv4", gen |-> g, part |-> i]
      /\ v6 \in Seq(Block) /\ Len(v6) = Blocks
      /\ \A i \in 1 .. Blocks : v6[i] = [net |-> "ipv6", gen |-> g, part |-> i]
  BY WholeFacts DEF Nets
<1> HIDE DEF v4, v6
<1>3. ASSUME Len(s) = 0 PROVE PartOf(s \o v4, g) /\ Len(s \o v4) = Blocks
  <2>1. s \o v4 \in Seq(Block) /\ Len(s \o v4) = Blocks /\ \A i \in 1 .. Blocks : (s \o v4)[i] = v4[i]
    BY <1>1, <1>2, <1>3
  <2>2. ASSUME NEW i \in 1 .. Blocks PROVE (s \o v4)[i] = Entry(g, i)
    <3>1. (s \o v4)[i] = [net |-> "ipv4", gen |-> g, part |-> i]
      BY <1>2, <2>1
    <3> QED
      BY <3>1, EntryFacts
  <2>3. Blocks <= 2 * Blocks
    OBVIOUS
  <2> HIDE DEF Block
  <2> QED
    BY <2>1, <2>2, <2>3 DEF PartOf
<1>4. ASSUME Len(s) = Blocks PROVE PartOf(s \o v6, g) /\ Len(s \o v6) = 2 * Blocks
  <2>1. s \o v6 \in Seq(Block) /\ Len(s \o v6) = 2 * Blocks
    <3>1. s \o v6 \in Seq(Block) /\ Len(s \o v6) = Len(s) + Len(v6)
      BY <1>1, <1>2, ConcatProperties
    <3> QED
      BY <1>2, <1>4, <3>1
  <2>2. ASSUME NEW i \in 1 .. 2 * Blocks PROVE (s \o v6)[i] = Entry(g, i)
    <3>1. CASE i <= Blocks
      BY <1>1, <1>2, <1>4, <3>1
    <3>2. CASE ~(i <= Blocks)
      <4>1. i - Blocks \in 1 .. Blocks /\ i = Blocks + (i - Blocks)
        BY <3>2
      <4>2. (s \o v6)[i] = v6[i - Blocks]
        BY <1>1, <1>2, <1>4, <4>1
      <4>3. v6[i - Blocks] = Entry(g, Blocks + (i - Blocks))
        BY <1>2, <4>1, EntryFacts
      <4> QED
        BY <4>1, <4>2, <4>3
    <3> QED
      BY <3>1, <3>2
  <2> QED
    BY <2>1, <2>2 DEF PartOf
<1> QED
  BY <1>3, <1>4 DEF v4, v6

LEMMA PartFirst ==
    ASSUME NEW g \in Generations, NEW s, PartOf(s, g), NEW n \in 0 .. Len(s)
    PROVE  PartOf(SubSeq(s, 1, n), g) /\ Len(SubSeq(s, 1, n)) = n
<1>1. s \in Seq(Block) /\ Len(s) \in Nat
  BY DEF PartOf
<1>2. /\ SubSeq(s, 1, n) \in Seq(Block) /\ Len(SubSeq(s, 1, n)) = n
      /\ \A i \in 1 .. n : SubSeq(s, 1, n)[i] = s[i]
  BY <1>1
<1> QED
  BY <1>1, <1>2 DEF PartOf

(* What is flushed and what is left are what was on the disk or pending.   *)
LEMMA FlushFacts ==
    ASSUME NEW f \in Seq(Block), NEW t \in Seq(Block), NEW n \in 0 .. Len(t)
    PROVE  /\ f \o SubSeq(t, 1, n) \in Seq(Block)
           /\ SubSeq(t, n + 1, Len(t)) \in Seq(Block)
           /\ f \o SubSeq(t, 1, n) \o SubSeq(t, n + 1, Len(t)) = f \o t
           /\ Len(f) + n \in 0 .. Len(f \o t)
           /\ f \o SubSeq(t, 1, n) = SubSeq(f \o t, 1, Len(f) + n)
<1> DEFINE a == SubSeq(t, 1, n)
           b == SubSeq(t, n + 1, Len(t))
<1>1. a \in Seq(Block) /\ Len(a) = n /\ \A i \in 1 .. n : a[i] = t[i]
  OBVIOUS
<1>2. b \in Seq(Block) /\ Len(b) = Len(t) - n /\ \A i \in 1 .. Len(t) - n : b[i] = t[n + i]
  OBVIOUS
<1>3. Len(f) \in Nat /\ Len(t) \in Nat /\ n <= Len(t) /\ n \in Nat
  OBVIOUS
<1> HIDE DEF a, b
<1>4. f \o a \in Seq(Block) /\ Len(f \o a) = Len(f) + n
  BY <1>1
<1>5. f \o t \in Seq(Block) /\ Len(f \o t) = Len(f) + Len(t)
  OBVIOUS
<1>6. f \o a \o b \in Seq(Block) /\ Len(f \o a \o b) = Len(f) + Len(t)
  <2>1. f \o a \o b \in Seq(Block) /\ Len(f \o a \o b) = Len(f \o a) + Len(b)
    BY <1>2, <1>4, ConcatProperties
  <2> QED
    BY <1>2, <1>3, <1>4, <2>1
<1>7. ASSUME NEW i \in 1 .. Len(f) + Len(t) PROVE (f \o a \o b)[i] = (f \o t)[i]
  <2>1. CASE i <= Len(f)
    BY <1>1, <1>2, <1>3, <1>4, <2>1
  <2>2. CASE ~(i <= Len(f)) /\ i <= Len(f) + n
    <3>1. (f \o a \o b)[i] = (f \o a)[i]
      BY <1>2, <1>3, <1>4, <2>2
    <3>2. (f \o a)[i] = a[i - Len(f)] /\ i - Len(f) \in 1 .. n
      BY <1>1, <1>3, <2>2
    <3>3. (f \o t)[i] = t[i - Len(f)]
      BY <1>3, <2>2
    <3> QED
      BY <1>1, <3>1, <3>2, <3>3
  <2>3. CASE ~(i <= Len(f) + n)
    <3>1. (f \o a \o b)[i] = b[i - (Len(f) + n)] /\ i - (Len(f) + n) \in 1 .. Len(t) - n
      BY <1>2, <1>3, <1>4, <2>3
    <3>2. (f \o t)[i] = t[i - Len(f)] /\ n + (i - (Len(f) + n)) = i - Len(f)
      BY <1>3, <2>3
    <3> QED
      BY <1>2, <3>1, <3>2
  <2> QED
    BY <2>1, <2>2, <2>3
<1>8. f \o a \o b = f \o t
  BY <1>5, <1>6, <1>7, SeqEqual
<1>9. Len(f) + n \in 0 .. Len(f \o t)
  BY <1>3, <1>5
<1>10. f \o a = SubSeq(f \o t, 1, Len(f) + n)
  <2>1. /\ SubSeq(f \o t, 1, Len(f) + n) \in Seq(Block)
        /\ Len(SubSeq(f \o t, 1, Len(f) + n)) = Len(f) + n
        /\ \A i \in 1 .. Len(f) + n : SubSeq(f \o t, 1, Len(f) + n)[i] = (f \o t)[i]
    BY <1>5, <1>9
  <2>2. ASSUME NEW i \in 1 .. Len(f) + n PROVE (f \o a)[i] = (f \o t)[i]
    <3>1. CASE i <= Len(f)
      BY <1>1, <1>3, <3>1
    <3>2. CASE ~(i <= Len(f))
      <4>1. i - Len(f) \in 1 .. n
        BY <1>3, <3>2
      <4>2. (f \o a)[i] = a[i - Len(f)]
        BY <1>1, <1>3, <3>2
      <4>3. (f \o t)[i] = t[i - Len(f)]
        BY <1>3, <3>2
      <4> QED
        BY <1>1, <4>1, <4>2, <4>3
    <3> QED
      BY <3>1, <3>2
  <2> QED
    BY <1>4, <2>1, <2>2, SeqEqual
<1> QED
  BY <1>2, <1>4, <1>8, <1>9, <1>10 DEF a, b

LEMMA NoBlocks ==
    /\ <<>> \in Seq(Block) /\ Len(<<>>) = 0 /\ <<>> \o <<>> = <<>>
    /\ <<>> \in UpTo(Block, Blocks) /\ <<>> \in UpTo(Block, 2 * Blocks)
    /\ \A g : PartOf(<<>>, g)
<1>1. <<>> \in Seq(Block) /\ Len(<<>>) = 0 /\ <<>> \o <<>> = <<>>
  OBVIOUS
<1>2. Blocks \in Nat /\ 2 * Blocks \in Nat /\ 0 <= Blocks /\ 0 <= 2 * Blocks
  OBVIOUS
<1>3. <<>> \in UpTo(Block, Blocks) /\ <<>> \in UpTo(Block, 2 * Blocks)
  BY <1>1, <1>2, UpToSeq
<1>4. \A i \in 1 .. 0 : FALSE
  OBVIOUS
<1>5. \A g : PartOf(<<>>, g)
  BY <1>1, <1>2, <1>4 DEF PartOf
<1> QED
  BY <1>1, <1>3, <1>5

LEMMA SaveFlushes ==
    ASSUME NEW t \in Seq(Block), NEW g \in Generations, NEW n \in 0 .. Len(t), NEW fails \in BOOLEAN,
           file \in Seq(Block), PartOf(file \o t, g), Flush(t, n, fails)
    PROVE  /\ file' \in Seq(Block) /\ PartOf(file', g)
           /\ pending' \in Seq(Block) /\ PartOf(file' \o pending', g)
           /\ fails => pending' = <<>>
           /\ ~fails => file' \o pending' = file \o t
           /\ bad' = (bad \/ fails)
<1>1. /\ file' = file \o SubSeq(t, 1, n)
      /\ pending' = IF fails THEN <<>> ELSE SubSeq(t, n + 1, Len(t))
      /\ bad' = (bad \/ fails)
  BY DEF Flush
<1>2. file' \in Seq(Block) /\ PartOf(file', g)
  <2>1. file' = SubSeq(file \o t, 1, Len(file) + n) /\ Len(file) + n \in 0 .. Len(file \o t)
    BY <1>1, FlushFacts
  <2>2. PartOf(file', g)
    BY <2>1, PartFirst
  <2> QED
    BY <2>2 DEF PartOf
<1>3. CASE fails
  BY <1>1, <1>2, <1>3, ConcatEmptySeq, EmptySeq
<1>4. CASE ~fails
  BY <1>1, <1>2, <1>4, FlushFacts
<1> QED
  BY <1>1, <1>2, <1>3, <1>4

LEMMA PartType ==
    ASSUME NEW s \in Seq(Block), NEW t \in Seq(Block), NEW g \in Generations, PartOf(s \o t, g)
    PROVE  s \in UpTo(Block, 2 * Blocks) /\ t \in UpTo(Block, 2 * Blocks)
<1>1. Len(s \o t) = Len(s) + Len(t) /\ Len(s \o t) <= 2 * Blocks
  BY ConcatProperties DEF PartOf
<1>2. Len(s) <= 2 * Blocks /\ Len(t) <= 2 * Blocks /\ 2 * Blocks \in Nat
  BY <1>1
<1> QED
  BY <1>2, UpToSeq

LEMMA TypeFacts ==
    ASSUME TypeOK
    PROVE  /\ file \in Seq(Block) /\ pending \in Seq(Block)
           /\ \A net \in Nets : as2ip[net] \in Seq(Block) /\ Len(as2ip[net]) <= Blocks
           /\ gen \in Generations /\ format \in {"plain", "bz2", "gz"}
<1>1. file \in UpTo(Block, 2 * Blocks) /\ pending \in UpTo(Block, 2 * Blocks) /\ 2 * Blocks \in Nat
  BY DEF TypeOK
<1>2. \A net \in Nets : as2ip[net] \in UpTo(Block, Blocks)
  BY DEF TypeOK
<1>3. gen \in Generations /\ format \in {"plain", "bz2", "gz"}
  BY DEF TypeOK
<1> QED
  BY <1>1, <1>2, <1>3, UpToSeq

(* Only the plain form tells a map that was not written or read.           *)
LEMMA Results ==
    ASSUME format \in {"plain", "bz2", "gz"}, NEW ok \in BOOLEAN
    PROVE  /\ format = "plain" => Load(ok) = ok /\ Save(ok) = ok
           /\ format # "plain" => Load(ok) = TRUE /\ Save(ok) = TRUE
<1>1. AsBool(Bytes(ok)) = TRUE
  BY DEF AsBool, Bytes
<1> QED
  BY <1>1 DEF Load, Save, LoadIstream, LoadBZ2, LoadGZ, SaveOstream, SaveBZ2, SaveGZ

-----------------------------------------------------------------------------
(* The steps of the script.                                                *)

(* A step of the script leaves what the daemon has read, and a file that   *)
(* the daemon reads and nobody writes.                                     *)
LEMMA DaemonFrame ==
    ASSUME IInv, UNCHANGED <<daemonVars, format>>, overlapped => overlapped',
           Loading /\ (Saving' \/ file' # file) => overlapped'
    PROVE  ReadInv' /\ LoadInv'
<1>1. ReadInv'
  BY DEF IInv, ReadInv, daemonVars
<1>2. ASSUME Loading', ~overlapped' PROVE ~Saving' /\ file' = file /\ Loading /\ ~overlapped
  BY <1>2 DEF Loading, daemonVars
<1> QED
  BY <1>1, <1>2 DEF IInv, LoadInv, daemonVars

(* The steps that do not write.                                            *)
LEMMA ScriptIInv ==
    ASSUME IInv, Fetch \/ Populate \/ OpenOutputFails \/ KillUpdater
    PROVE  IInv'
<1>1. ~Saving' /\ pending' = <<>> /\ UNCHANGED <<file, saved, format, daemonVars, overlapped>>
  BY DEF IInv, SaveInv, Fetch, Populate, OpenOutputFails, KillUpdater, Saving
<1>2. gen' \in Generations /\ script' \in {"idle", "populate", "open", "restart"} /\ bad' = bad
  BY DEF IInv, TypeOK, Generations, Fetch, Populate, OpenOutputFails, KillUpdater
<1>3. <<>> \in UpTo(Block, 2 * Blocks)
  BY NoBlocks
<1>4. TypeOK'
  BY <1>1, <1>2, <1>3 DEF IInv, TypeOK, daemonVars, Fetch, Populate, OpenOutputFails, KillUpdater
<1>5. FileInv'
  BY <1>1 DEF IInv, FileInv
<1>6. SaveInv'
  BY <1>1, <1>2 DEF SaveInv, Saving
<1> QED
  BY <1>1, <1>4, <1>5, <1>6, DaemonFrame DEF IInv

LEMMA OpenIInv ==
    ASSUME IInv, OpenOutput
    PROVE  IInv'
<1>1. /\ file' = <<>> /\ pending' = <<>> /\ bad' = FALSE /\ script' = "save_ipv4" /\ saved' = 0
      /\ gen' = gen /\ gen \in Generations
      /\ overlapped' = (overlapped \/ Loading) /\ UNCHANGED <<format, daemonVars, powerFailures>>
  BY DEF IInv, TypeOK, OpenOutput
<1>2. PartOf(<<>>, gen) /\ <<>> \o <<>> = <<>> /\ <<>> \in UpTo(Block, 2 * Blocks)
  BY NoBlocks
<1>3. TypeOK'
  <2>1. overlapped' \in BOOLEAN
    BY <1>1, Zenon DEF IInv, TypeOK, Loading
  <2>2. 0 \in 0 .. MaxUpdates
    OBVIOUS
  <2> QED
    BY <1>1, <1>2, <2>1, <2>2 DEF IInv, TypeOK, daemonVars
<1>4. FileInv'
  BY <1>1, <1>2 DEF FileInv
<1>5. SaveInv'
  BY <1>1, <1>2, EmptySeq DEF SaveInv, Saving
<1> QED
  BY <1>1, <1>3, <1>4, <1>5, DaemonFrame DEF IInv

(* What a map's save writes are the next blocks, unless the stream failed. *)
LEMMA SaveMapIInv ==
    ASSUME IInv, NEW net, NEW here, NEW next, SaveMap(net, here, next),
           <<net, here, next>> \in
               {<<"ipv4", "save_ipv4", "save_ipv6">>, <<"ipv6", "save_ipv6", "close">>}
    PROVE  IInv'
<1>1. /\ script = here /\ Saving /\ saved = 0 /\ PartOf(file \o pending, gen) /\ gen \in Generations
      /\ file \in Seq(Block) /\ pending \in Seq(Block) /\ bad \in BOOLEAN
      /\ UNCHANGED <<format, gen, daemonVars, powerFailures, saved, overlapped>>
  BY TypeFacts DEF IInv, TypeOK, SaveInv, SaveMap, Saving
<1> DEFINE stream == IF bad THEN <<>> ELSE pending \o Whole(net, gen)
<1>2. PICK n \in 0 .. Len(stream), fails \in BOOLEAN : Flush(stream, n, fails)
  BY DEF SaveMap
<1>3. /\ stream \in Seq(Block) /\ PartOf(file \o stream, gen)
      /\ ~bad => Len(file \o stream) = IF net = "ipv4" THEN Blocks ELSE 2 * Blocks
  <2>1. CASE bad
    <3>1. pending = <<>> /\ stream = <<>>
      BY <2>1 DEF IInv, SaveInv
    <3> QED
      BY <1>1, <2>1, <3>1
  <2>2. CASE ~bad
    <3>1. stream = pending \o Whole(net, gen) /\ Whole(net, gen) \in Seq(Block)
      BY <1>1, <2>2, WholeFacts DEF Nets
    <3> HIDE DEF stream
    <3>2. stream \in Seq(Block) /\ file \o stream = (file \o pending) \o Whole(net, gen)
      <4>1. stream \in Seq(Block)
        BY <1>1, <3>1, ConcatProperties
      <4>2. file \in Seq(Block) /\ pending \in Seq(Block) /\ Whole(net, gen) \in Seq(Block)
        BY <1>1, <3>1
      <4>3. (file \o pending) \o Whole(net, gen) = file \o (pending \o Whole(net, gen))
        BY <4>2, ConcatAssociative
      <4> QED
        BY <3>1, <4>1, <4>3
    <3>3. Len(file \o pending) = IF net = "ipv4" THEN 0 ELSE Blocks
      BY <1>1, <2>2 DEF IInv, SaveInv
    <3> QED
      BY <1>1, <3>2, <3>3, SaveContinues
  <2> QED
    BY <1>1, <2>1, <2>2
<1> HIDE DEF stream
<1>4. /\ file' \in Seq(Block) /\ PartOf(file', gen)
      /\ pending' \in Seq(Block) /\ PartOf(file' \o pending', gen)
      /\ fails => pending' = <<>>
      /\ ~fails => file' \o pending' = file \o stream
      /\ bad' = (bad \/ fails)
  BY <1>1, <1>2, <1>3, SaveFlushes
<1>5. /\ script' \in {next, "close"} /\ script' \in {"save_ipv6", "close"}
      /\ script' # next => bad'
  BY <1>1, <1>4, Results DEF SaveMap, IInv, TypeOK
<1>6. bad' => pending' = <<>>
  <2>1. bad => stream = <<>>
    BY DEF stream
  <2>2. bad /\ ~fails => pending' = SubSeq(stream, n + 1, Len(stream))
    BY <1>2 DEF Flush
  <2>3. SubSeq(<<>>, 1, 0) = <<>> /\ Len(<<>>) = 0
    OBVIOUS
  <2> QED
    BY <1>2, <1>4, <2>1, <2>2, <2>3
<1>7. TypeOK'
  <2>1. file' \in UpTo(Block, 2 * Blocks) /\ pending' \in UpTo(Block, 2 * Blocks) /\ bad' \in BOOLEAN
    BY <1>1, <1>4, PartType
  <2> QED
    BY <1>1, <1>5, <2>1 DEF IInv, TypeOK, daemonVars
<1>8. FileInv'
  BY <1>1, <1>4 DEF FileInv
<1>9. SaveInv'
  BY <1>1, <1>3, <1>4, <1>5, <1>6 DEF SaveInv, Saving
<1>10. Loading => overlapped
  BY <1>1 DEF IInv, LoadInv
<1> QED
  BY <1>1, <1>7, <1>8, <1>9, <1>10, DaemonFrame DEF IInv

(* Only a close that writes all of what is pending has made a save.        *)
LEMMA CloseIInv ==
    ASSUME IInv, CloseOutput
    PROVE  IInv'
<1>1. /\ Saving /\ saved = 0 /\ PartOf(file \o pending, gen) /\ gen \in Generations
      /\ file \in Seq(Block) /\ pending \in Seq(Block) /\ bad \in BOOLEAN
      /\ script' = "restart" /\ ~Saving'
      /\ UNCHANGED <<format, gen, daemonVars, powerFailures, overlapped>>
  BY TypeFacts DEF IInv, TypeOK, SaveInv, CloseOutput, Saving
<1>2. PICK n \in 0 .. Len(pending) :
          Flush(pending, n, n < Len(pending)) /\ saved' = IF bad' THEN 0 ELSE gen
  BY DEF CloseOutput
<1> DEFINE fails == n < Len(pending)
<1>3. fails \in BOOLEAN
  OBVIOUS
<1>4. /\ file' \in Seq(Block) /\ PartOf(file', gen)
      /\ fails => pending' = <<>>
      /\ bad' = (bad \/ fails)
  BY <1>1, <1>2, <1>3, SaveFlushes
<1>5. ASSUME ~fails PROVE pending' = <<>> /\ file' = file \o pending
  <2>1. n = Len(pending) /\ file' = file \o SubSeq(pending, 1, n)
           /\ pending' = SubSeq(pending, n + 1, Len(pending))
    BY <1>2, <1>5 DEF Flush
  <2> QED
    BY <1>1, <2>1, SubSeqFull, SubSeqEmpty
<1>6. saved' # 0 => saved' = gen /\ ~bad /\ ~fails
  BY <1>2, <1>4
<1>7. saved' # 0 => Len(file') = 2 * Blocks
  BY <1>5, <1>6 DEF IInv, SaveInv, CloseOutput
<1>8. TypeOK'
  <2>1. file' \in UpTo(Block, 2 * Blocks)
    BY <1>4, UpToSeq DEF PartOf
  <2>2. pending' \in UpTo(Block, 2 * Blocks)
    BY <1>4, <1>5, NoBlocks
  <2>3. saved' \in 0 .. MaxUpdates /\ bad' \in BOOLEAN
    BY <1>1, <1>2, <1>4 DEF Generations
  <2> QED
    BY <1>1, <2>1, <2>2, <2>3 DEF IInv, TypeOK, daemonVars
<1>9. FileInv'
  BY <1>1, <1>4, <1>6, <1>7 DEF FileInv
<1>10. SaveInv'
  BY <1>1, <1>4, <1>5 DEF SaveInv, Saving
<1>11. Loading => overlapped
  BY <1>1 DEF IInv, LoadInv
<1> QED
  BY <1>1, <1>8, <1>9, <1>10, <1>11, DaemonFrame DEF IInv

-----------------------------------------------------------------------------
(* The steps of the daemon.                                                *)

(* They leave what the script has written.                                 *)
LEMMA ScriptFrame ==
    ASSUME IInv, UNCHANGED <<file, saved, gen, pending, bad>>,
           script' = script \/ (~Saving /\ ~Saving')
    PROVE  FileInv' /\ SaveInv'
<1>1. FileInv'
  BY DEF IInv, FileInv
<1>2. CASE script' = script
  BY <1>1, <1>2 DEF IInv, SaveInv, Saving
<1>3. CASE ~Saving /\ ~Saving'
  BY <1>1, <1>3 DEF IInv, SaveInv, Saving
<1> QED
  BY <1>1, <1>2, <1>3

LEMMA StartIInv ==
    ASSUME IInv, RestartDaemon \/ Boot
    PROVE  IInv'
<1>1. /\ StartServer /\ UNCHANGED <<format, file, gen, pending, bad, powerFailures, saved>>
      /\ script' = script \/ (script = "restart" /\ script' = "idle")
  BY DEF RestartDaemon, Boot, scriptVars
<1>2. /\ as2ip' = NoTables /\ net2as' = NoTables /\ daemon' = "load_ipv4" /\ pos' = 0
      /\ overlapped' = Saving /\ (Saving' => Saving)
  BY <1>1 DEF StartServer, Saving
<1>3. /\ NoTables["ipv4"] = <<>> /\ NoTables["ipv6"] = <<>>
      /\ NoTables \in [Nets -> UpTo(Block, Blocks)]
  BY NoBlocks DEF NoTables, Nets
<1>4. TypeOK'
  BY <1>1, <1>2, <1>3 DEF IInv, TypeOK, Saving
<1>5. FileInv' /\ SaveInv'
  BY <1>1, ScriptFrame DEF Saving
<1>6. ReadInv'
  BY <1>2, <1>3, NoBlocks DEF ReadInv
<1>7. LoadInv'
  <2>1. Len(file') \in Nat
    BY <1>1, TypeFacts DEF IInv
  <2> QED
    BY <1>2, <1>3, <2>1, NoBlocks DEF LoadInv
<1> QED
  BY <1>4, <1>5, <1>6, <1>7 DEF IInv

(* The next block of the file goes to the map that is read.                *)
LEMMA ReadFacts ==
    ASSUME IInv, NEW net \in Nets, NEW here, ReadBlock(net, here)
    PROVE  /\ pos \in Nat /\ pos < Len(file) /\ file[pos + 1] \in Block
           /\ Len(as2ip[net]) \in Nat /\ Len(as2ip[net]) < Blocks
           /\ as2ip'[net] \in Seq(Block) /\ Len(as2ip'[net]) = Len(as2ip[net]) + 1
           /\ \A i \in 1 .. Len(as2ip[net]) : as2ip'[net][i] = as2ip[net][i]
           /\ as2ip'[net][Len(as2ip[net]) + 1] = file[pos + 1]
           /\ \A other \in Nets \ {net} : as2ip'[other] = as2ip[other]
           /\ as2ip' \in [Nets -> UpTo(Block, Blocks)]
           /\ pos' = pos + 1
<1>1. /\ file \in Seq(Block) /\ as2ip[net] \in Seq(Block) /\ pos \in Nat /\ pos < Len(file)
      /\ Len(as2ip[net]) < Blocks /\ pos' = pos + 1
      /\ as2ip \in [Nets -> UpTo(Block, Blocks)]
      /\ as2ip' = [as2ip EXCEPT ![net] = Append(as2ip[net], file[pos + 1])]
  BY TypeFacts DEF IInv, TypeOK, ReadBlock
<1>2. file[pos + 1] \in Block
  <2>1. pos + 1 \in 1 .. Len(file)
    BY <1>1
  <2> QED
    BY <1>1, <2>1
<1> DEFINE old == as2ip[net]
           entry == file[pos + 1]
           new == Append(old, entry)
<1>3. old \in Seq(Block) /\ Len(old) < Blocks /\ entry \in Block
  BY <1>1, <1>2
<1>4. as2ip' = [as2ip EXCEPT ![net] = new]
  BY <1>1
<1> HIDE DEF old, entry, new
<1>5. /\ new \in Seq(Block) /\ Len(new) = Len(old) + 1 /\ Len(old) \in Nat
      /\ \A i \in 1 .. Len(old) : new[i] = old[i]
      /\ new[Len(old) + 1] = entry
  BY <1>3 DEF new
<1>6. Len(new) <= Blocks
  BY <1>3, <1>5
<1>7. new \in UpTo(Block, Blocks)
  BY <1>5, <1>6, UpToSeq
<1>8. /\ as2ip'[net] = new /\ as2ip' \in [Nets -> UpTo(Block, Blocks)]
      /\ \A other \in Nets \ {net} : as2ip'[other] = as2ip[other]
  BY <1>1, <1>4, <1>7
<1> QED
  BY <1>1, <1>2, <1>5, <1>8 DEF old, entry

LEMMA ReadIpv4IInv ==
    ASSUME IInv, ReadBlock("ipv4", "load_ipv4")
    PROVE  IInv'
<1> DEFINE a == as2ip["ipv4"]
           b == as2ip["ipv4"]'
<1>1. /\ pos \in Nat /\ pos < Len(file) /\ Len(a) \in Nat /\ Len(a) < Blocks
      /\ b \in Seq(Block) /\ Len(b) = Len(a) + 1 /\ pos' = pos + 1
      /\ \A i \in 1 .. Len(a) : b[i] = a[i]
      /\ b[Len(a) + 1] = file[pos + 1]
      /\ as2ip' \in [Nets -> UpTo(Block, Blocks)]
  BY ReadFacts DEF Nets
<1>2. /\ daemon = "load_ipv4"
      /\ UNCHANGED <<format, file, script, gen, pending, bad, daemon, net2as, powerFailures,
                     saved, overlapped>>
  BY DEF ReadBlock, scriptVars
<1>3. as2ip["ipv6"]' = as2ip["ipv6"] /\ as2ip["ipv6"] = <<>> /\ pos = Len(a) + Len(<<>>)
  <2>1. as2ip["ipv6"] = <<>>
    BY <1>2 DEF IInv, ReadInv
  <2>2. "ipv6" \in Nets \ {"ipv4"} /\ "ipv4" \in Nets
    BY DEF Nets
  <2>3. as2ip["ipv6"]' = as2ip["ipv6"]
    BY <2>2, ReadFacts
  <2> QED
    BY <2>1, <2>3 DEF IInv, ReadInv
<1>4. Len(<<>>) = 0 /\ pos = Len(a) /\ pos' = Len(b) /\ Len(b) <= Blocks
  BY <1>1, <1>3
<1>5. TypeOK'
  <2>1. pos' \in 0 .. 2 * Blocks
    BY <1>1, <1>4
  <2> QED
    BY <1>1, <1>2, <2>1 DEF IInv, TypeOK
<1>6. FileInv' /\ SaveInv'
  BY <1>2, ScriptFrame
<1>7. ReadInv'
  BY <1>1, <1>2, <1>3, <1>4 DEF IInv, ReadInv
<1>8. ASSUME ~overlapped PROVE \A i \in 1 .. Len(b) : b[i] = file[i]
  <2>1. \A i \in 1 .. Len(a) : a[i] = file[i]
    BY <1>2, <1>8 DEF IInv, LoadInv, Loading
  <2> HIDE DEF a, b
  <2> QED
    BY <1>1, <1>4, <2>1
<1>9. ~overlapped => ~Saving
  BY <1>2 DEF IInv, LoadInv, Loading
<1>10. pos' <= Len(file)
  <2>1. Len(file) \in Nat
    BY TypeFacts DEF IInv
  <2> QED
    BY <1>1, <2>1
<1>11. LoadInv'
  BY <1>2, <1>3, <1>4, <1>8, <1>9, <1>10 DEF LoadInv, Saving
<1> QED
  BY <1>5, <1>6, <1>7, <1>11 DEF IInv

LEMMA ReadIpv6IInv ==
    ASSUME IInv, ReadBlock("ipv6", "load_ipv6")
    PROVE  IInv'
<1> DEFINE a == as2ip["ipv6"]
           b == as2ip["ipv6"]'
           v4 == as2ip["ipv4"]
<1>1. /\ pos \in Nat /\ pos < Len(file) /\ Len(a) \in Nat /\ Len(a) < Blocks
      /\ b \in Seq(Block) /\ Len(b) = Len(a) + 1 /\ pos' = pos + 1
      /\ \A i \in 1 .. Len(a) : b[i] = a[i]
      /\ b[Len(a) + 1] = file[pos + 1]
      /\ as2ip' \in [Nets -> UpTo(Block, Blocks)]
  BY ReadFacts DEF Nets
<1>2. /\ daemon = "load_ipv6"
      /\ UNCHANGED <<format, file, script, gen, pending, bad, daemon, net2as, powerFailures,
                     saved, overlapped>>
  BY DEF ReadBlock, scriptVars
<1>3. "ipv4" \in Nets \ {"ipv6"} /\ "ipv6" \in Nets
  BY DEF Nets
<1>4. v4' = v4 /\ pos = Len(v4) + Len(a) /\ Len(v4) \in Nat /\ Len(v4) <= Blocks
  <2>1. v4' = v4
    BY <1>3, ReadFacts
  <2>2. v4 \in Seq(Block) /\ Len(v4) <= Blocks
    BY <1>3, TypeFacts DEF IInv
  <2> QED
    BY <2>1, <2>2 DEF IInv, ReadInv
<1>14. pos \in Nat /\ Len(a) \in Nat /\ Len(a) < Blocks /\ Len(b) = Len(a) + 1 /\ pos' = pos + 1
  BY <1>1
<1>5. TypeOK'
  <2>1. pos' \in 0 .. 2 * Blocks
    <3> HIDE DEF a, b, v4
    <3> QED
      BY <1>4, <1>14
  <2> QED
    BY <1>1, <1>2, <2>1 DEF IInv, TypeOK
<1>6. FileInv' /\ SaveInv'
  BY <1>2, ScriptFrame
<1>7. pos' = Len(v4') + Len(b)
  <2> HIDE DEF a, b, v4
  <2> QED
    BY <1>4, <1>14
<1>8. ReadInv'
  BY <1>2, <1>7 DEF IInv, ReadInv
<1>9. Len(file) \in Nat
  BY TypeFacts DEF IInv
<1>10. ASSUME ~overlapped
       PROVE  /\ ~Saving
              /\ Len(v4) = Blocks
              /\ \A i \in 1 .. Len(v4) : v4[i] = file[i]
              /\ \A i \in 1 .. Len(a) : a[i] = file[Blocks + i]
  <2>1. /\ ~Saving
        /\ \A i \in 1 .. Len(v4) : v4[i] = file[i]
        /\ \A i \in 1 .. Len(a) : a[i] = file[Blocks + i]
        /\ Len(v4) = Blocks \/ pos = Len(file)
    BY <1>2, <1>10 DEF IInv, LoadInv, Loading
  <2>2. pos # Len(file)
    BY <1>1, <1>9
  <2> QED
    BY <2>1, <2>2
<1>11. ASSUME ~overlapped PROVE \A i \in 1 .. Len(b) : b[i] = file[Blocks + i]
  <2>1. \A i \in 1 .. Len(a) : a[i] = file[Blocks + i]
    BY <1>10, <1>11
  <2>2. Blocks + (Len(a) + 1) = pos + 1
    <3> HIDE DEF a, b, v4
    <3> QED
      BY <1>4, <1>10, <1>11, <1>14
  <2> HIDE DEF a, b
  <2>3. \A i \in 1 .. Len(b) : i \in 1 .. Len(a) \/ i = Len(a) + 1
    BY <1>14
  <2> QED
    BY <1>1, <2>1, <2>2, <2>3
<1>12. pos' <= Len(file)
  BY <1>1, <1>9
<1>13. LoadInv'
  BY <1>2, <1>4, <1>10, <1>11, <1>12 DEF LoadInv, Saving
<1> QED
  BY <1>5, <1>6, <1>8, <1>13 DEF IInv

(* The steps that read no block.                                           *)
LEMMA EndMapIInv ==
    ASSUME IInv, NEW net, NEW here, NEW next, EndMap(net, here, next),
           <<net, here, next>> \in
               {<<"ipv4", "load_ipv4", "load_ipv6">>, <<"ipv6", "load_ipv6", "init">>}
    PROVE  IInv'
<1>1. /\ daemon = here /\ daemon' \in {next, "serving"} /\ here \in {"load_ipv4", "load_ipv6"}
      /\ daemon' = next => Load(Len(as2ip[net]) = Blocks)
      /\ UNCHANGED <<format, file, script, gen, pending, bad, pos, as2ip, net2as,
                     powerFailures, saved, overlapped>>
  BY DEF EndMap, scriptVars
<1>2. Len(as2ip[net]) = Blocks \/ pos >= Len(file)
  BY DEF EndMap
<1>3. TypeOK'
  BY <1>1 DEF IInv, TypeOK
<1>4. FileInv' /\ SaveInv'
  BY <1>1, ScriptFrame
<1>5. ReadInv'
  BY <1>1 DEF IInv, ReadInv
<1>6. ASSUME ~overlapped, daemon' = next PROVE LoadInv'
  <2>1. /\ ~Saving /\ pos <= Len(file)
        /\ \A i \in 1 .. Len(as2ip["ipv4"]) : as2ip["ipv4"][i] = file[i]
        /\ \A i \in 1 .. Len(as2ip["ipv6"]) : as2ip["ipv6"][i] = file[Blocks + i]
        /\ as2ip["ipv6"] # <<>> => Len(as2ip["ipv4"]) = Blocks
        /\ daemon # "load_ipv4" => Len(as2ip["ipv4"]) = Blocks \/ pos = Len(file)
        /\ format = "plain" /\ daemon # "load_ipv4" => Len(as2ip["ipv4"]) = Blocks
    BY <1>1, <1>6 DEF IInv, LoadInv, Loading
  <2>2. Len(as2ip[net]) = Blocks \/ pos = Len(file)
    <3>1. pos \in Nat /\ Len(file) \in Nat
      BY TypeFacts DEF IInv, TypeOK
    <3> QED
      BY <1>2, <2>1, <3>1
  <2>3. format = "plain" => Len(as2ip[net]) = Blocks
    BY <1>1, <1>6, Results, TypeFacts DEF IInv
  <2> QED
    BY <1>1, <1>6, <2>1, <2>2, <2>3 DEF LoadInv, Saving
<1>7. ASSUME overlapped \/ daemon' = "serving" PROVE LoadInv'
  BY <1>1, <1>7 DEF LoadInv, Loading
<1> QED
  BY <1>1, <1>3, <1>4, <1>5, <1>6, <1>7 DEF IInv

LEMMA ServeIInv ==
    ASSUME IInv, OpenInputFails \/ InitDatabases
    PROVE  IInv'
<1>1. /\ daemon' = "serving" /\ net2as' \in {net2as, as2ip}
      /\ UNCHANGED <<format, file, script, gen, pending, bad, pos, as2ip,
                     powerFailures, saved, overlapped>>
  BY DEF OpenInputFails, InitDatabases, scriptVars
<1>2. TypeOK'
  BY <1>1 DEF IInv, TypeOK
<1>3. FileInv' /\ SaveInv'
  BY <1>1, ScriptFrame
<1> QED
  BY <1>1, <1>2, <1>3 DEF IInv, ReadInv, LoadInv, Loading

(* What a power failure leaves is the beginning of the same save.          *)
LEMMA PowerIInv ==
    ASSUME IInv, PowerFails
    PROVE  IInv'
<1>1. PICK n \in 0 .. Len(file) :
          file' = SubSeq(file, 1, n) /\ saved' = IF n < Len(file) THEN 0 ELSE saved
  BY DEF PowerFails
<1>2. /\ script' = "idle" /\ pending' = <<>> /\ daemon' = "down" /\ pos' = 0
      /\ as2ip' = NoTables /\ net2as' = NoTables
      /\ UNCHANGED <<format, gen, bad, overlapped>>
      /\ powerFailures < MaxPowerFailures /\ powerFailures' = powerFailures + 1
  BY DEF PowerFails
<1>3. file \in Seq(Block) /\ Len(file) \in Nat /\ n <= Len(file) /\ n \in Nat
  BY TypeFacts DEF IInv
<1>4. PICK g \in Generations : PartOf(file, g)
  BY DEF IInv, FileInv
<1>5. PartOf(file', g)
  BY <1>1, <1>4, PartFirst
<1>6. ASSUME saved' # 0 PROVE saved' = saved /\ saved # 0 /\ file' = file
  <2>1. n = Len(file) /\ saved' = saved
    BY <1>1, <1>3, <1>6
  <2> QED
    BY <1>1, <1>3, <1>6, <2>1, SubSeqFull
<1>7. NoTables["ipv4"] = <<>> /\ NoTables["ipv6"] = <<>> /\ NoTables \in [Nets -> UpTo(Block, Blocks)]
  BY NoBlocks DEF NoTables, Nets
<1>8. TypeOK'
  <2>1. file' \in UpTo(Block, 2 * Blocks)
    BY <1>5, UpToSeq DEF PartOf
  <2>2. powerFailures' \in 0 .. MaxPowerFailures
    BY <1>2 DEF IInv, TypeOK
  <2>3. saved' \in 0 .. MaxUpdates
    BY <1>1 DEF IInv, TypeOK
  <2> QED
    BY <1>2, <1>7, <2>1, <2>2, <2>3, NoBlocks DEF IInv, TypeOK
<1>9. FileInv'
  BY <1>5, <1>6 DEF IInv, FileInv
<1>10. SaveInv'
  BY <1>2 DEF SaveInv, Saving
<1>11. ReadInv' /\ LoadInv'
  BY <1>2, <1>7, NoBlocks DEF ReadInv, LoadInv, Loading
<1> QED
  BY <1>8, <1>9, <1>10, <1>11 DEF IInv

-----------------------------------------------------------------------------
LEMMA InitIInv == Init => IInv
<1> SUFFICES ASSUME Init PROVE IInv
  OBVIOUS
<1>1. 1 \in Generations
  BY DEF Generations
<1>2. PartOf(file, 1) /\ Len(file) = 2 * Blocks
  <2>1. Whole("ipv4", 1) \in Seq(Block)
    BY <1>1, WholeFacts DEF Nets
  <2>2. PartOf(Whole("ipv4", 1), 1) /\ Len(Whole("ipv4", 1)) = Blocks
    <3>1. <<>> \o Whole("ipv4", 1) = Whole("ipv4", 1)
      BY <2>1, ConcatEmptySeq
    <3> QED
      BY <1>1, <3>1, NoBlocks, SaveContinues
  <2> QED
    BY <1>1, <2>2, SaveContinues DEF Init
<1>3. file \in UpTo(Block, 2 * Blocks)
  BY <1>2, UpToSeq DEF PartOf
<1>4. NoTables["ipv4"] = <<>> /\ NoTables["ipv6"] = <<>> /\ NoTables \in [Nets -> UpTo(Block, Blocks)]
  BY NoBlocks DEF NoTables, Nets
<1>5. TypeOK
  <2>1. 0 \in 0 .. 2 * Blocks /\ 0 \in 0 .. MaxPowerFailures /\ 1 \in 0 .. MaxUpdates
    OBVIOUS
  <2> QED
    BY <1>1, <1>3, <1>4, <2>1, NoBlocks DEF Init, TypeOK
<1>6. FileInv
  BY <1>1, <1>2 DEF Init, FileInv
<1>7. SaveInv
  BY DEF Init, SaveInv, Saving
<1>8. ReadInv /\ LoadInv
  BY <1>4, NoBlocks DEF Init, ReadInv, LoadInv, Loading
<1> QED
  BY <1>5, <1>6, <1>7, <1>8 DEF IInv

LEMMA NextIInv ==
    ASSUME IInv, [Next]_vars
    PROVE  IInv'
<1>1. CASE Fetch \/ Populate \/ OpenOutputFails \/ KillUpdater
  BY <1>1, ScriptIInv
<1>2. CASE OpenOutput
  BY <1>2, OpenIInv
<1>3. CASE SaveIpv4 \/ SaveIpv6
  BY <1>3, SaveMapIInv DEF SaveIpv4, SaveIpv6
<1>4. CASE CloseOutput
  BY <1>4, CloseIInv
<1>5. CASE RestartDaemon \/ Boot
  BY <1>5, StartIInv
<1>6. CASE ReadBlock("ipv4", "load_ipv4") \/ ReadBlock("ipv6", "load_ipv6")
  BY <1>6, ReadIpv4IInv, ReadIpv6IInv
<1>7. CASE EndMap("ipv4", "load_ipv4", "load_ipv6") \/ EndMap("ipv6", "load_ipv6", "init")
  BY <1>7, EndMapIInv
<1>8. CASE OpenInputFails \/ InitDatabases
  BY <1>8, ServeIInv
<1>9. CASE PowerFails
  BY <1>9, PowerIInv
<1>10. CASE UNCHANGED vars
  BY <1>10 DEF vars, scriptVars, daemonVars, IInv, TypeOK, FileInv, SaveInv, ReadInv, LoadInv,
               Saving, Loading
<1> QED
  BY <1>1, <1>2, <1>3, <1>4, <1>5, <1>6, <1>7, <1>8, <1>9, <1>10 DEF Next, ScriptStep, DaemonStep

LEMMA IInvInvariant == Spec => []IInv
<1>1. Init => IInv
  BY InitIInv
<1>2. IInv /\ [Next]_vars => IInv'
  BY NextIInv
<1> QED
  BY <1>1, <1>2, PTL DEF Spec

-----------------------------------------------------------------------------
(* What the daemon serves.                                                 *)

(* Two maps that have all their blocks are the tables of the save.         *)
LEMMA WholeTables ==
    ASSUME IInv, Loading, ~overlapped, NEW g \in Generations, PartOf(file, g),
           Len(as2ip["ipv4"]) = Blocks, Len(as2ip["ipv6"]) = Blocks
    PROVE  as2ip = Tables(g)
<1>1. /\ as2ip["ipv4"] \in Seq(Block) /\ as2ip["ipv6"] \in Seq(Block)
      /\ as2ip \in [Nets -> UpTo(Block, Blocks)]
  BY TypeFacts DEF IInv, TypeOK, Nets
<1>2. /\ \A i \in 1 .. Blocks : as2ip["ipv4"][i] = file[i]
      /\ \A i \in 1 .. Blocks : as2ip["ipv6"][i] = file[Blocks + i]
      /\ pos <= Len(file) /\ pos = Blocks + Blocks
  BY DEF IInv, LoadInv, ReadInv
<1>3. Len(file) \in Nat /\ \A i \in 1 .. Len(file) : file[i] = Entry(g, i)
  BY DEF PartOf
<1>4. ASSUME NEW i \in 1 .. Blocks PROVE i \in 1 .. Len(file) /\ Blocks + i \in 1 .. Len(file)
  <2>1. Blocks + Blocks <= Len(file)
    BY <1>2
  <2> QED
    BY <1>3, <2>1
<1>5. ASSUME NEW i \in 1 .. Blocks
      PROVE  /\ as2ip["ipv4"][i] = [net |-> "ipv4", gen |-> g, part |-> i]
             /\ as2ip["ipv6"][i] = [net |-> "ipv6", gen |-> g, part |-> i]
  <2>1. as2ip["ipv4"][i] = Entry(g, i) /\ as2ip["ipv6"][i] = Entry(g, Blocks + i)
    BY <1>2, <1>3, <1>4
  <2> QED
    BY <2>1, EntryFacts
<1>6. "ipv4" \in Nets /\ "ipv6" \in Nets
  BY DEF Nets
<1>7. as2ip["ipv4"] = Whole("ipv4", g)
  <2>1. /\ Whole("ipv4", g) \in Seq(Block) /\ Len(Whole("ipv4", g)) = Blocks
        /\ \A i \in 1 .. Blocks : Whole("ipv4", g)[i] = [net |-> "ipv4", gen |-> g, part |-> i]
    BY <1>6, WholeFacts
  <2>2. \A i \in 1 .. Blocks : as2ip["ipv4"][i] = Whole("ipv4", g)[i]
    BY <1>5, <2>1
  <2> QED
    BY <1>1, <2>1, <2>2, SeqEqual
<1>8. as2ip["ipv6"] = Whole("ipv6", g)
  <2>1. /\ Whole("ipv6", g) \in Seq(Block) /\ Len(Whole("ipv6", g)) = Blocks
        /\ \A i \in 1 .. Blocks : Whole("ipv6", g)[i] = [net |-> "ipv6", gen |-> g, part |-> i]
    BY <1>6, WholeFacts
  <2>2. \A i \in 1 .. Blocks : as2ip["ipv6"][i] = Whole("ipv6", g)[i]
    BY <1>5, <2>1
  <2> QED
    BY <1>1, <2>1, <2>2, SeqEqual
<1> QED
  BY <1>1, <1>7, <1>8 DEF Tables, Nets

(* A map that is refused is one of a plain file that ends too early.       *)
LEMMA Refused ==
    ASSUME IInv, NEW net \in Nets, NEW here, NEW next, EndMap(net, here, next),
           next # "serving", daemon' = "serving", Loading, ~overlapped
    PROVE  saved = 0 /\ net2as' = NoTables
<1>1. /\ Load(Len(as2ip[net]) = Blocks) = FALSE
      /\ Len(as2ip[net]) = Blocks \/ pos >= Len(file)
      /\ net2as' = net2as /\ format \in {"plain", "bz2", "gz"}
  BY TypeFacts DEF EndMap, IInv
<1>2. Len(as2ip[net]) # Blocks
  BY <1>1, Results
<1>3. /\ pos = Len(as2ip["ipv4"]) + Len(as2ip["ipv6"]) /\ net2as = NoTables
      /\ pos >= Len(file)
  BY <1>1, <1>2 DEF IInv, ReadInv, Loading
<1>4. /\ Len(as2ip["ipv4"]) \in Nat /\ Len(as2ip["ipv4"]) <= Blocks
      /\ Len(as2ip["ipv6"]) \in Nat /\ Len(as2ip["ipv6"]) <= Blocks
  BY TypeFacts DEF IInv, Nets
<1>5. Len(as2ip["ipv4"]) # Blocks \/ Len(as2ip["ipv6"]) # Blocks
  BY <1>2 DEF Nets
<1>6. ASSUME Len(file) = 2 * Blocks PROVE FALSE
  <2> DEFINE n4 == Len(as2ip["ipv4"])
             n6 == Len(as2ip["ipv6"])
  <2>1. pos = n4 + n6 /\ pos >= 2 * Blocks
    BY <1>3, <1>6
  <2>2. n4 \in Nat /\ n4 <= Blocks /\ n6 \in Nat /\ n6 <= Blocks /\ (n4 # Blocks \/ n6 # Blocks)
    BY <1>4, <1>5
  <2> HIDE DEF n4, n6
  <2> QED
    BY <2>1, <2>2
<1> QED
  BY <1>1, <1>3, <1>6 DEF IInv, FileInv

LEMMA InitServes ==
    ASSUME IInv, InitDatabases, ~overlapped
    PROVE  IF saved # 0
           THEN net2as' = Tables(saved)
           ELSE format = "plain" => net2as' \in {Tables(g) : g \in Generations}
<1>1. Loading /\ daemon = "init" /\ net2as' = as2ip
  BY DEF InitDatabases, Loading
<1>2. /\ pos = Len(as2ip["ipv4"]) + Len(as2ip["ipv6"])
      /\ Len(as2ip["ipv4"]) \in Nat /\ Len(as2ip["ipv4"]) <= Blocks
      /\ Len(as2ip["ipv6"]) \in Nat /\ Len(as2ip["ipv6"]) <= Blocks
  BY TypeFacts DEF IInv, ReadInv, Nets
<1>3. /\ Len(as2ip["ipv4"]) = Blocks \/ pos = Len(file)
      /\ Len(as2ip["ipv6"]) = Blocks \/ pos = Len(file)
      /\ format = "plain" => Len(as2ip["ipv4"]) = Blocks /\ Len(as2ip["ipv6"]) = Blocks
  BY <1>1 DEF IInv, LoadInv
<1>4. CASE saved # 0
  <2>1. saved \in Generations /\ PartOf(file, saved) /\ Len(file) = 2 * Blocks
    BY <1>4 DEF IInv, FileInv
  <2>2. Len(as2ip["ipv4"]) = Blocks /\ Len(as2ip["ipv6"]) = Blocks
    <3> DEFINE n4 == Len(as2ip["ipv4"])
               n6 == Len(as2ip["ipv6"])
    <3>1. /\ pos = n4 + n6 /\ n4 \in Nat /\ n4 <= Blocks /\ n6 \in Nat /\ n6 <= Blocks
          /\ n4 = Blocks \/ pos = 2 * Blocks
          /\ n6 = Blocks \/ pos = 2 * Blocks
      BY <1>2, <1>3, <2>1
    <3> HIDE DEF n4, n6
    <3>2. n4 = Blocks /\ n6 = Blocks
      BY <3>1
    <3> QED
      BY <3>2 DEF n4, n6
  <2> QED
    BY <1>1, <1>4, <2>1, <2>2, WholeTables
<1>5. CASE saved = 0
  <2> SUFFICES ASSUME format = "plain" PROVE net2as' \in {Tables(g) : g \in Generations}
    BY <1>5
  <2>1. PICK g \in Generations : PartOf(file, g)
    BY DEF IInv, FileInv
  <2> QED
    BY <1>1, <1>3, <2>1, WholeTables
<1> QED
  BY <1>4, <1>5

LEMMA StartServes ==
    ASSUME IInv, [Next]_vars, daemon' = "serving", daemon # "serving", ~overlapped, ~OpenInputFails
    PROVE  IF saved # 0
           THEN net2as' = Tables(saved)
           ELSE format = "plain" => net2as' \in {NoTables} \cup {Tables(g) : g \in Generations}
<1>1. \/ InitDatabases
      \/ EndMap("ipv4", "load_ipv4", "load_ipv6")
      \/ EndMap("ipv6", "load_ipv6", "init")
  BY DEF Next, ScriptStep, DaemonStep, Fetch, Populate, OpenOutput, OpenOutputFails, SaveIpv4,
         SaveIpv6, SaveMap, CloseOutput, KillUpdater, RestartDaemon, Boot, StartServer, ReadBlock,
         PowerFails, vars, daemonVars
<1>2. CASE InitDatabases
  BY <1>2, InitServes
<1>3. CASE EndMap("ipv4", "load_ipv4", "load_ipv6") \/ EndMap("ipv6", "load_ipv6", "init")
  <2>1. Loading
    BY <1>3 DEF EndMap, Loading
  <2> QED
    BY <1>3, <2>1, Refused DEF Nets
<1> QED
  BY <1>1, <1>2, <1>3

(* The state of the pipeline has its type, however many blocks, updates    *)
(* and power failures there are.                                           *)
THEOREM DatabaseTypeCorrect == Spec => []TypeOK
<1>1. IInv => TypeOK
  BY DEF IInv
<1> QED
  BY <1>1, IInvInvariant, PTL

(* A daemon whose load met no save answers from the last save, or from no  *)
(* half of a plain file, whatever has failed while it was written.         *)
THEOREM LoadServesSave == Spec => LoadServesLastSave
<1>1. IInv /\ [Next]_vars =>
          [daemon' = "serving" /\ daemon # "serving" /\ ~overlapped /\ ~OpenInputFails =>
              IF saved # 0
              THEN net2as' = Tables(saved)
              ELSE format = "plain" =>
                      net2as' \in {NoTables} \cup {Tables(g) : g \in Generations}]_vars
  BY StartServes
<1> QED
  BY <1>1, IInvInvariant, PTL DEF Spec, LoadServesLastSave
=============================================================================
