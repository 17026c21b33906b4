------------------------------ MODULE Database ------------------------------
(***************************************************************************)
(* The database file: mkcurtaindb writes it with AS2IPDb::Save, the daemon *)
(* reads it with AS2IPDb::Load when it starts, and updatecurtaindata.sh    *)
(* runs the one and restarts the other.  Disks fill up and power fails.    *)
(*                                                                         *)
(* The file holds two maps, AS2Ipv4Net and AS2Ipv6Net.  A map is written   *)
(* in Blocks blocks, of which the first has the number of entries.         *)
(***************************************************************************)
EXTENDS Integers, Sequences

CONSTANTS Formats,          \* {"plain", "bz2", "gz"}: extensions of the file
          Blocks,           \* blocks of a map
          MaxUpdates,       \* bound: generations of the data
          MaxPowerFailures  \* bound

ASSUME DatabaseAssumption ==
    /\ Formats \subseteq {"plain", "bz2", "gz"}
    /\ Blocks \in Nat \ {0}
    /\ MaxUpdates \in Nat \ {0}
    /\ MaxPowerFailures \in Nat

Nets == {"ipv4", "ipv6"}
Generations == 1 .. MaxUpdates
Block == [net : Nets, gen : Generations, part : 1 .. Blocks]
UpTo(S, n) == UNION {[1 .. k -> S] : k \in 0 .. n}

VARIABLES
    format,      \* the extension of the file's path
    file,        \* the blocks on the disk
    script,      \* updatecurtaindata.sh and the mkcurtaindb it runs
    gen,         \* the generation of the data that was fetched last
    pending,     \* written to the stream, but not to the disk
    bad,         \* the stream has failed
    daemon,      \* the start of mccurtaind
    pos,         \* how far it has read the file
    as2ip,       \* _as2ipv4 and _as2ipv6, what was read of each
    net2as,      \* _ipv42as and _ipv62as
    powerFailures,
    saved,       \* for the properties: the generation on the disk, or 0
    overlapped   \* for the properties: the file was written during the load

scriptVars == <<script, gen, pending, bad>>
daemonVars == <<daemon, pos, as2ip, net2as>>
vars == <<format, file, scriptVars, daemonVars, powerFailures, saved, overlapped>>

Whole(net, g) == [i \in 1 .. Blocks |-> [net |-> net, gen |-> g, part |-> i]]
Tables(g) == [net \in Nets |-> Whole(net, g)]
NoTables == [net \in Nets |-> <<>>]

Saving == script \in {"save_ipv4", "save_ipv6", "close"}
Loading == daemon \in {"load_ipv4", "load_ipv6", "init"}

-----------------------------------------------------------------------------
(* What a call that returns -1 on failure is taken for by an if.           *)
AsBool(result) == result # 0
Bytes(whole) == IF whole THEN Blocks ELSE -1

\* Mutant: the state of the stream is not tested.
LoadIstream_Untested(whole) == TRUE

(* Whether a map counts as read, or as written, in each of the formats.    *)
LoadIstream(whole) == whole
LoadBZ2(whole) == AsBool(Bytes(whole))
LoadGZ(whole) == AsBool(Bytes(whole))
SaveOstream(good) == good
SaveBZ2(good) == AsBool(Bytes(good))
SaveGZ(good) == AsBool(Bytes(good))

Load(whole) ==
    [plain |-> LoadIstream(whole), bz2 |-> LoadBZ2(whole), gz |-> LoadGZ(whole)][format]
Save(good) ==
    [plain |-> SaveOstream(good), bz2 |-> SaveBZ2(good), gz |-> SaveGZ(good)][format]

(* What AS2Ipv4Net::Load of a tool returns for the file; its map is first. *)
LoadIpv4Nets == Load(Len(file) >= Blocks)

-----------------------------------------------------------------------------
TypeOK ==
    /\ format \in Formats
    /\ file \in UpTo(Block, 2 * Blocks)
    /\ script \in {"idle", "populate", "open", "save_ipv4", "save_ipv6", "close", "restart"}
    /\ gen \in Generations
    /\ pending \in UpTo(Block, 2 * Blocks)
    /\ bad \in BOOLEAN
    /\ daemon \in {"down", "load_ipv4", "load_ipv6", "init", "serving"}
    /\ pos \in 0 .. 2 * Blocks
    /\ as2ip \in [Nets -> UpTo(Block, Blocks)]
    /\ net2as \in [Nets -> UpTo(Block, Blocks)]
    /\ powerFailures \in 0 .. MaxPowerFailures
    /\ saved \in 0 .. MaxUpdates
    /\ overlapped \in BOOLEAN

(* A first database is installed and the daemon is about to be started.    *)
Init ==
    /\ format \in Formats
    /\ file = Whole("ipv4", 1) \o Whole("ipv6", 1)
    /\ script = "idle"
    /\ gen = 1
    /\ pending = <<>>
    /\ bad = FALSE
    /\ daemon = "down"
    /\ pos = 0
    /\ as2ip = NoTables
    /\ net2as = NoTables
    /\ powerFailures = 0
    /\ saved = 1
    /\ overlapped = FALSE

-----------------------------------------------------------------------------
Fetch ==
    /\ script = "idle"
    /\ gen < MaxUpdates
    /\ script' = "populate"
    /\ gen' = gen + 1
    /\ UNCHANGED <<format, file, pending, bad, daemonVars, powerFailures,
                   saved, overlapped>>

(* PopulateV4Data and PopulateV6Data; without data nothing is saved.       *)
Populate ==
    /\ script = "populate"
    /\ script' \in {"open", "restart"}
    /\ UNCHANGED <<format, file, gen, pending, bad, daemonVars, powerFailures,
                   saved, overlapped>>

(* The database is truncated before the first byte of the new one.         *)
OpenOutput ==
    /\ script = "open"
    /\ script' = "save_ipv4"
    /\ file' = <<>>
    /\ pending' = <<>>
    /\ bad' = FALSE
    /\ saved' = 0
    /\ overlapped' = (overlapped \/ Loading)
    /\ UNCHANGED <<format, gen, daemonVars, powerFailures>>

OpenOutputFails ==
    /\ script = "open"
    /\ script' = "restart"
    /\ UNCHANGED <<format, file, gen, pending, bad, daemonVars, powerFailures,
                   saved, overlapped>>

(* Some of the stream reaches the disk; on a failure the rest is lost.     *)
Flush(stream, n, fails) ==
    /\ file' = file \o SubSeq(stream, 1, n)
    /\ pending' = IF fails THEN <<>> ELSE SubSeq(stream, n + 1, Len(stream))
    /\ bad' = (bad \/ fails)

(* A stream that has failed takes nothing more.                            *)
SaveMap(net, here, next) ==
    /\ script = here
    /\ LET stream == IF bad THEN <<>> ELSE pending \o Whole(net, gen)
       IN  \E n \in 0 .. Len(stream), fails \in BOOLEAN : Flush(stream, n, fails)
    /\ script' = IF Save(~bad') THEN next ELSE "close"
    /\ UNCHANGED <<format, gen, daemonVars, powerFailures, saved, overlapped>>

SaveIpv4 == SaveMap("ipv4", "save_ipv4", "save_ipv6")
SaveIpv6 == SaveMap("ipv6", "save_ipv6", "close")

(* Nobody looks at the result of the close, which writes what is pending.  *)
CloseOutput ==
    /\ script = "close"
    /\ \E n \in 0 .. Len(pending) :
          /\ Flush(pending, n, n < Len(pending))
          /\ saved' = IF bad' THEN 0 ELSE gen
    /\ script' = "restart"
    /\ UNCHANGED <<format, gen, daemonVars, powerFailures, overlapped>>

(* mkcurtaindb is killed: the script goes on.                              *)
KillUpdater ==
    /\ script \in {"populate", "open"} \/ Saving
    /\ script' = "restart"
    /\ pending' = <<>>
    /\ UNCHANGED <<format, file, gen, bad, daemonVars, powerFailures, saved,
                   overlapped>>

-----------------------------------------------------------------------------
StartServer ==
    /\ daemon' = "load_ipv4"
    /\ pos' = 0
    /\ as2ip' = NoTables
    /\ net2as' = NoTables
    /\ overlapped' = Saving

\* Mutant: a daemon that is there is not stopped first.
RestartDaemon_OnlyStart ==
    /\ script = "restart"
    /\ script' = "idle"
    /\ IF daemon = "down" THEN StartServer ELSE UNCHANGED <<daemonVars, overlapped>>
    /\ UNCHANGED <<format, file, gen, pending, bad, powerFailures, saved>>

(* The script restarts the daemon whatever mkcurtaindb has returned.       *)
RestartDaemon ==
    /\ script = "restart"
    /\ script' = "idle"
    /\ StartServer
    /\ UNCHANGED <<format, file, gen, pending, bad, powerFailures, saved>>

(* The system starts the daemon when it boots.                             *)
Boot ==
    /\ daemon = "down"
    /\ StartServer
    /\ UNCHANGED <<format, file, scriptVars, powerFailures, saved>>

\* Mutant: what follows is read, and not the number of entries announced.
ReadBlock_ToEnd(net, here) ==
    /\ daemon = here
    /\ pos < Len(file)
    /\ as2ip' = [as2ip EXCEPT ![net] = Append(@, file[pos + 1])]
    /\ pos' = pos + 1
    /\ UNCHANGED <<format, file, scriptVars, daemon, net2as, powerFailures, saved,
                   overlapped>>

ReadBlock(net, here) ==
    /\ daemon = here
    /\ pos < Len(file)
    /\ Len(as2ip[net]) < Blocks
    /\ as2ip' = [as2ip EXCEPT ![net] = Append(@, file[pos + 1])]
    /\ pos' = pos + 1
    /\ UNCHANGED <<format, file, scriptVars, daemon, net2as, powerFailures, saved,
                   overlapped>>

(* The end of a map, or of the file.                                       *)
EndMap(net, here, next) ==
    /\ daemon = here
    /\ Len(as2ip[net]) = Blocks \/ pos >= Len(file)
    /\ daemon' = IF Load(Len(as2ip[net]) = Blocks) THEN next ELSE "serving"
    /\ UNCHANGED <<format, file, scriptVars, pos, as2ip, net2as, powerFailures,
                   saved, overlapped>>

OpenInputFails ==
    /\ daemon = "load_ipv4"
    /\ pos = 0
    /\ daemon' = "serving"
    /\ UNCHANGED <<format, file, scriptVars, pos, as2ip, net2as, powerFailures,
                   saved, overlapped>>

(* InitDatabases fills the tries, and the daemon serves in any case.       *)
InitDatabases ==
    /\ daemon = "init"
    /\ net2as' = as2ip
    /\ daemon' = "serving"
    /\ UNCHANGED <<format, file, scriptVars, pos, as2ip, powerFailures, saved,
                   overlapped>>

(* Nothing is synchronised, so the disk may keep less than was written.    *)
PowerFails ==
    /\ powerFailures < MaxPowerFailures
    /\ powerFailures' = powerFailures + 1
    /\ \E n \in 0 .. Len(file) :
          /\ file' = SubSeq(file, 1, n)
          /\ saved' = IF n < Len(file) THEN 0 ELSE saved
    /\ script' = "idle"
    /\ pending' = <<>>
    /\ daemon' = "down"
    /\ pos' = 0
    /\ as2ip' = NoTables
    /\ net2as' = NoTables
    /\ UNCHANGED <<format, gen, bad, overlapped>>

-----------------------------------------------------------------------------
ScriptStep ==
    \/ Populate \/ OpenOutput \/ OpenOutputFails \/ SaveIpv4 \/ SaveIpv6 \/ CloseOutput
    \/ KillUpdater \/ RestartDaemon

DaemonStep ==
    \/ Boot \/ OpenInputFails \/ InitDatabases
    \/ ReadBlock("ipv4", "load_ipv4") \/ EndMap("ipv4", "load_ipv4", "load_ipv6")
    \/ ReadBlock("ipv6", "load_ipv6") \/ EndMap("ipv6", "load_ipv6", "init")

Next == Fetch \/ ScriptStep \/ DaemonStep \/ PowerFails

Spec == Init /\ [][Next]_vars

(* The scheduler runs both processes; nobody has to start an update.       *)
FairSpec == Spec /\ WF_vars(ScriptStep) /\ WF_vars(DaemonStep)

-----------------------------------------------------------------------------
(* A daemon whose load met no save answers address questions from the last *)
(* save, and from both its maps.  If that did not reach the disk, a plain  *)
(* file is refused or is whole all the same: whatever has failed, half a   *)
(* database is not served.  (A failing open leaves the tables empty.)      *)
LoadServesLastSave ==
    [][daemon' = "serving" /\ daemon # "serving" /\ ~overlapped /\ ~OpenInputFails =>
          IF saved # 0
          THEN net2as' = Tables(saved)
          ELSE format = "plain" =>
                  net2as' \in {NoTables} \cup {Tables(g) : g \in Generations}]_vars

(* A save that reaches the disk is served in the end, unless it is lost or *)
(* another one begins, or the daemon cannot open the file.                 *)
SavedIsServed ==
    \A g \in Generations :
        saved = g ~> net2as = Tables(g) \/ saved # g \/ (daemon = "serving" /\ pos = 0)

(* AS2Ipv4Net.hh, Load: "Returns true on success, false on failure."  It   *)
(* succeeds only if the file, that nobody writes, has all of the map.      *)
LoadTellsFailure == script = "idle" /\ LoadIpv4Nets => Len(file) >= Blocks
=============================================================================
