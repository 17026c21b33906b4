# A verification project for mccurtain

mccurtain answers one question: which autonomous systems announce an IP address?
`mccurtaind` holds two tries of prefixes and AS numbers and answers over three
protocols: an authenticated TCP protocol (Credence), a small UDP protocol and
DNS `ORIGIN` questions. The tries are loaded from files that other tools build
from CAIDA route tables.

This directory holds TLA+ models of that program, configurations with which TLC
checks them on small instances, and proofs that TLAPS checks for every value of
the constants. `PROJECT.json` lists components, runs, findings, hazards,
theorems and, under `map`, the source lines each definition stands for.
Paths below are relative to the root of the repository.

## 1. The system

| Part | Source | State | Operations |
|---|---|---|---|
| Daemon main thread | `apps/mccurtaind/mccurtaind.cc` | `g_gotSigTerm`, `boost::asio::signal_set`, PID file, `io_context` | start-up, `SigTermHandler`, `BoostSignalHandler`, poll loop, return |
| `Server` | `DwmMcCurtainServer.{hh,cc}` | `_acceptors`, `_responders`, tries, AS names, config | constructor, `AcceptLoop`, `ClientAllowed`, `CleanupResponders`, `Stop`, destruction |
| `Responder` | `DwmMcCurtainResponder.{hh,cc}` | `_thread`, `_running`, `_peer` | constructor, `Run`, `HandleRequest`, `Join`, destructor |
| `DnsServer` | `DwmMcCurtainDnsServer.{hh,cc}` | `_shouldRun`, `_stopfds`, `_v4fd`, `_thread` | `Start`, `Stop`, `Run` |
| `UdpServer` | `DwmMcCurtainUdpServer.{hh,cc}` | `_shouldRun`, `_stopfds`, `_binfds`, `_thread` | `Start`, `Stop`, `Run`, `RespondBinary` |
| `OriginServer` (the UDP client) | `classes/src/DwmMcCurtainOriginServer.cc` | `_msgid` of the class, one socket per object | `GetOrigin`, `SendRequest`, `RecvResponse` |
| `Ipv4Net2AS`, `Ipv6Net2AS` | `classes/include/DwmMcCurtainIpv4Net2AS.hh` and `...Ipv6Net2AS.hh` | nodes, `_root`, `_size` | `insert`, `operator[]`, `erase`, `clear`, copy, move, lookups, iterators, `Aggregate` |
| Database files | `AS2IPDb`, `AS2Ipv4Net`, `AS2Ipv6Net`, `ASNAME` loads | files | `Load`, `Save` in plain, bz2 and gz forms |
| Route aggregation | `CaidaV4Routeviews`, `CaidaV6Routeviews` | map of networks | `SwallowSpecifics`, `Aggregate`, `Load` |
| Messages | `Message`, `MessageHeader`, `OriginRequest`, `OriginResponse`, `OriginPrefix`, `OriginAS` | none | encoding and decoding, as bytes and as JSON |
| Configuration | `ConfigParse.y`, `ConfigLex.lex`, `ServiceConfig`, `DatabaseConfig` | the `Config`, the parser's stack, the scanner's buffer | `Parse`, `Clear` |
| AS names | `RipeAsnTxt` | table of names and countries | `Load` |
| Clients | `apps/mccurtain`, `apps/mccurtaincgi`, `apps/mccdb` | none across a run | choose a host, ask, print; `mccdb` loads the files itself |

How they meet. The main thread constructs the `Server`, whose constructor starts
the DNS thread, the UDP thread and, in the end, the acceptors. The `io_context`
then runs accept handlers on the main thread. Each first walks `_responders`
(`CleanupResponders`), then makes a `Responder`, which shakes hands in its
constructor and starts a thread. Responder threads, the DNS thread and the UDP
thread only read the tries; nothing replaces a trie while the daemon serves. A
SIGTERM ends the `io_context`'s loop; `main()` polls a flag, calls
`Server::Stop` (a byte in a pipe and a join for each service thread), removes
the PID file and destroys the `Server`, which joins the responders.

What is hard here:

* `Responder`: the flag `_running` is stored by two threads, and `Join` decides
  by it whether to wait, on the thread that does all accepting.
* Lifetimes: objects, descriptors and tries are used by threads that never own
  them; only the order of joins, closes and member declarations protects them.
* SIGTERM may arrive at any point of start-up, service and shut-down.
* `DnsServer` and `UdpServer` block without timeouts; a byte in a pipe has to
  end them, under any traffic, and after a `Start` that failed half way.
* `OriginServer`: datagrams are lost, late and duplicated; the ids that are to
  keep calls apart are 16 bits wide and shared by all objects of a process.
* The tries: five shapes of insertion, recursive removal with path compression,
  and `Aggregate`, which erases and inserts under its own iterator.
* Route aggregation: loops that insert into and erase from the containers they walk.
* Answers: `mccurtaind` serves whatever became of its loads, and five ways lead from
  one database to a user, each with its own code for the same answer.
* Configuration: one `Config` object is filled by stanza after stanza and file after
  file; the scanner and the parser keep state between calls.
* Files: truncated in place, results of reads and writes misread; the script
  restarts the daemon whatever mkcurtaindb has returned.

`PROJECT.json` lists each hazard at its line, with the properties that guard it
or the reason why none does.

What makes each part correct:

* Main thread and `Server`: the process ends after SIGTERM whatever clients do;
  no thread is left when the data it reads is destroyed; the PID file covers the
  time in which the DNS and UDP threads run.
* `Responder`: no thread outlives its object; no client can hold up the main
  thread in `Join`; what has ended is reclaimed.
* DNS and UDP services: no descriptor is closed under a thread; stopping works
  under load.
* `OriginServer`: an answer belongs to the question; every call returns.
* Tries: each is a map with correct lookups; `Aggregate` loses no origin; a file that is
  read back is whole or an error is told.
* Answers: every client prints what the database says, and nothing else (two known exceptions:
  section 3).
* Messages: bytes and JSON say the same, whatever wraps in 8 bits.
* Configuration: what `Parse` leaves is what the file says.
* Route aggregation: no address is lost or gained, and the result is the smallest.
* Database: half a plain file is never served, and a save is served in the end.

## 2. The modules

| Module | Models | Notes |
|---|---|---|
| `TcpServer` | main thread, `Server`'s TCP side, `Responder` | on its own: the DNS and UDP servers are left out |
| `DnsServer`, `UdpServer` | the two services, one action per stretch of `Start`, `Stop` and `Run` | variables and actions only, composed by `Daemon` |
| `Daemon` | the process: the three modules above, with the calls between them | refines `TcpServer` |
| `OriginClient` | several `OriginServer` objects, the network, `UdpServer::RespondBinary` | |
| `OriginMap` | what `Ipv4Net2AS` promises: a map | the abstract specification |
| `Trie` | what the members of `Ipv4Net2AS` do to an object and read of it: nodes, pointers, iterators, lookups, `Aggregate`, files | operators only |
| `PrefixTrie` | objects of `Ipv4Net2AS` and their operations in any order | extends `Trie`, refines `OriginMap` |
| `Ipv6Trie` | objects of `Ipv6Net2AS`, over the operators of `Trie` | extends `PrefixTrie`, refines `OriginMap` |
| `RouteAggregate` | `CaidaV4Routeviews::ASMapValue`: `Insert`, `Aggregate` | one action per loop iteration |
| `Database` | `AS2IPDb`, `mkcurtaindb`, the update script, `Server::InitDatabases` | the file, its writer and its reader |
| `Messages` | the messages of the UDP service as bytes and as JSON | operators only, used by `Lookup` |
| `Lookup` | loads, answers over TCP, UDP and DNS, `mccurtain`, `mccurtaincgi`, `mccdb` | extends `Trie`, uses `RouteAggregate` and `Messages` |
| `Config` | scanner, grammar, `Config` | |
| `TcpServerProofs`, `DaemonProofs`, `OriginClientProofs`, `RouteAggregateProofs`, `DatabaseProofs` | theorems and proofs | each extends the module it is about |
| `PrefixTrieLemmas` | induction on a measure, and what each operator of `Trie` computes | extends `Trie` |
| `PrefixTrieProofs` | the theorems of both classes of tries and their refinement of `OriginMap` | extends `Ipv6Trie` and `PrefixTrieLemmas` |
| `LookupProofs` | theorems of the way from a question to its answer | extends `Lookup` and `PrefixTrieLemmas` |
| `MC...` | the instances TLC checks | |

### TcpServer

The main thread is the program counter `main`. `conn` is the socket an accept
handler holds, `todo` what is left of a walk over `_responders`, `armed` the
acceptors with an outstanding `async_accept`. A connection stands for the
`Responder` made for it, so `thread[c]` and `running[c]` are the `_thread` and
`_running` of c's `Responder`. Boundaries between actions are where another
thread can see a difference: the constructor is split between the creation of
the thread (`PeerAccepts`) and the store to `_running` (`MarkRunning`), `Run`
between its store of false (`ClearRunning`) and its return (`RunReturns`).

`Join` reads the flag and joins in one action. That loses nothing: once a
responder is listed its flag can only fall, and a `Join` that has seen false does
nothing but wait for the thread to return. The list order of `_responders`
decides nothing, so a walk visits it in any order.

Credence is external. Each of its calls succeeds or fails, with no assumption
about what the client sends. A Boost call that throws without a handler
(`bind` in the constructor, `remote_endpoint()` of a reset connection) makes
`main` "aborted".

SIGTERM has two forms. Until the `signal_set` exists `SigTermHandler` runs in
the signal; afterwards a pending signal (`termPending`) waits for the
`io_context` to run `BoostSignalHandler`.

### DnsServer, UdpServer, Daemon

A service is what its `Start` and `Stop` have done so far (`dnsCall`, `udpCall`),
its flag, its pipe, its thread and its sockets with a count of waiting datagrams.
`DnsServer::Run` reads the socket before it looks at the pipe;
`UdpServer::Run` looks at the pipe first, and takes an interrupted `select` for a
stop byte, because the descriptor sets are then left as they were filled.
`OpenSockets` walks a container of a temporary that no longer exists:
`UdpStart` continues with the addresses or ends the process.

`Daemon` binds the actions together by `main`: `StartDns`, `StartUdp`,
`StartAcceptors` are the `Server` constructor, `StopDns`, `StopUdp`,
`StopReturns` are `Server::Stop`. Its actions are the actions of the three
modules, reached through `INSTANCE`, so there is one definition of each.

### OriginClient

`request[c]` is what `GetOrigin` of object c built last, `buffer[c]` its socket.
Requests and replies stay in the network for ever, hence are lost, duplicated,
delayed and reordered freely. `n` numbers the calls of the process; it is in no
packet and no guard reads it. `SendRequest` may fail and go on, because the code
returns a `ssize_t` as a `bool`. One datagram is read per call, as in the code.

### Trie, PrefixTrie, Ipv6Trie and OriginMap

No two nodes of a trie have the same prefix, so a node's prefix stands for the
pointer to it: an object is a root, a size and a function from prefixes to
(value, two children, parent). Every operation is translated with its pointer
assignments. The parent pointers are modelled because the iterators, and
`Aggregate` through them, use nothing else. `copied` remembers that an object's
nodes come from `copyNode`, which sets no parent.

`OriginMap` knows prefixes and AS numbers only. Its `MapAggregate` says what
aggregation is for: any change that leaves each address its AS numbers and adds no
entry.

`Reload` writes one object to a file in one of the six forms (stream, descriptor,
`FILE`, gz, bz2, path), cuts the file where there is no more room, and reads what
is there into an object. Results are what the code returns, 1, a number of bytes or -1, and
what they mean to a caller is `Written` and `ReadBack`. The file of a copy announces all
entries and holds those an iterator finds, so it has to be read as a failure.

`Ipv6Net2AS` has the members of `Ipv4Net2AS` again, in a header of its own. `Ipv6Trie`
names each and maps it to its lines; a 6 marks the names that the first class has in
`PrefixTrie`. One thing differs and is modelled: addresses are compared as two words of
64 bits (`Words`).

### RouteAggregate

`_prefixSets` is kept as its elements (`prefixes`) and its keys (`lengths`),
because a key may have an empty set. `level` is where the outer reverse iterator
stands, `cur` is `curit`; `nxtit` is always the element behind it. An iteration
of an inner loop is an action, and so is a step of the outer loop. `HaveWider`
has no effect and is an operator. The order of a `std::set` is needed: the
combining loop looks at neighbours only.

### Database

The file is a sequence of blocks; a map has `Blocks` of them and the first
announces how many entries follow. What was written to the stream reaches the
disk piece by piece: any part of it with each write, the rest with the close.
A stream that has failed takes nothing more. A power failure cuts the file
anywhere, because nothing is synchronised. The daemon reads block by block, so that
a save may begin meanwhile. `Load` and `Save` are what the code makes of the
results: `LoadBZ2` and `LoadGZ` turn -1 into true. `saved` and `overlapped` are
read by the properties only: what is on the disk whole, and whether the last load met a
save.

### Lookup

A behaviour starts with a database and an `asn.txt` on the disk. `InitDatabases` loads
them, and its outcomes are those `Database` and `RipeAsnTxt::Load` allow: all, part of one
or of both maps with either result, no names after a line without a space, the end
of the process at a line without a number. Then one run after the other of a client: `client`
is its tool, question, flags and the hosts it still has, `wire` the message in flight. A host is
"up", serves at an IPv6 address only, is "down" or "unknown". TCP responses are values, because
Credence carries standard containers; UDP messages go through `Messages`. The tries the answers
come from are those of `Trie`, the prefixes of a country what `RouteAggregate`
defines as the least set. mccdb runs without a server. Two steps between the words of a
question and its address decide about answers and are modelled: `IsIpv6Address` of mccdb compares with
the address of an invalid string, which is that of "::" too, and `SendResponse` takes what
`FromArpa` finds, from ip6.arpa as well, for an IPv4 address (`InvalidIpv4` if it is none).

### Messages

A stream is a sequence of cells, one for a field and one for each character of a name.
What is written is only as long as the 8 bit count says; the reader takes counts
from the stream and can lose its place, as the code can. The header's 16 bits are kept as
a number, because the constructor sets some of them and leaves the others as they were.

### Config

A file is a text (stanzas with settings) that becomes the tokens of the scanner, one of them
perhaps missing. The generated parser is modelled by what it does: it shifts the one token that can
follow, reducing what is complete, or fails at once, for the grammar has no error
recovery. `parser` is its stack, `input` the scanner's buffer, which a failed
`Parse` leaves as it is. A word outside quotes that is no keyword is a string to the scanner
(`Word`), so that a misspelled keyword is a syntax error.

## 3. What TLC checks

| Run | Question | Expected |
|---|---|---|
| `tcp_server` | responder objects and threads through accept, clean-up, SIGTERM and destruction | pass |
| `tcp_join_doc` | does `Join` join every thread that is "joinable and done"? | violation |
| `daemon` | the whole process: starts that fail, service, SIGTERM, stop, destruction; `Daemon` implements `TcpServer` | pass |
| `origin_client` | ids and answers over a hostile network | pass |
| `trie` | shape, size, traversal, lookups, aggregation, files, refinement of `OriginMap` | pass |
| `trie_copies` | `Ipv6Net2AS`: two objects copied, moved and read from files of each other | pass |
| `trie_copy_doc` | does a copy traverse like a trie? | violation |
| `route_aggregate` | `Aggregate` iteration by iteration | pass |
| `database` | what the daemon serves after updates that fail at any point | pass |
| `database_load_doc` | does `AS2Ipv4Net::Load` tell a failure? | violation |
| `lookup` | from the files to what the user reads, over TCP, UDP, DNS and with mccdb | pass |
| `config` | does `Parse` leave what the file says? | pass |

Each property of a passing run has a mutant in `PROJECT.json`: a change to one
mapped definition, of a kind one could make in the code, under which the property
fails.

### Properties

`tcp_server`

* `ThreadsOwned`: a joinable thread belongs to a `Responder` that is listed or
  still being constructed. It is what lets `Run` use `_peer` and `_running`.
* `NoThreadAfterTeardown`: no responder thread is left when the `Server`'s data is
  destroyed.
* `OnlyAllowedServed`: a thread exists only for a connection that
  `ClientAllowed` admits.
* `JoinNeverWaitsForClient`: whenever `Join` would wait, the thread has only its
  return left: no client can keep the main thread in a walk.
* `FinishedIsErased`, `GoneClientEndsThread`, `TermEndsProcess`: reclaiming and
  termination.

`daemon`

* `DescriptorsOutliveThreads`, `DataOutlivesThreads`: pipes, sockets and data
  are closed or destroyed after the threads that use them.
* `PidFileCoversService`: neither the DNS nor the UDP thread runs without a PID file. (TCP is not
  in it: responder threads may still answer after `RemovePID`, until the `Server` is destroyed.)
* `UdpServesUntilTerm`: the interrupted `select` is harmless, because SIGTERM is
  the one signal the daemon handles.
* `DaemonTermEndsProcess`: both services stop under unending traffic.
* `ImplementsTcpServer`: every step of `Daemon` is one of `TcpServer` or leaves
  its variables alone.

`origin_client`

* `ConcurrentIdsDiffer`: equal ids of calls under way are a multiple of `IdMod`
  calls apart.
* `StaleAnswerNeedsWrap`: an accepted response answers this call, or one at
  least `IdMod` calls before, and always a call of the same object.
* `GetOriginReturns`.

`trie`, `trie_copies`

* `WellFormed`, `SizeCountsEntries`: the representation. No node is there without a purpose,
  children and parents point to each other, and `_size` is the number of entries.
* `TraversalSorted`: forward loops yield all entries in order, backward loops
  the reverse.
* `LookupsAgree`: `find`, `find_matches`, `find_longest` and `find_wider` find what
  a search of all entries finds.
* `AggregateCombinesAll`: `Aggregate` of an object without copied nodes leaves no two halves of a
  prefix with equal origins. (Of copied nodes its iterator does not reach all, see the findings.)
* `ImplementsOriginMap`: every operation has the effect, and the result, that
  it has on a map; `Aggregate` keeps the origins of all addresses; a file is
  read back whole, or its writer or its reader is told.
* `ReadersAgree` (`trie_copies`): the lookups of `Ipv6Net2AS`, in copies as well, find what a search
  of all entries finds; without copies `begin()`, `rbegin()` and each `++` or `--` of an iterator lead to
  the first, the last, the next and the previous entry.

`route_aggregate`

* `TypeOK` includes that no iterator stays at an erased element.
* `CoverageKept`: at every step an address is covered by the prefixes kept
  exactly if it was by those inserted.
* `AggregateMinimal`: one sweep leaves the widest prefixes whose addresses all
  are covered, hence the smallest set.
* `AggregateReturns`.

`database`

* `LoadServesLastSave`: unless it met a save or could not open the file, a start serves
  the last save if that reached the disk; if not, a plain file is refused or
  turns out whole. It says nothing of a start that met a save, which may serve a mixture,
  nor of a compressed file that a save left unfinished, of which a part may be served.
* `SavedIsServed`: a save on the disk is served in the end, unless it is lost, or followed
  by another, or the file cannot be opened.

`lookup`

* `AnswersAreComplete`: if both files were read, each client prints what the database
  says: for an address each covering prefix, widest first, with its origins once and
  by name; for an AS its prefixes; for a country the fewest prefixes with its
  addresses, or its ASes. Two exceptions are stated as the code has them: mccdb prints nothing
  for "::" (`TakenForNone`), and a DNS question about an IPv6 address gets the answer of
  255.255.255.255 (`FamilyAsked`, `AddressAsked`).
* `NothingInvented`: whatever became of the loads, nothing is printed for an address, an AS or a
  country that the database does not have; with the same exception for DNS.
* `FallsBackToNextHost`: without losses there is no answer only if no host could give any. A response
  that does not fit a datagram counts as none, and the call that a host without an address ends by an
  exception is left out.
* `FormsAgree`: every datagram says the same as JSON, whatever was in the uninitialised bits.

`config`

* `ParseMeansFile`: `Parse` returns true for exactly the files that follow the grammar with valid
  addresses, ports and prefixes, and then nothing in the `Config` comes from an earlier file.
  Every setting has the value the file gives it once (`AsSaidOnce`), or its default: the manual's
  (`mccurtaind.cfg.5`) for `facility`, `level`, `logLocations`, `dbfile` and `asntxt`, the code's for
  the addresses. There is one exception: a service stanza without `keyDirectory` leaves it empty, and
  not at the default of `ServiceConfig::Clear`. Of a file that gives a stanza or a setting more than
  once the manual says nothing; there the property states the rules of the code (`AsSaidAgain`),
  which differ from stanza to stanza: the last `service` and the last `databases` stanza count as a
  whole, `syslog` stanzas add up, and a "yes" of `logLocations` stays. What is expected is computed
  from the settings of the text, not by the parser.

### Bounds, and why they are enough

* `tcp_server`: three connections, one of them not allowed, to one acceptor. Two
  responders at once, one running and one ending, are what a walk has to tell
  apart, and the third connection starts a walk with both. About 126,000
  states. The number of acceptors matters only for `armed`, and each
  handler touches one; `daemon` has two.
* `daemon`: one connection beside the two service threads, two acceptors, two
  UDP sockets, one waiting datagram per socket. A longer queue only repeats the
  same loop iteration; an unending supply comes from `DnsArrive` and
  `UdpArrive`. About 237,000 states.
* `origin_client`: ids wrap at `IdMod = 2`, so that four calls (`MaxCalls`) of two
  objects go round twice; `BufLimit = 2` lets a stale response wait ahead of
  a fresh one. About 243,000 states. The theorems of section 5 hold for every
  value of all these constants.
* `trie`: `Width = 3` and `MaxEntries = 3` with two ASes: leaf, split, parent
  and branching cases one above the other, removals that compact
  two levels, equal, contained and different sets of origins, and combinations that can be
  combined again. The ASes are interchangeable (`SYMMETRY`), and no operation reads `ret`,
  which `VIEW` leaves out; about 6,900 states.
* `trie_copies`: two objects of `Width = 2` with two entries each, compared in two words of a
  bit: a copied branching node, insertions and removals above, below and beside it, and prefixes that
  differ in either word. The objects are interchangeable.
* `lookup`: four databases with nested, adjacent, shared, default and missing prefixes in both
  families, five files of names with every kind of line, four lists of hosts. `Byte = 4` and
  `DatagramLimit = 16` make a name that wraps and an answer that does not fit. Two have a
  default route, of IPv4 or of IPv6, so that 255.255.255.255 and "::" are covered. About 517,000 states.
* `config`: files of up to two of sixteen stanzas, valid or not, the manual's example of a syslog
  stanza among them, and of one with any token missing, and the manual's complete example with its
  `Facility` put right, parsed one after the other while at most four tokens (`MaxLeftover`) are left
  over. Two stanzas of a name are what repetition needs. About 40,000 states.

* `route_aggregate`: up to five of the fifteen prefixes of up to three bits, with repeated
  aggregation (about 287,000 states): cascades of combinations over all three levels,
  pairs that are neighbours without being halves, and levels that a combination
  creates. The first two properties are theorems for any width and number.
* `database`: an installed database and two updates, so that a good save follows a
  failed one and the reverse; two blocks to a map, so that one can be
  cut in its middle; one power failure. "gz" is left to `database_load_doc`: here it
  behaves as "bz2" does. About 13,000 states.

`CHECK_DEADLOCK FALSE` stands in the runs whose system stops: a process that has
ended, a client that has made its `MaxCalls` calls, a script that has run its `MaxUpdates`.
The tries, the route tables, clients and `Config` never stop, and deadlock is checked.

### Fairness

* The main thread has weak fairness as a whole (`MainStep`, `DaemonMain`): the
  scheduler runs it whenever it can go on. It never waits for a client:
  `_peer.Accept` has timeouts of 2000 ms.
* A responder thread is only assumed to go on where it waits for nobody
  (`Unblocked`): in the last steps of `Run`, and in a receive or send of
  a connection whose client has gone, which fails in the end. A client that stays
  connected may be silent for ever. Liveness does not depend on it.
* The service threads have weak fairness on their own steps, whose guards are
  the readiness that `select` waits for. Datagrams may arrive for ever.
* `OriginServer`: weak fairness of each object's steps, because `select` has a timeout of
  two seconds.
* `Aggregate` is one call in one thread: weak fairness of its steps.
* `Database`: weak fairness of the script and of the daemon, two processes that wait
  for nobody. Updates need not happen.
* Nothing is assumed of clients, network, server responses, accept errors or signals.

## 4. Findings

1. `Responder::Join` (`apps/mccurtaind/DwmMcCurtainResponder.cc:73-74`). The
   constructor starts the thread and stores true in `_running` afterwards. A
   thread that ends first, for example after a failed authentication, has its
   false overwritten. `Join`, documented (`.hh:84-85`) as joining a thread that is
   "joinable and done", then never does, and at shut-down `~thread()` of a joinable
   thread terminates the process. Run `tcp_join_doc`.
2. `copyNode` (`classes/include/DwmMcCurtainIpv4Net2AS.hh:1456-1468`) sets no
   `_parent`. Loops over a copy, which climb by it, end after the first
   leaf, while `begin()` is documented (629-631) to visit the
   entries in order. Run `trie_copy_doc`. Nothing else goes wrong in
   a copy: `trie_copies` checks lookups and the map it stands for, and that its file,
   which lacks entries, is refused.

3. `AS2Ipv4Net::Load` (`classes/src/DwmMcCurtainAS2Ipv4Net.cc:96` and `108`) returns
   the int of `BZRead` and of the gzip `Read` as a bool. Both are documented as -1 on
   failure, and `Load` as "true on success, false on failure", so for compressed files
   it returns true always. `AS2IPDb` tests the same results as conditions. Run
   `database_load_doc`.

Met on the way and left out of the list, for want of a documented promise or of a run:

* Server: a failed accept is never armed again; `remote_endpoint()` may throw in
  a handler without a catch; a `Responder` without a thread stays listed for
  good; after a failed load AS questions are answered from what was read.
* UDP client: once the ids have wrapped, a late response to another address's request
  is returned as the answer (`StaleAnswerNeedsWrap` says that nothing less does it); one late datagram
  makes all further calls of an `OriginServer` read the answer of the call before;
  `sin6_family` is set to `AF_INET` (`DwmMcCurtainOriginServer.cc:125`), so that an IPv6 server
  is never reached; the constructor throws for a host without an address, which ends
  `mccurtain -u` with hosts left to try; its exit status is always 0 otherwise; the client's default
  port (2126) differs from the one the daemon takes when its configuration names none (2124).
* Loads: the result of closing a saved database is not looked at; a line of `asn.txt` without a space
  clears the names; `Ipv4Net2AS(const AS2Ipv4Net &)` leaves `_root` and `_size` uninitialised
  (`DwmMcCurtainIpv4Net2AS.cc:74-77`).
* Clients: mccdb takes "::" for no IPv6 address (`apps/mccdb/mccdb.cc:75`), prints nothing and returns
  0, though `mccdb.1:50-52` promises the matches of an IPv6 address; written "0::0" it is
  taken for AS 0. `mccurtaincgi` takes an IPv6 address for an AS number.
* DNS: a question about a name under ip6.arpa is answered with the IPv4 prefixes that contain
  255.255.255.255, if there are any (`DwmMcCurtainDnsServer.cc:248-252`).
* Configuration: the manual's examples write `Facility` (`mccurtaind.cfg.5:43` and `157`), which is no
  keyword (`ConfigLex.lex:40`), so that `Parse` rejects the file as a syntax error; its description of
  the service stanza spells `allowedlClients`. `TestConfig.cc:56-57` expects the default
  `/usr/local/etc/mccip2as.db` for `dbfile`, the manual and `DatabaseConfig::Clear` say
  `/usr/local/etc/mccas2ip.db`. A `service` stanza without `keyDirectory` leaves it empty, not at the
  default of `ServiceConfig.cc:138`; several `syslog` stanzas are merged while of the others the last
  counts; `logLocations = "no"` does not undo an earlier "yes"; 255.255.255.255 is accepted as a TCP
  address and not as a UDP one; after a failed `Parse` the scanner keeps what it had read.

## 5. What is proved

TLAPS proves the following for every value of the constants that satisfies the
named assumptions of the modules. No step is taken on trust.

`TcpServerProofs` (from `TcpAssumption`): `TypeOK`, `ThreadsOwned`,
`OnlyAllowedServed`, `JoinNeverWaitsForClient` and `NoThreadAfterTeardown` are
invariants of `Spec`, for any number of connections and acceptors.
None is inductive alone. `JoinNeverWaitsForClient` could be broken by a
connection handled twice, whose responder is listed with a flag still false
while a second thread starts. `IInv` adds where a connection can be:

* `BacklogInv` and `OutInv`: a connection not accepted, or not made, has neither
  thread nor `Responder`;
* `HandlerInv`: the connection of the executing handler is out of the backlog,
  not listed, and without a thread until `PeerAccepts`; from "accept" on it is an
  allowed one;
* `WalkInv`: the walk that destroys the list has all of it still to visit, hence
  the list is empty in "teardown", from which `NoThreadAfterTeardown` follows with
  `ThreadsOwned`.

`DaemonProofs` (from `DaemonAssumption`): `DaemonSpec` implements `TcpServer`'s `Spec`
(`DaemonImplementsTcp`, with the identity as the mapping: a step of a service stutters, the
crash of `StartUdp` is a failure of `ConstructServer`), and `DaemonTypeOK`,
`DescriptorsOutliveThreads`, `DataOutlivesThreads`, `PidFileCoversService` and
`UdpServesUntilTerm` are invariants of it, for any connections, acceptors, UDP addresses and sizes of the buffers.
Through the refinement, what `TcpServerProofs` says of the responders holds here (`SameSpec`,
`TcpHolds`) and is not proved again. `DInv` adds what the services need:

* `CallsInv`: how far the calls of `Start` and `Stop` are at each point of the main thread, DNS
  before UDP;
* `DnsInv` and `UdpInv`: a thread that was not joined has its pipe (the UDP thread, its sockets
  too) and its call is between `Start` and the join; the UDP thread is neither told to stop nor
  sent the byte before `Stop` is called;
* `TermInv` and `PidInv`: `Stop` is called because of a SIGTERM, and without a PID file the main
  thread is before `SavePID`, past `RemovePID` or ended.

The responders and the environment move the main thread, the PID file and the signals only as
`MainMoves` and `SignalsStay` say; that is all the invariant needs of them.

`OriginClientProofs` (from `OriginAssumption`): `TypeOK`,
`ConcurrentIdsDiffer` and `StaleAnswerNeedsWrap`, for any number of objects, any width
of the id and any size of buffers. The argument: `msgid = calls % IdMod`, so the id
of a request is the number of its call modulo `IdMod` (`RequestsNumbered`), and no
two objects hold a request of the same number (`NumbersDiffer`). Every
datagram about is `Genuine`: numbered at most as its client's last request, and
equal to it if numbered the same. A response accepted by its id therefore
answers the last request, or one whose number is congruent and smaller, and such
numbers are at least `IdMod` apart (`SameRemainderApart`, from `RemainderUnique` and
`DivMod`).

`RouteAggregateProofs` (from `RouteAssumption`): `TypeOK` and `CoverageKept`, for any
width and any sets of prefixes; together they are inductive. A prefix may go
because one that contains it stays (`WiderContains`: `HaveWider` finds a shorter
one, which the erasure does not touch) or because its pair is replaced by a prefix that
covers the same addresses (`HalvesContain`: an address of the wider one
continues with 0 or 1). The iterator's part of `TypeOK` rests on `BeforeStrict`
and `AfterFacts`: the element behind an erased one is another one, of the
same set.

`AggregateMinimal` (`AggregateLeavesMinimal`), that one sweep of `Aggregate` leaves the widest
prefixes whose addresses all are covered, needs an invariant of each of the two loops, in `MInv`:

* `SwallowInv`: a prefix that lies within another one of the set is shorter than the level the
  sweep is at, or of that level and not before `cur`;
* `CombineInv`: the set is an antichain, and what is full at the lengths the sweep has
  left behind lies within a prefix of the set. It is why one sweep from the longest
  prefixes to the shortest is enough: a combination adds to the next level only, and the
  two halves of a prefix, both in the set, are neighbours in the order of a `std::set`
  (`HalvesAdjacent`), so that looking at neighbours misses none.

`DatabaseProofs` (from `DatabaseAssumption`): `TypeOK` and `LoadServesLastSave`, for any number of
blocks, updates and power failures. The invariant is `TypeOK` and

* `FileInv`: the disk always has the beginning of one save, and all of `saved` if that is set;
* `SaveInv`: of the save that runs, what is pending continues what the disk has, as long as the
  stream has not failed, and a stream that has failed has nothing pending;
* `ReadInv` and `LoadInv`: what a load has read of a file that nobody writes is its beginning,
  and a map that was taken for read is whole if the file is plain or long enough.

`PrefixTrieProofs` (from `TrieAssumption`: widths and bounds are numbers, the words divide the width,
and the two null values differ from the others): `TypeOK`, `WellFormed`, `SizeCountsEntries`,
`LookupsAgree`, `TraversalSorted`, `AggregateCombinesAll` and the refinement `ImplementsOriginMap` (`TrieIsMap`), for any
width of addresses (32 bits included), any AS numbers, objects and number of entries. The inductive
invariant `IInv` says of each object:

* `Healthy`: the nodes are a tree (`Tree`: only a node with a value lacks a child, a child
  extends its node by the bit it hangs on, and each node but the root is a child), a `_parent` is
  the right one or null, the nodes are finitely many and `_size` is the number of values;
* `Parents(t, TRUE)`, where no node was copied: every `_parent` is the right one;
* `_size` is within `MaxEntries`.

The argument has three layers. `PrefixTrieLemmas` has the order of prefixes, and one lemma for what
each loop and recursion of the class computes. A recursive function has a value because its argument
gets smaller (`LinearRecursion`), and what that is follows by induction on the measure
(`MeasureInduction`), whose predicate is a set of arguments. Insertion is one notion,
`Grafted`, for leaf, parent and split; removal is `Pruned`, which holds of each
subtree the recursion returns from. Then each operation keeps `IInv`; `Aggregate` is a sequence of
erasures and insertions that keep the origins of all addresses (`Keeps`), whatever its iterators
do, so that copied nodes are covered as well. That it ends with nothing to combine (`AggregateLeavesNoHalves`)
follows its iterator: where no node was copied, the search for the next neighbour stops at an entry
that lies ahead (`SeekFinds`), so a pass that combines nothing has looked at every entry
(`PassThatFindsNothing`); a pass that combines leaves an entry less, and never none, so that within
as many passes as there are entries one combines nothing (`EnoughRounds`). Last, each action is one of `OriginMap` under the
mapping `Maps` (`InsertMaps`, ..., `ReloadMaps`), which is where the results of the six pairs of
read and write functions are compared with what is in the file.

`Ipv6IsMap` and `Ipv6ReadersAgree` say of the second class that it is the same map and that its
readers find what they should. Every step of `Ipv6Trie` is one of `PrefixTrie` (`NextSame`), so that
`IInv` holds of it (`Ipv6Invariant`) for any number of words, and with it the theorems above; a step
of an iterator is then the next entry by `SuccessorIs` and `PredecessorIs`.

`LookupProofs` (from `TrieAssumption` and `LookupAssumption`: the ASes are a finite set of numbers,
`Byte` exceeds the number of prefixes that contain an address, a database has finitely many routes):
`AnswersAreComplete`, `NothingInvented` (both with the exceptions of section 3),
`FallsBackToNextHost` and `FormsAgree`, for any databases,
files of names, lists of hosts, widths, limits of a datagram and initial flags of a header.

* What the definitions that call themselves compute. Such a definition has a value
  because what is computed at an argument depends on smaller ones only (`ComputesSome`,
  `LoopComputes`). A trie that is loaded from pairs of prefix and AS tells those pairs, in whatever order
  (`LoadTells`); of any `asn.txt` a table of names is read, or none (`AsnTxtReads`); what is written
  of a list is as long as its 8 bit count says and is read back to the last cell
  (`WrittenIs`, `TakenIs`, `ReadWrittenResponse`), the flags field by field (`HeaderKept`).
* What an answer holds: the prefixes of the trie that contain the address, widest first, each with all
  its origins (`MatchesAnswer`, from `LookupsOf` of `PrefixTrieLemmas`); the fewest prefixes of a country
  cover the same addresses and none contains another (`MinimalCovers`, `MinimalApart`).
* `LInv` (`LookupInvariant`) is inductive and says what holds between the files and the printing.
  `ServerInv`: what the server has loaded tells a part of the database, all of it if
  its load was good; `WireInv`: what is in flight is the question of the client that waits or the answer to
  it; `ClientInv`: unless something was lost, the hosts that could answer are still to be
  asked (`Remains`). `FallsBackToNextHost` needs `ClientInv`, because at the end no host is left;
  `FormsAgree` needs `WireInv`, because only a message that was written can be read.
* `OutInv` (`PrintedInvariant`), inductive relative to `LInv`: what a client printed was made of pairs
  that the database has and of the names of `asn.txt` or none, and of all of them if both files were read
  completely. It speaks of the files, which stay, and not of the server's tries: mccdb has
  none of those. `NothingInvented` and `AnswersAreComplete` follow (`PrintedRight`).

TLC finds the inductive invariants of the TCP server, the daemon and the UDP client to hold on the
instances of `tcp_server`, `daemon` and `origin_client` as well.

Only model-checked:

* all liveness, `Daemon`'s included (beyond this prover, as is ENABLED);
* `ParseMeansFile` of `Config`, which compares the parser with what texts of any length say:
  an induction over data for each list of the grammar.

## 6. What is not modelled, and assumptions

* Threads can be created; `remove` of the PID file succeeds; a datagram that
  `select` announced can be read; at least one UDP address is configured.
* The undefined read in `OpenSockets` has two outcomes here: the addresses, or
  the end of the process.
* What CAIDA's route files hold is taken as the tools read it; a truncated gzip file, of which
  `CaidaV4Routeviews::Load` keeps the beginning, is not told from a whole one. `Ipv4Net2AS::Load` of
  such a table inserts each of its routes, as the load from an AS map does.
* `AS2Ipv4Net::Save`, its descriptor and `FILE` variants and `AS2Ipv6Net`'s files repeat what
  `Database` has for the rest of the file.
* Option parsing, HTML and columns, the printing of a configuration, the encoding of Credence's messages:
  layout and conversions that no property here is about. The one token for an address with its port
  hides what the scanner keeps of a tuple with an invalid port.
* Questions a tool does not take for what they are: an IPv6 address given to `mccurtaincgi`, which it
  takes for an AS number, IPv6 addresses with dots, which `mccurtain` and `mccurtaincgi` take for IPv4, and the
  other forms in which an address can be written.
* `RespondJson` and the JSON requests of the UDP server: nothing calls them. The JSON forms of the
  messages are modelled as functions.
* What the daemon reads of its configuration are the constants `Acceptors`, `Allowed` and `Addrs` of
  the other modules.

## 7. Order of the work

`TcpServer` with proofs; the services and `Daemon`, with proofs; `OriginClient` with proofs;
`OriginMap` and `PrefixTrie`; `RouteAggregate` with proofs; `Database`; files of the tries and
`Ipv6Trie`; `Messages` and `Lookup`; `Config`; the proofs of `AggregateMinimal`, of `Database`, of
`PrefixTrie` with its refinement and its aggregation, of `Lookup` with `Messages`, and of `Ipv6Trie`.

What an extension would begin with: `AS2Ipv4Net::Save` in `Database`, and `ParseMeansFile` for one
stanza of any length.
