------------------------------- MODULE Lookup -------------------------------
(***************************************************************************)
(* From a question to what the user reads.  mccurtaind loads the database  *)
(* and asn.txt, whatever becomes of it serves, and answers over TCP        *)
(* (mccurtain, mccurtaincgi), UDP (mccurtain -u) and DNS; mccdb loads the  *)
(* same files and answers by itself.                                       *)
(*                                                                         *)
(* A map of the database, AS2Ipv4Net or AS2Ipv6Net, gives each AS its set  *)
(* of prefixes, none if it is not in the map.  Sets stand for lists whose  *)
(* order is that of an unordered map.                                      *)
(***************************************************************************)
EXTENDS Trie

CONSTANTS Countries,      \* country codes
          Databases,      \* what is in the database file
          AsnTxts,        \* what is in asn.txt: sequences of lines
          HostLists,      \* the lists of hosts a user gives to mccurtain
          Junk,           \* what the flags of a header may be initially
          Byte,           \* 2^8
          DatagramLimit   \* what a datagram's buffer holds

Families == {4, 6}

M == INSTANCE Messages
R == INSTANCE RouteAggregate WITH MaxRoutes <- 0, End <- "end", prefixes <- 0, lengths <- 0,
     phase <- 0, level <- 0, cur <- 0, inserted <- 0

(* "up" serves, "ipv6" serves at an IPv6 address, "down" answers nothing,  *)
(* "unknown" has no address.                                               *)
Hosts == {"up", "ipv6", "down", "unknown"}
AsnLines == [kind : {"named"}, as : ASes, entry : [countryCode : Countries, name : Nat]]
            \cup [kind : {"unnamed", "spaceless", "numberless"}]

(* The prefixes with their ASes.                                           *)
Pairs(nets) == UNION {{<<p, as>> : p \in nets[as]} : as \in ASes}

(* AS numbers have 32 bits.  Every prefix of a response fits its 8 bit     *)
(* count: an address has at most one of each length.                       *)
ASSUME LookupAssumption ==
    /\ ASes \subseteq Nat /\ IsFiniteSet(ASes)
    /\ Byte \in Nat /\ Byte > Width + 1
    /\ DatagramLimit \in Nat
    /\ \A d \in Databases : /\ d \in [Families -> [ASes -> SUBSET Prefixes]]
                           /\ \A fam \in Families : IsFiniteSet(Pairs(d[fam]))
    /\ \A lines \in AsnTxts : lines \in Seq(AsnLines)
    /\ \A hosts \in HostLists : hosts \in Seq(Hosts)
    /\ \A junk \in Junk : junk \in Nat /\ junk < 65536

VARIABLES
    db,       \* the database file
    asnfile,  \* asn.txt
    server,   \* mccurtaind: _as2ipv4 and _as2ipv6, _ipv42as and _ipv62as, _asntxt
    client,   \* one run of one of the tools
    wire      \* the request or the response in flight

vars == <<db, asnfile, server, client, wire>>

NoNets == [as \in ASes |-> {}]
NoNames == [as \in {} |-> [countryCode |-> "", name |-> 0]]

-----------------------------------------------------------------------------
(* Loading.                                                                *)

(* Load(as2ip4) inserts each AS of each prefix, in the order of a map that *)
(* is hashed.                                                              *)
LoadPairs(pairs) ==
    LET loaded[S \in SUBSET pairs] ==
            IF S = {} THEN EmptyTrie
            ELSE LET e == CHOOSE e \in S : TRUE
                 IN  AddOrigins(loaded[S \ {e}], e[1], {e[2]})
    IN  loaded[pairs]
LoadIpv4Net2AS(nets) == LoadPairs(Pairs(nets))
LoadIpv6Net2AS(nets) == LoadPairs(Pairs(nets))

(* A line without a country code is skipped; one without a space empties   *)
(* the table, and on one without a number std::stoul throws.               *)
LoadLine(r, line) ==
    IF r.status # "good" THEN r
    ELSE CASE line.kind = "named" ->
                 [r EXCEPT !.names = [as \in DOMAIN @ \cup {line.as} |->
                                         IF as = line.as THEN line.entry ELSE @[as]]]
           [] line.kind = "unnamed" -> r
           [] line.kind = "spaceless" -> [names |-> NoNames, status |-> "failed"]
           [] line.kind = "numberless" -> [r EXCEPT !.status = "thrown"]

\* A file that cannot be opened is read like an empty one.
LoadAsnTxt(lines) ==
    LET read[k \in 0 .. Len(lines)] ==
            IF k = 0 THEN [names |-> NoNames, status |-> "good"] ELSE LoadLine(read[k - 1], lines[k])
        r == read[Len(lines)]
    IN  IF r.status = "good" /\ r.names = NoNames THEN [r EXCEPT !.status = "failed"] ELSE r

Part(nets, S) == [as \in ASes |-> {p \in nets[as] : <<p, as>> \in S}]
Parts(nets) == {Part(nets, S) : S \in SUBSET Pairs(nets)}
Tables(nets4, nets6) == [fam \in Families |-> IF fam = 4 THEN nets4 ELSE nets6]

(* What AS2IPDb::Load leaves in the two maps.  It may return true for a    *)
(* part of them (module Database).                                         *)
DbLoads ==
    LET parts == {Tables(nets4, NoNets) : nets4 \in Parts(db[4])}
                 \cup {Tables(db[4], nets6) : nets6 \in Parts(db[6])}
    IN  {[ok |-> TRUE, as2ip |-> db]} \cup [ok : BOOLEAN, as2ip : parts \ {db}]

AsnLoads == {LoadAsnTxt(asnfile), LoadAsnTxt(<<>>)}

NoTries == [fam \in Families |-> EmptyTrie]

(* A thrown exception ends the daemon; any other failure does not.         *)
InitDatabases ==
    /\ server.status = "starting"
    /\ \E load \in DbLoads, asn \in AsnLoads :
          server' = IF load.ok
                    THEN [status |-> IF asn.status = "thrown" THEN "ended" ELSE "serving",
                          as2ip  |-> load.as2ip,
                          net2as |-> [fam \in Families |->
                                         IF fam = 4 THEN LoadIpv4Net2AS(load.as2ip[4])
                                                    ELSE LoadIpv6Net2AS(load.as2ip[6])],
                          asntxt |-> asn.names]
                    ELSE [status |-> "serving", as2ip |-> load.as2ip,
                          net2as |-> NoTries, asntxt |-> NoNames]
    /\ UNCHANGED <<db, asnfile, client, wire>>

-----------------------------------------------------------------------------
(* The answers of mccurtaind.                                              *)
Ascending(S) ==
    CHOOSE s \in [1 .. Cardinality(S) -> S] : \A i, j \in DOMAIN s : i < j => s[i] < s[j]

(* An AS with its entry in asn.txt, or else with the one given.            *)
Named(names, as, unknown) ==
    LET entry == IF as \in DOMAIN names THEN names[as] ELSE unknown
    IN  [number |-> as, countryCode |-> entry.countryCode, name |-> entry.name]

Unnamed == [countryCode |-> "", name |-> 0]
Dashes == [countryCode |-> "--", name |-> 0]

Match(t, p, names, unknown) ==
    LET ases == Ascending(t.node[p].value)
    IN  [prefix |-> p, ases |-> [i \in DOMAIN ases |-> Named(names, ases[i], unknown)]]

MatchesOf(t, a, names, unknown) ==
    LET found == FindMatches(t, a)
    IN  [i \in DOMAIN found |-> Match(t, found[i], names, unknown)]

GetIpv4AddrResponse(a) == MatchesOf(server.net2as[4], a, server.asntxt, Unnamed)
GetIpv6AddrResponse(a) == MatchesOf(server.net2as[6], a, server.asntxt, Unnamed)

\* Mutant: the IPv4 prefixes are given for the IPv6 prefixes.
GetASPrefixesResponse_Ipv4Twice(as) ==
    [as |-> Named(server.asntxt, as, Unnamed), nets |-> Tables(server.as2ip[4][as], server.as2ip[4][as])]

GetASPrefixesResponse(as) ==
    [as   |-> Named(server.asntxt, as, Unnamed),
     nets |-> Tables(server.as2ip[4][as], server.as2ip[6][as])]

GetCountryPrefixesResponse(cc) ==
    {resp \in {GetASPrefixesResponse(as) :
                  as \in {n \in DOMAIN server.asntxt : server.asntxt[n].countryCode = cc}} :
        \E fam \in Families : resp.nets[fam] # {}}

(* Responder::HandleRequest: one response for each kind of request.        *)
SendIpv4AddrResponse(q) == q.kind = "ipv4" /\ wire' = GetIpv4AddrResponse(q.key)
SendIpv6AddrResponse(q) == q.kind = "ipv6" /\ wire' = GetIpv6AddrResponse(q.key)
SendASPrefixesResponse(q) == q.kind = "as" /\ wire' = GetASPrefixesResponse(q.key)
SendCountryPrefixesResponse(q) == q.kind = "country" /\ wire' = GetCountryPrefixesResponse(q.key)

Dispatch(q) ==
    \/ SendIpv4AddrResponse(q) \/ SendIpv6AddrResponse(q)
    \/ SendASPrefixesResponse(q) \/ SendCountryPrefixesResponse(q)

\* Mutant: an AS that asn.txt does not name is left out.
GetV4AddrResponse_NamedOnly(a) ==
    LET m == MatchesOf(server.net2as[4], a, server.asntxt, Dashes)
    IN  [request |-> <<4, a>>,
         prefixes |-> [i \in DOMAIN m |->
             [m[i] EXCEPT !.ases = SelectSeq(@, LAMBDA as : as.number \in DOMAIN server.asntxt)]]]

GetV4AddrResponse(a) ==
    [request |-> <<4, a>>, prefixes |-> MatchesOf(server.net2as[4], a, server.asntxt, Dashes)]
GetV6AddrResponse(a) ==
    [request |-> <<6, a>>, prefixes |-> MatchesOf(server.net2as[6], a, server.asntxt, Dashes)]

GetResponse(request) ==
    IF request[1] = 6 THEN GetV6AddrResponse(request[2]) ELSE GetV4AddrResponse(request[2])

-----------------------------------------------------------------------------
(* The tools.                                                              *)

Tcp == {"mccurtain", "mccurtaincgi"}
Questions ==
    [kind : {"ipv4", "ipv6"}, key : Addresses] \cup [kind : {"as"}, key : ASes]
    \cup [kind : {"country"}, key : Countries] \cup [kind : {"all"}, key : {0}]
Understood == [mccurtain |-> {"ipv4", "ipv6", "as", "country"},
               mccurtaincgi |-> {"ipv4", "as"},
               udp |-> {"ipv4", "ipv6"},
               dns |-> {"ipv4", "ipv6"},
               mccdb |-> {"ipv4", "ipv6", "as", "country", "all"}]

NoOutput == [kind |-> "nothing"]

Idle == [tool |-> "mccdb", question |-> [kind |-> "as", key |-> 0], flags |-> {},
         given |-> <<>>, hosts |-> <<>>, phase |-> "idle", id |-> 0, lost |-> FALSE, whole |-> FALSE, out |-> NoOutput, exit |-> 0]

Init ==
    /\ db \in Databases
    /\ asnfile \in AsnTxts
    /\ server = [status |-> "starting", as2ip |-> Tables(NoNets, NoNets),
                 net2as |-> NoTries, asntxt |-> NoNames]
    /\ client = Idle
    /\ wire = <<>>

(* The flags that matter to a question.                                    *)
Flags(tool, kind) ==
    CASE tool = "mccurtain" /\ kind \in {"as", "country"} -> SUBSET {"4", "6", "v"}
      [] tool = "udp" -> SUBSET {"j"}
      [] tool = "mccdb" /\ kind \in {"as", "all"} -> SUBSET {"4", "6"}
      [] tool = "mccdb" /\ kind = "country" -> SUBSET {"4", "6", "p"}
      [] OTHER -> {{}}

(* mccurtain shows the IPv4 prefixes by default, mccdb both.               *)
Requested(flags) == {fam \in Families : (IF fam = 4 THEN "4" ELSE "6") \in flags}
ShownByMccurtain(flags) == IF Requested(flags) = {} THEN {4} ELSE Requested(flags)
ShownByMccdb(flags) == IF Requested(flags) = {} THEN Families ELSE Requested(flags)
Shown(tool, flags) ==
    CASE tool = "mccurtain" -> ShownByMccurtain(flags)
      [] tool = "mccurtaincgi" -> {4}
      [] OTHER -> ShownByMccdb(flags)

(* mccurtaincgi has one host, and so has a resolver; mccdb does not care   *)
(* whether there is a server.                                              *)
Run(tool, q, flags, hosts) ==
    /\ client.phase = "idle"
    /\ (server.status = "starting") <=> (tool = "mccdb")
    /\ q.kind \in Understood[tool]
    /\ flags \in Flags(tool, q.kind)
    /\ tool \in {"mccurtaincgi", "dns"} => Len(hosts) = 1
    /\ tool = "mccdb" => hosts = <<>>
    /\ client' = [Idle EXCEPT !.tool = tool, !.question = q, !.flags = flags, !.given = hosts,
                              !.hosts = hosts, !.phase = "hosts"]
    /\ UNCHANGED <<db, asnfile, server, wire>>

Finish(out, exit) == client' = [client EXCEPT !.phase = "done", !.out = out, !.exit = exit]
FinishWith(out) ==
    client' = [client EXCEPT !.phase = "done", !.out = out, !.exit = 0,
                             !.whole = server.as2ip = db /\ server.asntxt = LoadAsnTxt(asnfile).names]

Serves(host) == server.status = "serving" /\ host \in {"up", "ipv6"}

\* Mutant: only the first host of the list is tried.
SkipHost_GiveUp ==
    client' = [client EXCEPT !.hosts = <<>>]

SkipHost == client' = [client EXCEPT !.hosts = Tail(@)]

(* GetPeer: the first host that a connection is made and authenticated     *)
(* with is the one that is asked.                                          *)
GetPeer ==
    /\ client.phase = "hosts" /\ client.tool \in Tcp
    /\ \/ client.hosts # <<>> /\ Serves(Head(client.hosts))
          /\ client' = [client EXCEPT !.phase = "asked"]
          /\ wire' = client.question
       \/ client.hosts # <<>> /\ ~Serves(Head(client.hosts)) /\ SkipHost /\ UNCHANGED wire
       \/ client.hosts = <<>> /\ Finish(NoOutput, 1) /\ UNCHANGED wire
    /\ UNCHANGED <<db, asnfile, server>>

HandleRequest ==
    /\ client.phase = "asked" /\ client.tool \in Tcp
    /\ Dispatch(wire)
    /\ client' = [client EXCEPT !.phase = "answered"]
    /\ UNCHANGED <<db, asnfile, server>>

(* Send or Receive fails: no other host is asked.                          *)
PeerFails ==
    /\ client.phase \in {"asked", "answered"} /\ client.tool \in Tcp
    /\ client' = [client EXCEPT !.phase = "done", !.lost = TRUE, !.exit = 1]
    /\ wire' = <<>>
    /\ UNCHANGED <<db, asnfile, server>>

(* ASMapValue::Aggregate leaves the least set that covers the same         *)
(* addresses (module RouteAggregate).                                      *)
AggregatedNets(S) == R!Minimal(S)

PrintIpv4AddrResponse(resp) == [kind |-> "matches", entries |-> resp]
PrintIpv6AddrResponse(resp) == [kind |-> "matches", entries |-> resp]

PrintASPrefixesResponse(resp, show) ==
    [kind |-> "prefixes", nets |-> [fam \in Families |-> IF fam \in show THEN resp.nets[fam] ELSE {}]]

PrintCountryPrefixesResponse(resp, show) ==
    [kind |-> "prefixes",
     nets |-> [fam \in Families |->
                  IF fam \in show THEN AggregatedNets(UNION {r.nets[fam] : r \in resp}) ELSE {}]]

(* With -v, each AS of the country and its prefixes.                       *)
PrintEachAS(resp, show) ==
    [kind |-> "ases", ases |-> {[as |-> r.as, nets |-> PrintASPrefixesResponse(r, show).nets] :
                                   r \in {x \in resp : \E fam \in show : x.nets[fam] # {}}}]

Printed(q, flags, show, resp) ==
    CASE q.kind = "ipv4" -> PrintIpv4AddrResponse(resp)
      [] q.kind = "ipv6" -> PrintIpv6AddrResponse(resp)
      [] q.kind = "as" -> PrintASPrefixesResponse(resp, show)
      [] q.kind = "country" /\ "v" \in flags -> PrintEachAS(resp, show)
      [] q.kind = "country" /\ "v" \notin flags -> PrintCountryPrefixesResponse(resp, show)

PrintResponse ==
    /\ client.phase = "answered" /\ client.tool \in Tcp
    /\ FinishWith(Printed(client.question, client.flags, Shown(client.tool, client.flags), wire))
    /\ wire' = <<>>
    /\ UNCHANGED <<db, asnfile, server>>

-----------------------------------------------------------------------------
(* UDP: UdpGetOrigin makes an OriginServer for each host.                  *)
Request(q) == <<IF q.kind = "ipv4" THEN 4 ELSE 6, q.key>>

(* The constructor throws for a host without an address, and nobody        *)
(* catches.                                                                *)
UnknownHostThrows ==
    /\ client.phase = "hosts" /\ client.tool = "udp"
    /\ client.hosts # <<>> /\ Head(client.hosts) = "unknown"
    /\ client' = [client EXCEPT !.phase = "done", !.lost = TRUE, !.exit = 134]
    /\ UNCHANGED <<db, asnfile, server, wire>>

(* A socket address for IPv6 says AF_INET and leads nowhere.               *)
SendRequest(junk) ==
    /\ client.phase = "hosts" /\ client.tool = "udp"
    /\ client.hosts # <<>> /\ Head(client.hosts) # "unknown"
    /\ LET header == [M!NewHeader(junk) EXCEPT !.id = client.id]
           msg    == M!RequestMessage(header, Request(client.question))
       IN  wire' = IF Head(client.hosts) = "up" /\ server.status = "serving" /\ M!Fits(msg)
                   THEN M!WriteMessage(msg) ELSE <<>>
    /\ client' = [client EXCEPT !.phase = "asked", !.id = @ + 1]
    /\ UNCHANGED <<db, asnfile, server>>

(* The response takes the place of the request in the message.             *)
RespondBinary ==
    /\ client.phase = "asked" /\ client.tool = "udp"
    /\ wire # <<>>
    /\ LET req  == M!ReadMessage(wire)
           resp == GetResponse(req.payload.data)
           msg  == M!ResponseMessage(req.header, resp)
       IN  wire' = IF M!Type(req.header.flags) = M!OriginRequestType /\ resp.prefixes # <<>>
                      /\ M!Fits(msg)
                   THEN M!WriteMessage(msg) ELSE <<>>
    /\ client' = [client EXCEPT !.phase = "answered"]
    /\ UNCHANGED <<db, asnfile, server>>

DatagramLost ==
    /\ client.phase \in {"asked", "answered"} /\ client.tool \in {"udp", "dns"}
    /\ wire # <<>>
    /\ wire' = <<>>
    /\ client' = [client EXCEPT !.lost = TRUE]
    /\ UNCHANGED <<db, asnfile, server>>

(* Two seconds pass, and the next host is asked.                           *)
RecvTimeout ==
    /\ client.phase \in {"asked", "answered"} /\ client.tool = "udp"
    /\ wire = <<>>
    /\ client' = [client EXCEPT !.phase = "hosts", !.hosts = Tail(@)]
    /\ UNCHANGED <<db, asnfile, server, wire>>

Accepted(msg) ==
    /\ M!Type(msg.header.flags) = M!OriginResponseType
    /\ msg.header.id + 1 = client.id

RecvResponse ==
    /\ client.phase = "answered" /\ client.tool = "udp"
    /\ wire # <<>>
    /\ LET msg == M!ReadMessage(wire)
       IN  IF Accepted(msg)
           THEN FinishWith(IF "j" \in client.flags
                           THEN [kind |-> "json", json |-> M!ResponseToJson(msg.payload.data)]
                           ELSE [kind |-> "matches", entries |-> msg.payload.data.prefixes])
           ELSE client' = [client EXCEPT !.phase = "hosts", !.hosts = Tail(@)]
    /\ wire' = <<>>
    /\ UNCHANGED <<db, asnfile, server>>

(* mccurtain -u exits with 0 whether or not there was an answer.           *)
NoHostAnswers ==
    /\ client.phase = "hosts" /\ client.tool = "udp"
    /\ client.hosts = <<>>
    /\ Finish(NoOutput, 0)
    /\ UNCHANGED <<db, asnfile, server, wire>>

-----------------------------------------------------------------------------
(* DNS: a resolver asks DnsServer for the ORIGIN record of an address.     *)
AskDns ==
    /\ client.phase = "hosts" /\ client.tool = "dns"
    /\ wire' = IF Head(client.hosts) = "up" /\ server.status = "serving"
               THEN client.question ELSE <<>>
    /\ client' = [client EXCEPT !.phase = "asked"]
    /\ UNCHANGED <<db, asnfile, server>>

PopulateAnswer(matches) == matches

(* The name of an IPv6 address, under ip6.arpa, is taken too, and what is  *)
(* made of its address is the invalid IPv4 address, 255.255.255.255.       *)
InvalidIpv4 == [i \in 1 .. Width |-> 1]
Ipv4Address(q) == IF q.kind = "ipv4" THEN q.key ELSE InvalidIpv4

(* Without a match nothing is sent.                                        *)
SendDnsResponse ==
    /\ client.phase = "asked" /\ client.tool = "dns"
    /\ wire # <<>>
    /\ wire' = PopulateAnswer(MatchesOf(server.net2as[4], Ipv4Address(wire), server.asntxt, Dashes))
    /\ client' = [client EXCEPT !.phase = "answered"]
    /\ UNCHANGED <<db, asnfile, server>>

ReceiveDnsResponse ==
    /\ client.phase \in {"asked", "answered"} /\ client.tool = "dns"
    /\ IF wire = <<>> THEN Finish(NoOutput, 1)
       ELSE client.phase = "answered" /\ FinishWith([kind |-> "matches", entries |-> wire])
    /\ wire' = <<>>
    /\ UNCHANGED <<db, asnfile, server>>

-----------------------------------------------------------------------------
(* mccdb reads the database and asn.txt itself.                            *)
PrintIpv4Matches(as2ip, names, a) ==
    [kind |-> "matches", entries |-> MatchesOf(LoadIpv4Net2AS(as2ip[4]), a, names, Unnamed)]
PrintIpv6Matches(as2ip, names, a) ==
    [kind |-> "matches", entries |-> MatchesOf(LoadIpv6Net2AS(as2ip[6]), a, names, Unnamed)]

(* Without an argument: every AS that has prefixes, and these.             *)
PrintAllASes(as2ip, names, show) ==
    [kind |-> "ases",
     ases |-> {[as   |-> Named(names, as, Unnamed),
                nets |-> [fam \in Families |-> IF fam \in show THEN as2ip[fam][as] ELSE {}]] :
                  as \in {n \in ASes : \E fam \in show : as2ip[fam][n] # {}}}]

PrintOneAS(as2ip, show, as) ==
    [kind |-> "prefixes",
     nets |-> [fam \in Families |-> IF fam \in show THEN as2ip[fam][as] ELSE {}]]

InCountry(names, cc) == {as \in DOMAIN names : names[as].countryCode = cc}

PrintCountryCodePrefixes(as2ip, names, show, cc) ==
    [kind |-> "prefixes",
     nets |-> [fam \in Families |->
                  IF fam \in show
                  THEN AggregatedNets(UNION {as2ip[fam][as] : as \in InCountry(names, cc)})
                  ELSE {}]]

PrintCountryCodeASes(names, cc) == [kind |-> "numbers", ases |-> InCountry(names, cc)]

(* "::" equals the address that a string without one becomes: it is taken  *)
(* for no address, and for nothing else.                                   *)
Unspecified == [i \in 1 .. Width |-> 0]
IsIpv6Address(a) == a # Unspecified

MccdbPrinted(as2ip, names, q, flags) ==
    CASE q.kind = "ipv6" /\ IsIpv6Address(q.key) -> PrintIpv6Matches(as2ip, names, q.key)
      [] q.kind = "ipv6" /\ ~IsIpv6Address(q.key) -> NoOutput
      [] q.kind = "ipv4" -> PrintIpv4Matches(as2ip, names, q.key)
      [] q.kind = "country" /\ "p" \in flags ->
            PrintCountryCodePrefixes(as2ip, names, ShownByMccdb(flags), q.key)
      [] q.kind = "country" /\ "p" \notin flags -> PrintCountryCodeASes(names, q.key)
      [] q.kind = "as" -> PrintOneAS(as2ip, ShownByMccdb(flags), q.key)
      [] q.kind = "all" -> PrintAllASes(as2ip, names, ShownByMccdb(flags))

Mccdb ==
    /\ client.phase = "hosts" /\ client.tool = "mccdb"
    /\ \E load \in DbLoads, asn \in AsnLoads :
          IF load.ok /\ asn.status = "good"
          THEN client' = [client EXCEPT !.phase = "done", !.whole = load.as2ip = db,
                              !.out = MccdbPrinted(load.as2ip, asn.names, client.question, client.flags)]
          ELSE Finish(NoOutput, IF load.ok /\ asn.status = "thrown" THEN 134 ELSE 1)
    /\ UNCHANGED <<db, asnfile, server, wire>>

-----------------------------------------------------------------------------
Exit == client.phase = "done" /\ client' = Idle /\ UNCHANGED <<db, asnfile, server, wire>>

Next ==
    \/ InitDatabases
    \/ \E tool \in DOMAIN Understood, q \in Questions, hosts \in HostLists :
          \E flags \in Flags(tool, q.kind) : Run(tool, q, flags, hosts)
    \/ GetPeer \/ HandleRequest \/ PeerFails \/ PrintResponse
    \/ UnknownHostThrows \/ RespondBinary \/ DatagramLost \/ RecvTimeout \/ RecvResponse
    \/ NoHostAnswers
    \/ \E junk \in Junk : SendRequest(junk)
    \/ AskDns \/ SendDnsResponse \/ ReceiveDnsResponse
    \/ Mccdb
    \/ Exit

Spec == Init /\ [][Next]_vars

-----------------------------------------------------------------------------
(* What the database says.                                                 *)
EntriesFor(a, fam) == {e \in Pairs(db[fam]) : Contains(e[1], a)}
Named4Country(cc) == InCountry(LoadAsnTxt(asnfile).names, cc)
AskedFor(q) == IF q.kind = "all" THEN ASes ELSE Named4Country(q.key)
CountryNets(fam, cc) == UNION {db[fam][as] : as \in Named4Country(cc)}
CoveredBy(S) == {a \in Addresses : R!Covered(S, a)}

Family(q) == IF q.kind = "ipv4" THEN 4 ELSE 6

(* Two questions about IPv6 addresses are not taken for what they are.     *)
(* mccdb does not take "::" for an address, against its manual.  A DNS     *)
(* question about any IPv6 address is answered like one about the invalid  *)
(* IPv4 address.  Every other question is about the address it names.      *)
TakenForNone(tool, q) == tool = "mccdb" /\ q.kind = "ipv6" /\ q.key = Unspecified
FamilyAsked(tool, q) == IF tool = "dns" THEN 4 ELSE Family(q)
AddressAsked(tool, q) == IF tool = "dns" /\ q.kind = "ipv6" THEN InvalidIpv4 ELSE q.key

(* The matches that were printed, be it as JSON.                           *)
OutEntries ==
    IF client.out.kind = "json" THEN M!ResponseFromJson(client.out.json).prefixes
    ELSE client.out.entries
OutPairs(entries) ==
    UNION {{<<entries[i].prefix, entries[i].ases[j].number>> : j \in DOMAIN entries[i].ases} :
              i \in DOMAIN entries}

(* Each AS once, with its name; of a long name a datagram has a part.      *)
WellNamed(ases) ==
    LET names == LoadAsnTxt(asnfile).names
    IN  /\ \A j, k \in DOMAIN ases : j < k => ases[j].number < ases[k].number
        /\ \A j \in DOMAIN ases :
              LET known == ases[j].number \in DOMAIN names
                  name  == IF known THEN names[ases[j].number].name ELSE 0
              IN  /\ known => ases[j].countryCode = names[ases[j].number].countryCode
                  /\ ases[j].name = IF client.tool = "udp" THEN name % Byte ELSE name

(* What the clients print is what the database says, whichever way the     *)
(* question took: for an address each prefix that covers it, the widest    *)
(* first, with each of its origins once; for an AS its prefixes; for a     *)
(* country the fewest prefixes with the addresses of its ASes, or the ASes *)
(* by name, each with its prefixes.  Provided that both files were read    *)
(* completely.  The exceptions are those above: mccdb prints nothing for   *)
(* "::", whatever covers it, and over DNS an IPv6 address gets the IPv4    *)
(* prefixes of 255.255.255.255.                                            *)
AnswersAreComplete ==
    client.phase = "done" /\ client.whole =>
        LET q == client.question  out == client.out  show == Shown(client.tool, client.flags)
        IN  CASE TakenForNone(client.tool, q) -> out = NoOutput
              [] q.kind \in {"ipv4", "ipv6"} /\ ~TakenForNone(client.tool, q) ->
                    /\ OutPairs(OutEntries) =
                           EntriesFor(AddressAsked(client.tool, q), FamilyAsked(client.tool, q))
                    /\ \A i, j \in DOMAIN OutEntries :
                          i < j => Len(OutEntries[i].prefix) < Len(OutEntries[j].prefix)
                    /\ \A i \in DOMAIN OutEntries : WellNamed(OutEntries[i].ases)
              [] out.kind = "prefixes" /\ q.kind = "as" ->
                    \A fam \in show : out.nets[fam] = db[fam][q.key]
              [] out.kind = "prefixes" /\ q.kind = "country" ->
                    \A fam \in show :
                        /\ CoveredBy(out.nets[fam]) = CoveredBy(CountryNets(fam, q.key))
                        /\ \A p, r \in out.nets[fam] : Contains(p, r) => p = r
              [] out.kind = "ases" ->
                    /\ {r.as.number : r \in out.ases} =
                           {as \in AskedFor(q) : \E fam \in show : db[fam][as] # {}}
                    /\ \A r \in out.ases : /\ \A fam \in show : r.nets[fam] = db[fam][r.as.number]
                                           /\ WellNamed(<<r.as>>)
              [] out.kind = "numbers" -> out.ases = Named4Country(q.key)

(* Whatever became of the load, no client prints a prefix for an address   *)
(* or an AS that the database does not have it for, and no country gets an *)
(* address of another.  The exception is the IPv6 address asked for over   *)
(* DNS, which gets nothing but IPv4 prefixes of 255.255.255.255.           *)
NothingInvented ==
    client.phase = "done" =>
        LET q == client.question  out == client.out
        IN  CASE out.kind \in {"matches", "json"} ->
                    OutPairs(OutEntries) \subseteq
                        EntriesFor(AddressAsked(client.tool, q), FamilyAsked(client.tool, q))
              [] out.kind = "prefixes" /\ q.kind = "as" ->
                    \A fam \in Families : out.nets[fam] \subseteq db[fam][q.key]
              [] out.kind = "prefixes" /\ q.kind = "country" ->
                    \A fam \in Families :
                        CoveredBy(out.nets[fam]) \subseteq CoveredBy(CountryNets(fam, q.key))
              [] out.kind = "ases" ->
                    \A r \in out.ases, fam \in Families :
                        /\ r.as.number \in AskedFor(q)
                        /\ r.nets[fam] \subseteq db[fam][r.as.number]
              [] out.kind = "numbers" -> out.ases \subseteq Named4Country(q.key)
              [] out.kind = "nothing" -> TRUE

(* The manual of mccurtain: hosts are "tried in order" and the first that  *)
(* connects is used.  Unless something is lost on the way, there is no     *)
(* output only if no host of the list could give any.                      *)
FallsBackToNextHost ==
    /\ client.phase = "done" /\ ~client.lost
    /\ client.tool \in Tcp \cup {"udp"}
    /\ client.out = NoOutput
    => LET resp == GetResponse(Request(client.question))
           sent == /\ resp.prefixes # <<>>
                   /\ \A junk \in Junk : M!Fits(M!ResponseMessage(M!NewHeader(junk), resp))
       IN  \A i \in DOMAIN client.given :
              /\ client.tool = "udp" => ~(client.given[i] = "up" /\ server.status = "serving" /\ sent)
              /\ client.tool \in Tcp => ~Serves(client.given[i])

(* A datagram says in JSON what it says in bytes, whatever was in the bits *)
(* of the flags that nobody sets.                                          *)
FormsAgree ==
    client.tool = "udp" /\ wire # <<>> =>
        LET msg  == M!ReadMessage(wire)
            json == M!MessageToJson(msg)
            back == M!MessageFromJson(M!NewHeader(0), json)
        IN  /\ M!Readable(json)
            /\ back.payload = msg.payload
            /\ M!HeaderToJson(back.header) = M!HeaderToJson(msg.header)
=============================================================================
