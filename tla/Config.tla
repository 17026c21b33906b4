------------------------------- MODULE Config -------------------------------
(***************************************************************************)
(* Config::Parse: the scanner and the LALR parser of mccurtaind.cfg, and   *)
(* the Config they fill.  The grammar looks one token ahead and never      *)
(* recovers, so a step of the parser is to shift the one token that can    *)
(* follow, with the reductions that do not wait for another, or to fail.   *)
(*                                                                         *)
(* A tuple of an address and a port is one token here: what the scanner    *)
(* still holds of one with an invalid port is left out.                    *)
(***************************************************************************)
EXTENDS Naturals, Sequences

LOCAL Ext == INSTANCE SequencesExt

CONSTANTS Files,        \* pairs of a text and the place of a token that is missing in it, or 0
          MaxLeftover   \* bound: tokens of earlier files that are still in the scanner's buffer

ASSUME ConfigAssumption ==
    /\ \A f \in Files : Len(f) = 2 /\ f[2] \in Nat
    /\ MaxLeftover \in Nat

VARIABLES
    file,    \* the file that is parsed
    input,   \* what the scanner has not returned yet
    fresh,   \* nothing of an earlier file was left when the file was opened
    parser,  \* the parser's stack
    config,  \* the Config
    rc       \* what Parse returned last, "parsing" before

vars == <<file, input, fresh, parser, config, rc>>

-----------------------------------------------------------------------------
(* The scanner.  A token is its kind, a keyword or a sign, and the value   *)
(* of a string or a tuple.                                                 *)
Token(kind) == [kind |-> kind, value |-> ""]
String(s) == [kind |-> "string", value |-> s]
Tuple(t) == [kind |-> "tuple", value |-> t]

StanzaNames == {"service", "syslog", "databases"}
Keys == [service   |-> {"addresses", "udpAddresses", "keyDirectory", "allowedClients"},
         syslog    |-> {"facility", "level", "logLocations"},
         databases |-> {"dbfile", "asntxt"}]
Lists == {"addresses", "udpAddresses", "allowedClients"}
AllKeys == UNION {Keys[name] : name \in StanzaNames}

(* A word outside quotes that is no keyword, exactly as it is written, is  *)
(* a string.                                                               *)
Word(w) == IF w \in StanzaNames \cup AllKeys THEN Token(w) ELSE String(w)

ItemKind(key) == IF key = "allowedClients" THEN "string" ELSE "tuple"

-----------------------------------------------------------------------------
(* What the actions build.                                                 *)
DefaultPort == 2124

(* Ports: none, a number, or the name of a service that is known or not.   *)
PortValue(port) ==
    \/ port.kind = "number" /\ port.n \in 1 .. 65535
    \/ port.kind \in {"known", "none"}
PortOf(port) == IF port.kind = "none" THEN DefaultPort ELSE port.n

(* 255.255.255.255 is what an invalid IPv4 address is taken for.           *)
ServiceAddressOK(t) == t.addr # "invalid"
UdpAddressOK(t) == t.addr \notin {"invalid", "255.255.255.255"}
ClientOK(s) == s \notin {"invalid", "255.255.255.255/32"}

ItemOK(key, item) ==
    CASE key = "addresses"      -> ServiceAddressOK(item)
      [] key = "udpAddresses"   -> UdpAddressOK(item)
      [] key = "allowedClients" -> ClientOK(item)

Endpoint(item) == <<item.addr, PortOf(item.port)>>
Items(key, list) == IF key = "allowedClients" THEN Ext!ToSet(list)
                    ELSE {Endpoint(item) : item \in Ext!ToSet(list)}

(* A new ServiceConfig has no key directory; Clear sets the default.       *)
NewService == [addresses |-> {}, udpAddresses |-> {}, keyDirectory |-> "", allowedClients |-> {}]
ClearService == [NewService EXCEPT !.keyDirectory = "/usr/local/etc/mccurtaind"]
ClearDatabase == [dbfile |-> "/usr/local/etc/mccas2ip.db", asntxt |-> "/usr/local/etc/asn.txt"]

\* Mutant: the settings of syslog are not reset.
Clear_KeepsSyslog(c) ==
    [c EXCEPT !.runService = FALSE, !.service = ClearService, !.database = ClearDatabase]

Clear(c) ==
    [c EXCEPT !.runService = FALSE, !.service = ClearService, !.database = ClearDatabase,
              !.facility = "daemon", !.level = "info", !.logLocations = FALSE]

(* "no" does not take back a "yes". *)
SetSyslog(c, key, value) ==
    CASE key \in {"facility", "level"} -> [c EXCEPT ![key] = value]
      [] key = "logLocations" -> IF value = "yes" THEN [c EXCEPT !.logLocations = TRUE] ELSE c

(* The stack: the stanza, the setting and the list that are open, and what *)
(* may come next.  A stanza's settings collect in an object that the first *)
(* of them makes.                                                          *)
NewObject == [service |-> NewService, syslog |-> <<>>, databases |-> ClearDatabase]

Bottom == [stanza |-> "none", key |-> "none", list |-> <<>>, built |-> <<>>, some |-> FALSE,
           stanzas |-> 0, next |-> "stanza"]

Shift(kind) == parser' = [parser EXCEPT !.next = kind]

Init ==
    /\ file = <<<<>>, 0>>
    /\ input = <<>>
    /\ fresh = TRUE
    /\ parser = Bottom
    /\ config = [facility |-> "daemon", level |-> "info", logLocations |-> FALSE,
                 runService |-> FALSE, service |-> NewService, database |-> ClearDatabase]
    /\ rc = "none"

-----------------------------------------------------------------------------
(* A text is a sequence of stanzas with their settings.                    *)
ListTokens(key, list) ==
    <<Token("[")>>
    \o Ext!FlattenSeq([i \in DOMAIN list |->
           LET item == IF ItemKind(key) = "tuple" THEN Tuple(list[i]) ELSE String(list[i])
           IN  IF i = 1 THEN <<item>> ELSE <<Token(","), item>>])
    \o <<Token("]")>>
SettingTokens(s) ==
    <<Word(s.key), Token("=")>>
    \o (IF s.key \in Lists THEN ListTokens(s.key, s.value) ELSE <<String(s.value)>>)
    \o <<Token(";")>>
StanzaTokens(st) ==
    <<Word(st.name), Token("{")>>
    \o Ext!FlattenSeq([i \in DOMAIN st.settings |-> SettingTokens(st.settings[i])])
    \o <<Token("}"), Token(";")>>

Tokens(f) ==
    LET whole == Ext!FlattenSeq([i \in DOMAIN f[1] |-> StanzaTokens(f[1][i])])
    IN  IF f[2] \in DOMAIN whole THEN Ext!RemoveAt(whole, f[2]) ELSE whole

(* Parse opens the file.  The scanner goes on with what it had read of the *)
(* last one.                                                               *)
Parse(f) ==
    /\ rc # "parsing"
    /\ Len(input) <= MaxLeftover
    /\ config' = Clear(config)
    /\ file' = f
    /\ input' = input \o Tokens(f)
    /\ fresh' = (input = <<>>)
    /\ parser' = Bottom
    /\ rc' = "parsing"

CannotOpen ==
    /\ rc # "parsing"
    /\ config' = Clear(config)
    /\ rc' = "false"
    /\ file' = <<<<>>, 0>>
    /\ UNCHANGED <<input, fresh, parser>>

Scan(kind) ==
    /\ rc = "parsing" /\ input # <<>>
    /\ Head(input).kind = kind
    /\ input' = Tail(input)
    /\ UNCHANGED <<file, fresh>>

Is(what) == parser.next = what /\ UNCHANGED rc

Sign(what, next) == Is(what) /\ Scan(what) /\ Shift(next) /\ UNCHANGED config

StartStanza ==
    \E name \in StanzaNames :
        /\ Is("stanza") /\ Scan(name)
        /\ parser' = [parser EXCEPT !.stanza = name, !.built = NewObject[name], !.some = FALSE,
                                    !.next = "{"]
        /\ UNCHANGED config

StartSetting ==
    /\ Is("setting")
    /\ \E key \in Keys[parser.stanza] :
          Scan(key) /\ parser' = [parser EXCEPT !.key = key, !.list = <<>>, !.next = "="]
    /\ UNCHANGED config

Equals ==
    Sign("=", IF parser.key \in Lists THEN "[" ELSE "string")

StringValue ==
    /\ Is("string") /\ Scan("string")
    /\ parser' = [parser EXCEPT !.list = <<Head(input).value>>, !.next = "end of setting"]
    /\ UNCHANGED config

(* An item with an invalid address or port ends the parser.                *)
Item ==
    LET item == Head(input).value IN
    /\ parser.next = "item" /\ Scan(ItemKind(parser.key))
    /\ IF ItemKind(parser.key) = "tuple" => PortValue(item.port) /\ ItemOK(parser.key, item)
       THEN /\ parser' = [parser EXCEPT !.list = Append(@, item), !.next = "more"]
            /\ UNCHANGED rc
       ELSE rc' = "false" /\ UNCHANGED parser
    /\ UNCHANGED config

More ==
    /\ Is("more")
    /\ \/ Scan(",") /\ Shift("item")
       \/ Scan("]") /\ Shift("end of setting")
    /\ UNCHANGED config

(* The prefixes of clients are looked at when their list is complete.      *)
EndSetting ==
    /\ parser.next = "end of setting" /\ Scan(";")
    /\ IF parser.key = "allowedClients" =>
             \A i \in DOMAIN parser.list : ItemOK(parser.key, parser.list[i])
       THEN /\ UNCHANGED rc
            /\ LET value == IF parser.key \in Lists THEN Items(parser.key, parser.list)
                            ELSE parser.list[1]
               IN  IF parser.stanza = "syslog"
                   THEN /\ config' = SetSyslog(config, parser.key, value)
                        /\ parser' = [parser EXCEPT !.some = TRUE, !.next = "setting"]
                   ELSE /\ parser' = [parser EXCEPT !.some = TRUE, !.next = "setting",
                                                    !.built[parser.key] = value]
                        /\ UNCHANGED config
       ELSE rc' = "false" /\ UNCHANGED <<parser, config>>

CloseStanza ==
    /\ parser.some /\ Is("setting") /\ Scan("}")
    /\ Shift("end of stanza")
    /\ UNCHANGED config

(* The stanza takes the place of an earlier one of its name.               *)
EndStanza ==
    /\ Is("end of stanza") /\ Scan(";")
    /\ config' = CASE parser.stanza = "service" ->
                         [config EXCEPT !.runService = TRUE, !.service = parser.built]
                   [] parser.stanza = "databases" -> [config EXCEPT !.database = parser.built]
                   [] parser.stanza = "syslog" -> config
    /\ parser' = [Bottom EXCEPT !.stanzas = 1]

(* The tokens that can follow.                                             *)
Expected ==
    CASE parser.next = "stanza" -> StanzaNames
      [] parser.next = "setting" -> Keys[parser.stanza] \cup (IF parser.some THEN {"}"} ELSE {})
      [] parser.next = "item" -> {ItemKind(parser.key)}
      [] parser.next = "more" -> {",", "]"}
      [] parser.next \in {"end of setting", "end of stanza"} -> {";"}
      [] OTHER -> {parser.next}

SyntaxError ==
    /\ rc = "parsing"
    /\ IF input = <<>> THEN parser.next # "stanza" \/ parser.stanzas = 0
       ELSE Head(input).kind \notin Expected
    /\ input' = IF input = <<>> THEN <<>> ELSE Tail(input)
    /\ rc' = "false"
    /\ UNCHANGED <<file, fresh, parser, config>>

AnyTcp == {<<"in6addr_any", DefaultPort>>, <<"inaddr_any", DefaultPort>>}
AnyUdp == {<<"inaddr_any", DefaultPort>>, <<"in6addr_any", DefaultPort>>}

(* At the end of the file the addresses get their defaults.                *)
Accept ==
    /\ rc = "parsing" /\ input = <<>>
    /\ parser.next = "stanza" /\ parser.stanzas > 0
    /\ config' = [config EXCEPT !.service.addresses = IF @ = {} THEN AnyTcp ELSE @,
                                !.service.udpAddresses = IF @ = {} THEN AnyUdp ELSE @]
    /\ rc' = "true"
    /\ UNCHANGED <<file, input, fresh, parser>>

Next ==
    \/ \E f \in Files : Parse(f)
    \/ CannotOpen
    \/ StartStanza \/ Sign("{", "setting") \/ StartSetting \/ Equals
    \/ StringValue \/ Sign("[", "item") \/ Item \/ More
    \/ EndSetting \/ CloseStanza \/ EndStanza
    \/ SyntaxError \/ Accept

Spec == Init /\ [][Next]_vars

-----------------------------------------------------------------------------
(* What a file says.                                                       *)
Named(text, name) == SelectSeq(text, LAMBDA st : st.name = name)
AllSettings(stanzas) == Ext!FlattenSeq([i \in DOMAIN stanzas |-> stanzas[i].settings])
Values(settings, key) ==
    LET those == SelectSeq(settings, LAMBDA s : s.key = key)
    IN  [i \in DOMAIN those |-> those[i].value]

WellFormed(text) ==
    /\ text # <<>>
    /\ \A i \in DOMAIN text :
          /\ text[i].settings # <<>>
          /\ \A j \in DOMAIN text[i].settings :
                LET s == text[i].settings[j]
                IN  /\ s.key \in Keys[text[i].name]
                    /\ s.key \in Lists =>
                          /\ s.value # <<>>
                          /\ \A k \in DOMAIN s.value :
                                /\ ItemOK(s.key, s.value[k])
                                /\ ItemKind(s.key) = "tuple" => PortValue(s.value[k].port)
Follows(f) == WellFormed(f[1]) /\ f[2] \notin DOMAIN Tokens(<<f[1], 0>>)

Repeats(text) ==
    \/ \E i, j \in DOMAIN text : i # j /\ text[i].name = text[j].name
    \/ \E st \in Ext!ToSet(text) : \E key \in AllKeys : Len(Values(st.settings, key)) > 1

(* The defaults of the manual, and for the addresses those of Parse.  That *)
(* of keyDirectory, ServiceConfig::Clear's, holds only without a service   *)
(* stanza.                                                                 *)
Default(text, key) ==
    CASE key = "facility"       -> "daemon"
      [] key = "level"          -> "info"
      [] key = "logLocations"   -> FALSE
      [] key = "dbfile"         -> "/usr/local/etc/mccas2ip.db"
      [] key = "asntxt"         -> "/usr/local/etc/asn.txt"
      [] key = "addresses"      -> {<<"in6addr_any", 2124>>, <<"inaddr_any", 2124>>}
      [] key = "udpAddresses"   -> {<<"in6addr_any", 2124>>, <<"inaddr_any", 2124>>}
      [] key = "allowedClients" -> {}
      [] key = "keyDirectory"   -> IF Named(text, "service") = <<>>
                                   THEN "/usr/local/etc/mccurtaind" ELSE ""

ValueOf(key, said) ==
    CASE key \in Lists -> Items(key, said)
      [] key = "logLocations" -> said = "yes"
      [] OTHER -> said

Configured(key) ==
    CASE key \in Keys.service -> config.service[key]
      [] key \in Keys.databases -> config.database[key]
      [] key \in Keys.syslog -> config[key]

(* A file that says nothing twice: its one value, or else the default.     *)
AsSaidOnce(text) ==
    \A key \in AllKeys :
        LET said == Values(AllSettings(text), key)
        IN  Configured(key) = IF said = <<>> THEN Default(text, key) ELSE ValueOf(key, said[1])

(* A file that repeats itself, of which the manual says nothing: the last  *)
(* service and the last databases stanza count, each as a whole; those of  *)
(* syslog count together; the last value counts, but any "yes" stays.      *)
Counts(text, key) ==
    IF key \in Keys.syslog THEN AllSettings(Named(text, "syslog"))
    ELSE LET those == Named(text, IF key \in Keys.service THEN "service" ELSE "databases")
         IN  IF those = <<>> THEN <<>> ELSE those[Len(those)].settings
AsSaidAgain(text) ==
    \A key \in AllKeys :
        LET said == Values(Counts(text, key), key)
        IN  Configured(key) = IF said = <<>> THEN Default(text, key)
                              ELSE IF key = "logLocations" THEN "yes" \in Ext!ToSet(said)
                              ELSE ValueOf(key, said[Len(said)])

(* Parse returns true for the files that follow the grammar, with valid    *)
(* addresses, ports and prefixes, and for no others.  When it does, what   *)
(* it leaves in the Config comes from this file and from nothing parsed    *)
(* before: there is a service if the file has a service stanza, and every  *)
(* setting has the value the file gives it once, or, when it gives none,   *)
(* its default; but a service stanza without keyDirectory leaves that      *)
(* empty.  For a file that gives a stanza or a setting more than once the  *)
(* value is the one AsSaidAgain picks, a rule of the code alone.  All this *)
(* unless an earlier Parse stopped in the middle of its file.              *)
ParseMeansFile ==
    fresh /\ rc \in {"true", "false"} =>
        /\ (rc = "true") <=> Follows(file)
        /\ (rc = "true") =>
              /\ config.runService = (Named(file[1], "service") # <<>>)
              /\ IF Repeats(file[1]) THEN AsSaidAgain(file[1]) ELSE AsSaidOnce(file[1])
=============================================================================
