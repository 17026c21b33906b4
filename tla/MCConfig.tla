------------------------------ MODULE MCConfig ------------------------------
(* Files of two of these stanzas, of one with or without a token missing,   *)
(* and the complete example of the manual with its Facility put right.      *)
EXTENDS Config

Set(key, value) == [key |-> key, value |-> value]
Port(n) == [kind |-> "number", n |-> n]
NoPort == [kind |-> "none", n |-> 0]
Known == [kind |-> "known", n |-> 53]
Unknown == [kind |-> "unknown", n |-> 0]
Addr(a, port) == [addr |-> a, port |-> port]

Stanza(name, settings) == [name |-> name, settings |-> settings]
MCStanzas ==
    {Stanza("service", <<Set("keyDirectory", "/k")>>),
     Stanza("service", <<Set("addresses", <<Addr("::1", NoPort), Addr("inaddr_any", Port(2126))>>),
                         Set("allowedClients", <<"::1", "10/8">>)>>),
     Stanza("service", <<Set("udpAddresses", <<Addr("inaddr_any", Known)>>),
                         Set("udpAddresses", <<Addr("::1", Port(65535))>>)>>),
     Stanza("service", <<Set("addresses", <<Addr("255.255.255.255", NoPort)>>)>>),
     Stanza("service", <<Set("udpAddresses", <<Addr("255.255.255.255", NoPort)>>)>>),
     Stanza("service", <<Set("addresses", <<Addr("invalid", NoPort)>>)>>),
     Stanza("service", <<Set("addresses", <<Addr("::1", Port(65536))>>)>>),
     Stanza("service", <<Set("addresses", <<Addr("::1", Unknown)>>)>>),
     Stanza("service", <<Set("allowedClients", <<"10/8", "invalid">>)>>),
     Stanza("syslog", <<Set("facility", "local0"), Set("level", "debug")>>),
     Stanza("syslog", <<Set("logLocations", "yes"), Set("logLocations", "no")>>),
     Stanza("syslog", <<Set("dbfile", "/d")>>),
     Stanza("syslog", <<Set("Facility", "local0"), Set("level", "info"), Set("logLocations", "yes")>>),
     Stanza("databases", <<Set("dbfile", "/d"), Set("asntxt", "/a")>>),
     Stanza("databases", <<Set("asntxt", "/b")>>),
     Stanza("databases", <<>>)}

MCComplete ==
    <<Stanza("syslog", <<Set("facility", "local0"), Set("level", "info"), Set("logLocations", "yes")>>),
      Stanza("service",
             <<Set("addresses", <<Addr("inaddr_any", Port(2126)), Addr("in6addr_any", Port(2126))>>),
               Set("udpAddresses", <<Addr("127.0.0.1", Port(2126)), Addr("::1", Port(2126))>>),
               Set("keyDirectory", "/usr/local/etc/mccurtaind"),
               Set("allowedClients", <<"10.11.1/24", "127.0.0.1/32", "fd60::/64", "::1">>)>>),
      Stanza("databases", <<Set("dbfile", "/usr/local/etc/mccas2ip.db"),
                            Set("asntxt", "/usr/local/etc/asn.txt")>>)>>

MCTexts == {<<>>, MCComplete} \cup {<<s, t>> : s, t \in MCStanzas}
MCFiles ==
    {<<text, 0>> : text \in MCTexts}
    \cup UNION {{<<<<s>>, cut>> : cut \in 0 .. Len(StanzaTokens(s))} : s \in MCStanzas}
=============================================================================
