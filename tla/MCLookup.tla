------------------------------ MODULE MCLookup ------------------------------
(* Databases with nested, adjacent, shared and missing prefixes of two     *)
(* ASes, and files of names with every kind of line.                       *)
EXTENDS Lookup

MCASes == {1, 2}
MCCountries == {"A", "B"}

Nets(nets1, nets2) == [as \in MCASes |-> IF as = 1 THEN nets1 ELSE nets2]
Db(nets4, nets6) == [fam \in {4, 6} |-> IF fam = 4 THEN nets4 ELSE nets6]

Nested == Nets({<<0>>, <<0, 0>>}, {<<0>>})
Adjacent == Nets({<<1, 0>>}, {<<1, 1>>})
None == Nets({}, {})
Default == Nets({<<>>}, {<<1>>})

MCDatabases == {Db(Nested, Adjacent), Db(Adjacent, Nested), Db(Default, None), Db(None, Default)}

Name(as, cc, n) == [kind |-> "named", as |-> as, entry |-> [countryCode |-> cc, name |-> n]]
Line(kind) == [kind |-> kind]
MCAsnTxts == {<<Name(1, "A", 1), Name(2, "B", 6)>>,
              <<Name(1, "B", 1), Line("unnamed"), Name(1, "A", 2)>>,
              <<Name(1, "A", 1), Name(2, "A", 1)>>,
              <<Name(1, "A", 1), Line("spaceless"), Name(2, "B", 1)>>,
              <<Name(1, "A", 1), Line("numberless")>>}

MCHostLists == {<<>>, <<"up">>, <<"down", "up">>, <<"ipv6", "unknown">>}
MCJunk == {0, 127}
=============================================================================
