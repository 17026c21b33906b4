--------------------------- MODULE MCOriginClient ---------------------------
(* Two objects, two addresses of which one has no prefix, and ids that     *)
(* wrap at 2: the third call draws the id of the first.                    *)
EXTENDS OriginClient

CONSTANTS s1, s2, a1, a2

MCClients == {s1, s2}
MCAddrs == {a1, a2}
MCAnswered == {a1}
=============================================================================
