----------------------------- MODULE MCIpv6Trie -----------------------------
(* Two objects, whose nodes may be copies. *)
EXTENDS Ipv6Trie, TLC

CONSTANTS t1, t2, a1

MCTries == {t1, t2}
MCASes == {a1}

(* The objects are interchangeable. *)
MCSymmetry == Permutations(MCTries)

(* No operation depends on what the last one returned. *)
MCView == <<trie, copied>>
=============================================================================
