---------------------------- MODULE MCPrefixTrie ----------------------------
(* One object with many entries, or two that are copied and moved. *)
EXTENDS PrefixTrie, TLC

CONSTANTS t1, t2, a1, a2

MCTries == {t1}
MCTwoTries == {t1, t2}
MCASes == {a1, a2}
MCOneAS == {a1}

(* The origins of prefixes are interchangeable. *)
MCSymmetry == Permutations(MCASes)

(* No operation depends on what the last one returned. *)
MCView == <<trie, copied>>
=============================================================================
