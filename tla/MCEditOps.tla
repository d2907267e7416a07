------------------------------ MODULE MCEditOps ------------------------------
(* Strings for EditOps: all of up to four letters out of three, and those   *)
(* of five out of two.                                                      *)
EXTENDS EditOps, TLC

CONSTANTS l1, l2, l3

MCStrings ==
    UNION {[1..n -> {l1, l2, l3}] : n \in 0..4}
      \cup UNION {[1..5 -> L] : L \in {{l1, l2}, {l1, l3}, {l2, l3}}}

Interchangeable == Permutations({l1, l2, l3})

\* The least and a large value: a cell that is read would be taken for the
\* cheapest way, or for no way.
MCGarbage == {0, 99}
=============================================================================
