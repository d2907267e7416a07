------------------------------ MODULE StableSort ------------------------------
(***************************************************************************)
(* What std::sort returns: the elements by an integer key in ascending     *)
(* order. Elements of equal keys keep their order here; the code leaves it *)
(* to std::sort. The community modules' sorts ask for an order without     *)
(* such ties.                                                              *)
(***************************************************************************)
EXTENDS Integers, Sequences, FiniteSets

Precedes(key, i, j) == key[i] < key[j] \/ (key[i] = key[j] /\ i < j)

Rank(key, i) == Cardinality({j \in DOMAIN key : Precedes(key, j, i)})

\* The elements of s, that of key[i] for every i.
SortBy(s, key) ==
    [k \in 1..Len(s) |-> s[CHOOSE i \in DOMAIN s : Rank(key, i) = k - 1]]
=============================================================================
