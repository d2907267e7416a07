---------------------------- MODULE MCIndexCache ----------------------------
(* Small instances of IndexCache for TLC.                                  *)
EXTENDS IndexCache, TLC

\* Threads, artists and addresses are interchangeable; used by the runs that
\* check no liveness property.
Interchangeable ==
    Permutations(Threads) \cup Permutations(Artists) \cup Permutations(Objects)
=============================================================================
