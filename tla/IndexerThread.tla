---------------------------- MODULE IndexerThread ----------------------------
(***************************************************************************)
(* make_indexes builds the index of every artist of the mapping that has   *)
(* none (indexer_thread.hpp): one worker thread per artist, at most        *)
(* num_threads at a time, each setting its flag when it is done. The main  *)
(* thread polls the flags, joins what is done, and writes the indexes to   *)
(* the table index_cache in batches, a transaction each. A run that died   *)
(* is resumed by the next: it starts with the artists not in the table.    *)
(***************************************************************************)
EXTENDS Naturals, FiniteSets, SequencesExt

CONSTANTS
    Artists,               \* the artists of the mapping, but the first two
    num_threads,
    NUM_ROWS_PER_COMMIT,
    Faults,                \* whether database calls and thread creation fail
    MaxDeaths              \* bound: how often the process is killed

ASSUME IndexerThreadAssumption ==
    /\ IsFiniteSet(Artists)
    /\ num_threads \in Nat \ {0}
    /\ NUM_ROWS_PER_COMMIT \in Nat \ {0}
    /\ Faults \in BOOLEAN
    /\ MaxDeaths \in Nat

VARIABLES
    \* mapping.db
    index_cache,      \* for every artist, the index the table has
    \* the main thread
    main,             \* where it is
    artist_ids,       \* the artists still without a worker
    threads,          \* the artists with a worker, in the order of the vector
    at,               \* the position in threads it looks at or joins, or 0
    data_to_commit,   \* the artists whose workers were joined
    \* the workers
    worker,           \* for every artist, where its thread is
    sstream,          \* for every artist, what its thread built
    \* their process
    deaths

memory == <<artist_ids, threads, at, data_to_commit, worker, sstream>>
vars   == <<index_cache, main, memory, deaths>>

\* An index; build_recording_release_indexes returns what it has so far if the
\* database fails.
Index == {"partial", "complete"}

Mains == {"down", "cleared", "loop", "scan", "join", "fill", "flush", "unwound",
          "finished"}

\* A worker sets its flag before it returns.
Workers == {"none", "building", "done", "ended"}

TypeOK ==
    /\ index_cache \in [Artists -> Index \cup {"none"}]
    /\ main \in Mains
    /\ artist_ids \subseteq Artists
    /\ threads \in Seq(Artists)
    /\ at \in 0..Len(threads)
    /\ main = "join" => at # 0
    /\ data_to_commit \subseteq Artists
    /\ worker \in [Artists -> Workers]
    /\ sstream \in [Artists -> Index \cup {"none"}]
    /\ deaths \in 0..MaxDeaths

Empty == [a \in Artists |-> "none"]

Stored == {a \in Artists : index_cache[a] # "none"}

\* The process is gone, and its memory with it.
Gone ==
    /\ artist_ids' = {}
    /\ threads' = <<>>
    /\ at' = 0
    /\ data_to_commit' = {}
    /\ worker' = Empty
    /\ sstream' = Empty

Init ==
    /\ index_cache = Empty
    /\ main = "down"
    /\ artist_ids = {} /\ threads = <<>> /\ at = 0 /\ data_to_commit = {}
    /\ worker = Empty /\ sstream = Empty
    /\ deaths = 0

-----------------------------------------------------------------------------
\* --force-rebuild empties the table before anything else.
ForceRebuild ==
    /\ main \in {"down", "finished"}
    /\ main' = "cleared"
    /\ index_cache' = Empty
    /\ UNCHANGED <<memory, deaths>>

\* A mutant of Start: every artist is pending again.
StartOver ==
    /\ main \in {"down", "finished", "cleared"}
    /\ main' = "loop"
    /\ artist_ids' = Artists
    /\ UNCHANGED <<index_cache, threads, at, data_to_commit, worker, sstream, deaths>>

\* A mutant of Start: the table is emptied without --force-rebuild.
StartEmpty ==
    /\ main \in {"down", "finished", "cleared"}
    /\ main' = "loop"
    /\ artist_ids' = Artists
    /\ index_cache' = Empty
    /\ UNCHANGED <<threads, at, data_to_commit, worker, sstream, deaths>>

\* The query for the pending artists; their order is SQLite's. Without a
\* database the run is over.
Start ==
    /\ main \in {"down", "finished", "cleared"}
    /\ \/ main' = "loop" /\ artist_ids' = Artists \ Stored
       \/ Faults /\ main' = "down" /\ UNCHANGED artist_ids
    /\ UNCHANGED <<index_cache, threads, at, data_to_commit, worker, sstream, deaths>>

-----------------------------------------------------------------------------
(* A worker thread, thread_build_index.                                    *)

Running == {threads[i] : i \in DOMAIN threads}

Build(a) ==
    /\ worker[a] = "building" /\ sstream[a] = "none"
    /\ \E index \in IF Faults THEN Index ELSE {"complete"} :
          sstream' = [sstream EXCEPT ![a] = index]
    /\ UNCHANGED <<index_cache, main, artist_ids, threads, at, data_to_commit,
                   worker, deaths>>

SetDone(a) ==
    /\ worker[a] = "building" /\ sstream[a] # "none"
    /\ worker' = [worker EXCEPT ![a] = "done"]
    /\ UNCHANGED <<index_cache, main, artist_ids, threads, at, data_to_commit,
                   sstream, deaths>>

\* The indexes it built are destroyed after the flag is set.
Return(a) ==
    /\ worker[a] = "done"
    /\ worker' = [worker EXCEPT ![a] = "ended"]
    /\ UNCHANGED <<index_cache, main, artist_ids, threads, at, data_to_commit,
                   sstream, deaths>>

Work(a) == Build(a) \/ SetDone(a) \/ Return(a)

-----------------------------------------------------------------------------
(* The main thread.                                                        *)

\* A mutant of Write: the batch takes the place of the table.
WriteReplaces(rows, then) ==
    /\ index_cache' = [a \in rows |-> sstream[a]]
    /\ sstream' = [a \in Artists |-> IF a \in rows THEN "none" ELSE sstream[a]]
    /\ worker' = [a \in Artists |-> IF a \in rows THEN "none" ELSE worker[a]]
    /\ data_to_commit' = {}
    /\ main' = then

\* write_indexes_to_db: all the rows or, if it throws, none of them. The
\* exception ends build_recording_indexes, whatever the workers are doing.
Write(rows, then) ==
    \/ /\ index_cache' = [a \in Artists |-> IF a \in rows THEN sstream[a]
                                                      ELSE index_cache[a]]
       /\ sstream' = [a \in Artists |-> IF a \in rows THEN "none" ELSE sstream[a]]
       /\ worker' = [a \in Artists |-> IF a \in rows THEN "none" ELSE worker[a]]
       /\ data_to_commit' = {}
       /\ main' = then
    \/ /\ Faults
       /\ data_to_commit' = rows
       /\ main' = "unwound"
       /\ UNCHANGED <<index_cache, worker, sstream>>

\* The loop goes on, with a pass over the workers from the last to the first.
Enter ==
    /\ main = "loop"
    /\ artist_ids # {} \/ threads # <<>>
    /\ main' = "scan"
    /\ at' = Len(threads)
    /\ UNCHANGED <<index_cache, artist_ids, threads, data_to_commit, worker,
                   sstream, deaths>>

\* The flag of one worker is read.
Scan ==
    /\ main = "scan"
    /\ \/ at = 0 /\ main' = "fill" /\ UNCHANGED at
       \/ /\ at # 0 /\ worker[threads[at]] \in {"done", "ended"}
          /\ main' = "join" /\ UNCHANGED at
       \/ /\ at # 0 /\ worker[threads[at]] \notin {"done", "ended"}
          /\ at' = at - 1 /\ UNCHANGED main
    /\ UNCHANGED <<index_cache, artist_ids, threads, data_to_commit, worker,
                   sstream, deaths>>

\* A mutant of Full: a batch of the limit is not written.
FullBeyond(rows) == Cardinality(rows) > NUM_ROWS_PER_COMMIT

Full(rows) == Cardinality(rows) >= NUM_ROWS_PER_COMMIT

\* A mutant of Join: it does not wait for the worker.
JoinFlagged ==
    /\ main = "join"
    /\ threads' = RemoveAt(threads, at)
    /\ at' = 0
    /\ LET rows == data_to_commit \cup {threads[at]} IN
       IF Full(rows) THEN Write(rows, "fill")
       ELSE /\ data_to_commit' = rows
            /\ main' = "fill"
            /\ UNCHANGED <<index_cache, worker, sstream>>
    /\ UNCHANGED <<artist_ids, deaths>>

\* The worker is waited for and its artist added to the batch, which is written
\* if it is full; the pass ends here.
Join ==
    /\ main = "join"
    /\ worker[threads[at]] = "ended"
    /\ threads' = RemoveAt(threads, at)
    /\ at' = 0
    /\ LET rows == data_to_commit \cup {threads[at]} IN
       IF Full(rows) THEN Write(rows, "fill")
       ELSE /\ data_to_commit' = rows
            /\ main' = "fill"
            /\ UNCHANGED <<index_cache, worker, sstream>>
    /\ UNCHANGED <<artist_ids, deaths>>

Spawn ==
    /\ main = "fill"
    /\ Len(threads) < num_threads
    /\ \E a \in artist_ids :
          /\ artist_ids' = artist_ids \ {a}
          /\ \/ /\ threads' = Append(threads, a)
                /\ worker' = [worker EXCEPT ![a] = "building"]
                /\ UNCHANGED main
             \/ Faults /\ main' = "unwound" /\ UNCHANGED <<threads, worker>>
    /\ UNCHANGED <<index_cache, at, data_to_commit, sstream, deaths>>

\* A mutant of Filled: the loop waits for a thread beyond the last.
FilledBeyond ==
    /\ main = "fill"
    /\ artist_ids = {} \/ Len(threads) > num_threads
    /\ main' = "loop"
    /\ UNCHANGED <<index_cache, memory, deaths>>

Filled ==
    /\ main = "fill"
    /\ artist_ids = {} \/ Len(threads) >= num_threads
    /\ main' = "loop"
    /\ UNCHANGED <<index_cache, memory, deaths>>

\* The loop ends with nothing pending and no worker left; the rest is written.
Drained ==
    /\ main = "loop"
    /\ artist_ids = {} /\ threads = <<>>
    /\ main' = "flush"
    /\ UNCHANGED <<index_cache, memory, deaths>>

\* A mutant of Flush: the last batch is not written.
FlushNothing ==
    /\ main = "flush"
    /\ main' = "finished"
    /\ data_to_commit' = {}
    /\ worker' = Empty /\ sstream' = Empty
    /\ UNCHANGED <<index_cache, artist_ids, threads, at, deaths>>

Flush ==
    /\ main = "flush"
    /\ Write(data_to_commit, "finished")
    /\ UNCHANGED <<artist_ids, threads, at, deaths>>

\* After the exception main returns, and the workers left die with it.
Exit ==
    /\ main = "unwound"
    /\ main' = "down"
    /\ Gone
    /\ UNCHANGED <<index_cache, deaths>>

Kill ==
    /\ main \notin {"down", "finished"}
    /\ deaths < MaxDeaths
    /\ deaths' = deaths + 1
    /\ main' = "down"
    /\ Gone
    /\ UNCHANGED index_cache

Main == Enter \/ Scan \/ Join \/ Spawn \/ Filled \/ Drained \/ Flush \/ Exit

Next == ForceRebuild \/ Start \/ Main \/ (\E a \in Artists : Work(a)) \/ Kill

Spec == Init /\ [][Next]_vars

\* The main thread polls without pause, and a worker gets the CPU. Running
\* make_indexes again is up to its operator.
FairSpec ==
    /\ Spec
    /\ WF_vars(Main)
    /\ \A a \in Artists : WF_vars(Work(a))

-----------------------------------------------------------------------------
(* Properties.                                                             *)

Working == main \in {"loop", "scan", "join", "fill", "flush"}

\* Whatever died before: every artist is pending, with one worker, in the
\* batch, or in the table, and is so once.
EachArtistOnce ==
    Working =>
       /\ artist_ids \cup Running \cup data_to_commit \cup Stored = Artists
       /\ \A i, j \in DOMAIN threads : threads[i] = threads[j] => i = j
       /\ artist_ids \cap Running = {}
       /\ (artist_ids \cup Running) \cap data_to_commit = {}
       /\ (artist_ids \cup Running \cup data_to_commit) \cap Stored = {}

\* The batch takes what the workers left in their streams without a lock: its
\* workers are through, flag and return, and filled the stream before
\* (indexer_thread.hpp:115-118).
BatchBuilt == \A a \in data_to_commit : worker[a] = "ended" /\ sstream[a] # "none"

\* A run that finishes has left no artist without an index.
FinishedComplete == main = "finished" => Stored = Artists

\* What is built and not in the table, which is what a kill loses and memory has
\* to hold: a batch short of a row, and an index for every worker, however the
\* joins, the writes and the new workers follow (indexer_thread.hpp:121,133).
LossBounded ==
    Cardinality({a \in Artists : sstream[a] # "none"})
        <= NUM_ROWS_PER_COMMIT - 1 + num_threads

\* A resumed run builds no index that is in the table: rows are only deleted
\* by --force-rebuild, and never replaced.
RowsKept ==
    [][\A a \in Stored : index_cache'[a] = index_cache[a] \/ main' = "cleared"]_vars

\* A run comes to its end.
RunEnds == Working ~> ~Working
=============================================================================
