-------------------------- MODULE IndexerThreadProofs --------------------------
(***************************************************************************)
(* Proofs about IndexerThread for any set of artists, number of threads    *)
(* and batch size, with or without failures, however often the process is  *)
(* killed.                                                                 *)
(***************************************************************************)
EXTENDS IndexerThread, DataLemmas

-----------------------------------------------------------------------------
(* The vector of the workers.                                              *)

\* With the worker at i joined, the others are running, in their order.
LEMMA JoinedWorker ==
  ASSUME TypeOK, NEW i \in DOMAIN threads, threads' = RemoveAt(threads, i),
         \A j, k \in DOMAIN threads : threads[j] = threads[k] => j = k
  PROVE  /\ threads' \in Seq(Artists)
         /\ Len(threads') = Len(threads) - 1
         /\ Running' = Running \ {threads[i]}
         /\ \A j, k \in DOMAIN threads' : threads'[j] = threads'[k] => j = k
<1>1. /\ threads \in Seq(Artists)
      /\ DOMAIN threads = 1..Len(threads)
      /\ Len(threads) \in Nat
  BY LenProperties DEF TypeOK
<1>2. /\ threads' \in Seq(Artists)
      /\ Len(threads') = Len(threads) - 1
      /\ \A j \in 1..(Len(threads) - 1) :
            threads'[j] = IF j < i THEN threads[j] ELSE threads[j + 1]
  BY <1>1, RemoveAtProperties
<1>3. DOMAIN threads' = 1..(Len(threads) - 1)
  BY <1>2, LenProperties
<1>4. Running' \subseteq Running \ {threads[i]}
  BY <1>1, <1>2, <1>3 DEF Running
<1>5. Running \ {threads[i]} \subseteq Running'
  <2> SUFFICES ASSUME NEW j \in DOMAIN threads, j # i
               PROVE  \E k \in DOMAIN threads' : threads'[k] = threads[j]
    BY DEF Running
  <2>1. CASE j < i
    BY <1>1, <1>2, <1>3, <2>1
  <2>2. CASE j > i
    <3>1. j - 1 \in DOMAIN threads' /\ threads'[j - 1] = threads[j]
      BY <1>1, <1>2, <1>3, <2>2
    <3> QED
      BY <3>1
  <2> QED
    BY <1>1, <2>1, <2>2
<1>6. ASSUME NEW j \in DOMAIN threads', NEW k \in DOMAIN threads',
             threads'[j] = threads'[k]
      PROVE  j = k
  <2> DEFINE before(l) == IF l < i THEN l ELSE l + 1
  <2>1. /\ before(j) \in DOMAIN threads /\ threads[before(j)] = threads'[j]
        /\ before(k) \in DOMAIN threads /\ threads[before(k)] = threads'[k]
    BY <1>1, <1>2, <1>3
  <2>2. before(j) = before(k)
    BY <1>6, <2>1
  <2> QED
    BY <1>1, <1>3, <2>2
<1> QED
  BY <1>2, <1>4, <1>5, <1>6

\* With a worker started for a, it runs beside the others.
LEMMA StartedWorker ==
  ASSUME TypeOK, NEW a \in Artists \ Running, threads' = Append(threads, a),
         \A j, k \in DOMAIN threads : threads[j] = threads[k] => j = k
  PROVE  /\ threads' \in Seq(Artists)
         /\ Len(threads') = Len(threads) + 1
         /\ Running' = Running \cup {a}
         /\ \A j, k \in DOMAIN threads' : threads'[j] = threads'[k] => j = k
<1>1. /\ threads \in Seq(Artists)
      /\ DOMAIN threads = 1..Len(threads)
      /\ Len(threads) \in Nat
  BY LenProperties DEF TypeOK
<1>2. /\ threads' \in Seq(Artists)
      /\ Len(threads') = Len(threads) + 1
      /\ \A j \in 1..Len(threads) : threads'[j] = threads[j]
      /\ threads'[Len(threads) + 1] = a
  BY <1>1, AppendProperties
<1>3. DOMAIN threads' = 1..(Len(threads) + 1)
  BY <1>2, LenProperties
<1>4. Running' \subseteq Running \cup {a}
  BY <1>1, <1>2, <1>3 DEF Running
<1>5. Running \cup {a} \subseteq Running'
  <2>1. Len(threads) + 1 \in DOMAIN threads'
    BY <1>1, <1>3
  <2>2. \A j \in DOMAIN threads : j \in DOMAIN threads' /\ threads'[j] = threads[j]
    BY <1>1, <1>2, <1>3
  <2> QED
    BY <1>2, <2>1, <2>2 DEF Running
<1>6. \A j, k \in DOMAIN threads' : threads'[j] = threads'[k] => j = k
  BY <1>1, <1>2, <1>3 DEF Running
<1> QED
  BY <1>2, <1>4, <1>5, <1>6

\* There are not more artists with a worker than places in the vector.
LEMMA RunningBounded ==
  ASSUME TypeOK
  PROVE  Cardinality(Running) <= Len(threads)
<1>1. /\ DOMAIN threads = 1..Len(threads) /\ Len(threads) \in Nat
      /\ threads \in [1..Len(threads) -> Artists]
  BY LenProperties DEF TypeOK
<1>2. threads \in [1..Len(threads) -> Running]
  BY <1>1 DEF Running
<1>3. threads \in Surjection(1..Len(threads), Running)
  BY <1>1, <1>2, Zenon DEF Surjection, Running
<1>4. ExistsSurjection(1..Len(threads), Running)
  BY <1>3, Zenon DEF ExistsSurjection
<1> QED
  BY <1>1, <1>4, FS_SurjCardinalityBound

-----------------------------------------------------------------------------
(* The inductive invariant.                                                *)

\* A thread that was started and whose index is not written yet is in the
\* vector or its artist in the batch; it sets its flag after its stream is
\* filled.
WorkersHeld ==
    \A a \in Artists :
       /\ worker[a] # "none" => a \in Running \cup data_to_commit
       /\ sstream[a] # "none" => worker[a] # "none"
       /\ worker[a] \in {"done", "ended"} => sstream[a] # "none"

\* Between the runs, and after the loop, the memory holds no work.
NothingHeld ==
    /\ main \in {"down", "cleared", "flush", "finished"} =>
          artist_ids = {} /\ threads = <<>>
    /\ main \in {"down", "cleared", "finished"} => data_to_commit = {}

\* The vector is never longer than allowed, the batch short of a row while the
\* loop goes on; a write that failed leaves a batch that a worker has left.
BatchBounded ==
    /\ Len(threads) <= num_threads
    /\ Working => Cardinality(data_to_commit) <= NUM_ROWS_PER_COMMIT - 1
    /\ Cardinality(data_to_commit) + Len(threads)
          <= NUM_ROWS_PER_COMMIT - 1 + num_threads

IInv ==
    /\ TypeOK
    /\ EachArtistOnce
    /\ BatchBuilt
    /\ FinishedComplete
    /\ WorkersHeld
    /\ NothingHeld
    /\ BatchBounded

\* A batch is finite.
LEMMA BatchFinite ==
  ASSUME NEW rows \in SUBSET Artists
  PROVE  IsFiniteSet(rows) /\ Cardinality(rows) \in Nat
BY FS_Subset, FS_CardinalityType, IndexerThreadAssumption

LEMMA EmptyBounded ==
  ASSUME NEW n \in Nat, n = 0, NEW rows, rows = {}
  PROVE  /\ n <= num_threads
         /\ Cardinality(rows) <= NUM_ROWS_PER_COMMIT - 1
         /\ Cardinality(rows) + n <= NUM_ROWS_PER_COMMIT - 1 + num_threads
<1>1. Cardinality(rows) = 0
  BY FS_EmptySet
<1> QED
  BY <1>1, IndexerThreadAssumption

\* Nothing is stored, built or held before the first run.
LEMMA InitIInv == Init => IInv
<1> SUFFICES ASSUME Init PROVE IInv
  OBVIOUS
<1>1. threads \in Seq(Artists) /\ Len(threads) = 0
  BY EmptySeq DEF Init
<1>2. Running = {}
  BY EmptySeq DEF Init, Running
<1>3. BatchBounded
  BY <1>1, EmptyBounded DEF Init, BatchBounded
<1> QED
  BY <1>1, <1>2, <1>3, IndexerThreadAssumption
     DEF Init, IInv, TypeOK, Mains, Workers, Index, Empty, EachArtistOnce, Working,
         BatchBuilt, FinishedComplete, WorkersHeld, NothingHeld

\* A written batch is stored, beside what was, and its workers are forgotten.
LEMMA Written ==
  ASSUME TypeOK, NEW rows \in SUBSET Artists, \A a \in rows : sstream[a] # "none",
         index_cache' = [a \in Artists |-> IF a \in rows THEN sstream[a]
                                                         ELSE index_cache[a]],
         sstream' = [a \in Artists |-> IF a \in rows THEN "none" ELSE sstream[a]],
         worker' = [a \in Artists |-> IF a \in rows THEN "none" ELSE worker[a]]
  PROVE  /\ index_cache' \in [Artists -> Index \cup {"none"}]
         /\ sstream' \in [Artists -> Index \cup {"none"}]
         /\ worker' \in [Artists -> Workers]
         /\ Stored' = Stored \cup rows
         /\ \A a \in rows : sstream'[a] = "none" /\ worker'[a] = "none"
         /\ \A a \in Artists \ rows : sstream'[a] = sstream[a] /\ worker'[a] = worker[a]
BY DEF TypeOK, Stored, Workers

\* A pass over the workers changes no more than the position of the main thread.
LEMMA PassIInv == IInv /\ (Enter \/ Scan \/ Filled \/ Drained) => IInv'
<1> SUFFICES ASSUME IInv, Enter \/ Scan \/ Filled \/ Drained PROVE IInv'
  OBVIOUS
<1> USE DEF IInv
<1>1. UNCHANGED <<index_cache, artist_ids, threads, data_to_commit, worker, sstream, deaths>>
  BY DEF Enter, Scan, Filled, Drained, memory
<1>2. Working /\ Working'
  BY DEF Enter, Scan, Filled, Drained, Working
<1>3. Running' = Running /\ Stored' = Stored
  BY <1>1 DEF Running, Stored
<1>4. Len(threads) \in Nat
  BY LenProperties DEF TypeOK
<1>5. /\ at' \in 0..Len(threads') /\ main' \in Mains
      /\ main' = "join" => at' # 0
      /\ main' \notin {"down", "cleared", "finished"}
      /\ main' = "flush" => artist_ids = {} /\ threads = <<>>
  BY <1>1, <1>4 DEF Enter, Scan, Filled, Drained, memory, TypeOK, Mains
<1>6. BatchBounded'
  BY <1>1, <1>2 DEF BatchBounded
<1> QED
  BY <1>1, <1>2, <1>3, <1>5, <1>6
     DEF TypeOK, EachArtistOnce, BatchBuilt, FinishedComplete, WorkersHeld, NothingHeld

\* A join moves one artist from the vector to the batch, and a full batch to
\* the table; if the write fails, nothing to the table.
LEMMA JoinIInv == IInv /\ Join => IInv'
<1> SUFFICES ASSUME IInv, Join PROVE IInv'
  OBVIOUS
<1> USE DEF IInv
<1> DEFINE joined == threads[at]
           rows   == data_to_commit \cup {joined}
<1>1. /\ main = "join" /\ worker[joined] = "ended"
      /\ threads' = RemoveAt(threads, at) /\ at' = 0
      /\ IF Full(rows) THEN Write(rows, "fill")
         ELSE /\ data_to_commit' = rows
              /\ main' = "fill"
              /\ UNCHANGED <<index_cache, worker, sstream>>
      /\ UNCHANGED <<artist_ids, deaths>>
  BY DEF Join
<1>2. at \in DOMAIN threads /\ Working
  BY <1>1, LenProperties DEF TypeOK, Working
<1>3. joined \in Artists /\ joined \in Running
  BY <1>2, LenProperties, ElementOfSeq DEF TypeOK, Running
<1>4. /\ threads' \in Seq(Artists)
      /\ Len(threads') = Len(threads) - 1
      /\ Running' = Running \ {joined}
      /\ \A j, k \in DOMAIN threads' : threads'[j] = threads'[k] => j = k
  BY <1>1, <1>2, JoinedWorker DEF EachArtistOnce
<1> HIDE DEF joined
<1>5. /\ rows \in SUBSET Artists
      /\ \A a \in rows : worker[a] = "ended" /\ sstream[a] # "none"
  BY <1>1, <1>3 DEF TypeOK, BatchBuilt, WorkersHeld
<1>6. rows \cap Stored = {} /\ rows \cap artist_ids = {}
  BY <1>2, <1>3 DEF EachArtistOnce
<1>7. /\ Len(threads) \in Nat \ {0} /\ Len(threads') \in Nat
      /\ 0 \in 0..Len(threads')
      /\ Cardinality(data_to_commit) \in Nat /\ Cardinality(rows) \in Nat
      /\ Cardinality(rows) <= Cardinality(data_to_commit) + 1
  <2>1. Len(threads) \in Nat /\ 1..Len(threads) = DOMAIN threads
    BY LenProperties DEF TypeOK
  <2>2. Len(threads) # 0
    BY <1>2, <2>1
  <2>3. IsFiniteSet(data_to_commit) /\ Cardinality(data_to_commit) \in Nat
    BY BatchFinite DEF TypeOK
  <2>4. Cardinality(rows) \in {Cardinality(data_to_commit), Cardinality(data_to_commit) + 1}
    BY <2>3, FS_AddElement
  <2> QED
    BY <1>4, <2>1, <2>2, <2>3, <2>4
<1>8. ASSUME data_to_commit' = rows, main' = "unwound" \/ (main' = "fill" /\ ~Full(rows)),
             UNCHANGED <<index_cache, worker, sstream>>
      PROVE  IInv'
  <2>1. BatchBounded'
    BY <1>4, <1>7, <1>8, IndexerThreadAssumption DEF BatchBounded, Working, Full
  <2> QED
    BY <1>1, <1>2, <1>3, <1>4, <1>5, <1>6, <1>7, <1>8, <2>1
       DEF TypeOK, Mains, EachArtistOnce, Working, BatchBuilt, FinishedComplete,
           WorkersHeld, NothingHeld, Stored
<1>9. ASSUME index_cache' = [a \in Artists |-> IF a \in rows THEN sstream[a]
                                                 ELSE index_cache[a]],
             sstream' = [a \in Artists |-> IF a \in rows THEN "none" ELSE sstream[a]],
             worker' = [a \in Artists |-> IF a \in rows THEN "none" ELSE worker[a]],
             data_to_commit' = {}, main' = "fill"
      PROVE  IInv'
  <2>1. /\ index_cache' \in [Artists -> Index \cup {"none"}]
        /\ sstream' \in [Artists -> Index \cup {"none"}]
        /\ worker' \in [Artists -> Workers]
        /\ Stored' = Stored \cup rows
        /\ \A a \in rows : sstream'[a] = "none" /\ worker'[a] = "none"
        /\ \A a \in Artists \ rows : sstream'[a] = sstream[a] /\ worker'[a] = worker[a]
    BY <1>5, <1>9, Written
  <2>2. BatchBounded'
    <3>1. Cardinality(data_to_commit') = 0
      BY <1>9, FS_EmptySet
    <3> QED
      BY <1>4, <1>7, <3>1, IndexerThreadAssumption DEF BatchBounded
  <2>3. TypeOK'
    BY <1>1, <1>4, <1>7, <1>9, <2>1 DEF TypeOK, Mains
  <2>4. EachArtistOnce'
    BY <1>1, <1>2, <1>3, <1>4, <1>6, <1>9, <2>1 DEF EachArtistOnce
  <2>5. WorkersHeld'
    BY <1>3, <1>4, <1>9, <2>1 DEF WorkersHeld
  <2> QED
    BY <1>9, <2>2, <2>3, <2>4, <2>5 DEF BatchBuilt, FinishedComplete, NothingHeld
<1> QED
  BY <1>1, <1>8, <1>9 DEF Write

\* A started worker takes its artist from the pending ones; if no thread can
\* be created, the run is over.
LEMMA SpawnIInv == IInv /\ Spawn => IInv'
<1> SUFFICES ASSUME IInv, Spawn PROVE IInv'
  OBVIOUS
<1> USE DEF IInv
<1>1. /\ main = "fill" /\ Len(threads) < num_threads
      /\ UNCHANGED <<index_cache, at, data_to_commit, sstream, deaths>>
  BY DEF Spawn
<1>2. PICK a \in artist_ids :
          /\ artist_ids' = artist_ids \ {a}
          /\ \/ /\ threads' = Append(threads, a)
                /\ worker' = [worker EXCEPT ![a] = "building"]
                /\ UNCHANGED main
             \/ Faults /\ main' = "unwound" /\ UNCHANGED <<threads, worker>>
  BY DEF Spawn
<1>3. /\ a \in Artists /\ a \notin Running /\ a \notin data_to_commit /\ Working
      /\ Len(threads) \in Nat /\ Cardinality(data_to_commit) \in Nat
  BY <1>1, LenProperties, BatchFinite DEF Working, EachArtistOnce, TypeOK
<1>4. CASE threads' = Append(threads, a) /\ worker' = [worker EXCEPT ![a] = "building"]
           /\ UNCHANGED main
  <2>1. /\ threads' \in Seq(Artists)
        /\ Len(threads') = Len(threads) + 1
        /\ Running' = Running \cup {a}
        /\ \A j, k \in DOMAIN threads' : threads'[j] = threads'[k] => j = k
    BY <1>3, <1>4, StartedWorker DEF EachArtistOnce
  <2>2. BatchBounded'
    BY <1>1, <1>3, <2>1, IndexerThreadAssumption DEF BatchBounded
  <2>3. TypeOK'
    BY <1>1, <1>2, <1>3, <1>4, <2>1 DEF TypeOK, Workers
  <2>4. EachArtistOnce'
    BY <1>1, <1>2, <1>3, <1>4, <2>1 DEF TypeOK, EachArtistOnce, Working, Stored
  <2>5. BatchBuilt' /\ WorkersHeld'
    BY <1>1, <1>3, <1>4, <2>1 DEF TypeOK, BatchBuilt, WorkersHeld
  <2> QED
    BY <1>1, <1>4, <2>2, <2>3, <2>4, <2>5 DEF FinishedComplete, NothingHeld
<1>5. CASE main' = "unwound" /\ UNCHANGED <<threads, worker>>
  BY <1>1, <1>2, <1>3, <1>5
     DEF TypeOK, Mains, EachArtistOnce, Working, BatchBuilt, FinishedComplete,
         WorkersHeld, NothingHeld, BatchBounded, Running
<1> QED
  BY <1>2, <1>4, <1>5

\* The last batch completes the table; if the write fails, the run is over.
LEMMA FlushIInv == IInv /\ Flush => IInv'
<1> SUFFICES ASSUME IInv, Flush PROVE IInv'
  OBVIOUS
<1> USE DEF IInv
<1>1. /\ main = "flush" /\ Working
      /\ Write(data_to_commit, "finished")
      /\ UNCHANGED <<artist_ids, threads, at, deaths>>
  BY DEF Flush, Working
<1>2. /\ artist_ids = {} /\ threads = <<>> /\ Running = {} /\ Running' = {}
      /\ Len(threads) = 0
  BY <1>1, EmptySeq DEF NothingHeld, Running
<1>3. ASSUME index_cache' = [a \in Artists |-> IF a \in data_to_commit
                                               THEN sstream[a] ELSE index_cache[a]],
             sstream' = [a \in Artists |-> IF a \in data_to_commit THEN "none"
                                           ELSE sstream[a]],
             worker' = [a \in Artists |-> IF a \in data_to_commit THEN "none"
                                           ELSE worker[a]],
             data_to_commit' = {}, main' = "finished"
      PROVE  IInv'
  <2>1. /\ index_cache' \in [Artists -> Index \cup {"none"}]
        /\ sstream' \in [Artists -> Index \cup {"none"}]
        /\ worker' \in [Artists -> Workers]
        /\ Stored' = Stored \cup data_to_commit
        /\ \A a \in data_to_commit : sstream'[a] = "none" /\ worker'[a] = "none"
        /\ \A a \in Artists \ data_to_commit :
              sstream'[a] = sstream[a] /\ worker'[a] = worker[a]
    <3>1. data_to_commit \in SUBSET Artists
      BY DEF TypeOK
    <3> QED
      BY <1>3, <3>1, Written DEF BatchBuilt
  <2>2. Stored' = Artists
    BY <1>1, <1>2, <2>1 DEF EachArtistOnce
  <2>3. BatchBounded'
    BY <1>1, <1>2, <1>3, EmptyBounded DEF BatchBounded
  <2>4. TypeOK'
    BY <1>1, <1>2, <1>3, <2>1 DEF TypeOK, Mains
  <2>5. WorkersHeld'
    BY <1>2, <1>3, <2>1 DEF WorkersHeld
  <2> QED
    BY <1>1, <1>2, <1>3, <2>2, <2>3, <2>4, <2>5
       DEF EachArtistOnce, Working, BatchBuilt, FinishedComplete, NothingHeld
<1>4. ASSUME data_to_commit' = data_to_commit, main' = "unwound",
             UNCHANGED <<index_cache, worker, sstream>>
      PROVE  IInv'
  BY <1>1, <1>2, <1>4
     DEF TypeOK, Mains, EachArtistOnce, Working, BatchBuilt, FinishedComplete,
         WorkersHeld, NothingHeld, BatchBounded
<1> QED
  BY <1>1, <1>3, <1>4 DEF Write

\* A worker changes nothing but its own stream and flag.
LEMMA WorkIInv == ASSUME NEW a \in Artists, IInv, Work(a) PROVE IInv'
<1> USE DEF IInv
<1>1. UNCHANGED <<index_cache, main, artist_ids, threads, at, data_to_commit, deaths>>
  BY DEF Work, Build, SetDone, Return
<1>2. Running' = Running /\ Stored' = Stored /\ Working' = Working
  BY <1>1 DEF Running, Stored, Working
<1>3. CASE Build(a)
  <2>1. PICK index \in Index :
           /\ worker[a] = "building"
           /\ sstream' = [sstream EXCEPT ![a] = index]
           /\ UNCHANGED worker
    BY <1>3 DEF Build, Index
  <2>2. index # "none" /\ sstream' \in [Artists -> Index \cup {"none"}]
    BY <2>1 DEF TypeOK, Index
  <2> QED
    BY <1>1, <1>2, <2>1, <2>2
       DEF TypeOK, EachArtistOnce, BatchBuilt, FinishedComplete, WorkersHeld,
           NothingHeld, BatchBounded
<1>4. CASE SetDone(a) \/ Return(a)
  <2>1. PICK next \in {"done", "ended"} :
           /\ worker[a] # "none" /\ worker[a] # "ended" /\ sstream[a] # "none"
           /\ worker' = [worker EXCEPT ![a] = next]
           /\ UNCHANGED sstream
    BY <1>4 DEF SetDone, Return, WorkersHeld
  <2>2. worker' \in [Artists -> Workers]
    BY <2>1 DEF TypeOK, Workers
  <2> QED
    BY <1>1, <1>2, <2>1, <2>2
       DEF TypeOK, EachArtistOnce, BatchBuilt, FinishedComplete, WorkersHeld,
           NothingHeld, BatchBounded
<1> QED
  BY <1>3, <1>4 DEF Work

\* Starting, ending and dying.
LEMMA RunIInv ==
  ASSUME IInv, ForceRebuild \/ Start \/ Exit \/ Kill
  PROVE  IInv'
<1> USE DEF IInv
<1>1. CASE ForceRebuild
  <2>1. /\ main \in {"down", "finished"} /\ main' = "cleared"
        /\ index_cache' = Empty /\ UNCHANGED <<memory, deaths>>
    BY <1>1 DEF ForceRebuild
  <2>2. Running' = Running
    BY <2>1 DEF memory, Running
  <2> QED
    BY <2>1, <2>2
       DEF memory, Empty, TypeOK, Mains, EachArtistOnce, Working, BatchBuilt,
           FinishedComplete, WorkersHeld, NothingHeld, BatchBounded
<1>2. CASE Start
  <2>1. /\ main \in {"down", "finished", "cleared"}
        /\ UNCHANGED <<index_cache, threads, at, data_to_commit, worker, sstream, deaths>>
        /\ Running' = Running /\ Stored' = Stored
    BY <1>2 DEF Start, Running, Stored
  <2>2. /\ threads = <<>> /\ Running = {} /\ data_to_commit = {}
        /\ Stored \subseteq Artists /\ Len(threads) = 0
    BY <2>1, EmptySeq DEF NothingHeld, Running, Stored
  <2>3. BatchBounded'
    BY <2>1, <2>2, EmptyBounded DEF BatchBounded
  <2>4. CASE main' = "loop" /\ artist_ids' = Artists \ Stored
    <3>1. \A j, k \in DOMAIN threads' : threads'[j] = threads'[k] => j = k
      BY <2>1, <2>2, EmptySeq
    <3> QED
      BY <2>1, <2>2, <2>3, <2>4, <3>1
         DEF TypeOK, Mains, EachArtistOnce, Working, BatchBuilt,
             FinishedComplete, WorkersHeld, NothingHeld
  <2>5. CASE main' = "down" /\ UNCHANGED artist_ids
    BY <2>1, <2>3, <2>5
       DEF TypeOK, Mains, EachArtistOnce, Working, BatchBuilt, FinishedComplete,
           WorkersHeld, NothingHeld
  <2> QED
    BY <1>2, <2>4, <2>5 DEF Start
<1>3. CASE Exit \/ Kill
  <2>1. /\ main' = "down" /\ Gone /\ UNCHANGED index_cache
        /\ deaths' \in 0..MaxDeaths
    BY <1>3, IndexerThreadAssumption DEF Exit, Kill, TypeOK
  <2>2. threads' \in Seq(Artists) /\ Len(threads') = 0 /\ data_to_commit' = {}
    BY <2>1, EmptySeq DEF Gone
  <2>3. BatchBounded'
    BY <2>2, EmptyBounded DEF BatchBounded
  <2> QED
    BY <2>1, <2>2, <2>3
       DEF Gone, Empty, TypeOK, Mains, Workers, EachArtistOnce, Working, BatchBuilt,
           FinishedComplete, WorkersHeld, NothingHeld
<1> QED
  BY <1>1, <1>2, <1>3

\* The invariant is inductive.
LEMMA NextIInv == IInv /\ [Next]_vars => IInv'
<1> SUFFICES ASSUME IInv, [Next]_vars PROVE IInv'
  OBVIOUS
<1>1. CASE Enter \/ Scan \/ Filled \/ Drained
  BY <1>1, PassIInv
<1>2. CASE Join \/ Spawn \/ Flush
  BY <1>2, JoinIInv, SpawnIInv, FlushIInv
<1>3. CASE ForceRebuild \/ Start \/ Exit \/ Kill
  BY <1>3, RunIInv
<1>4. CASE \E a \in Artists : Work(a)
  BY <1>4, WorkIInv
<1>5. CASE UNCHANGED vars
  BY <1>5 DEF vars, memory, IInv, TypeOK, EachArtistOnce, Working, BatchBuilt,
              FinishedComplete, WorkersHeld, NothingHeld, BatchBounded, Running, Stored
<1> QED
  BY <1>1, <1>2, <1>3, <1>4, <1>5 DEF Next, Main

\* The inductive invariant holds in every state.
THEOREM Invariant == Spec => []IInv
BY InitIInv, NextIInv, PTL DEF Spec

-----------------------------------------------------------------------------
(* The theorems.                                                           *)

\* The variables have their types.
THEOREM TypeCorrect == Spec => []TypeOK
<1>1. IInv => TypeOK
  BY DEF IInv
<1> QED
  BY <1>1, Invariant, PTL

\* However the runs before it died, a run that works has every artist exactly
\* once: pending, with one worker, in the batch, or in the table.
THEOREM ArtistsPartitioned == Spec => []EachArtistOnce
<1>1. IInv => EachArtistOnce
  BY DEF IInv
<1> QED
  BY <1>1, Invariant, PTL

\* What the batch takes comes from workers that are through.
THEOREM OnlyBuiltInBatch == Spec => []BatchBuilt
<1>1. IInv => BatchBuilt
  BY DEF IInv
<1> QED
  BY <1>1, Invariant, PTL

\* A run that finishes has left no artist without an index.
THEOREM NoArtistLeft == Spec => []FinishedComplete
<1>1. IInv => FinishedComplete
  BY DEF IInv
<1> QED
  BY <1>1, Invariant, PTL

\* Not more is built and unwritten than a batch short of a row and an index for
\* every worker, and a kill loses no more than that.
THEOREM BoundedLoss == Spec => []LossBounded
<1>1. IInv => LossBounded
  <2> SUFFICES ASSUME IInv PROVE LossBounded
    OBVIOUS
  <2> DEFINE built == {a \in Artists : sstream[a] # "none"}
  <2>1. built \subseteq Running \cup data_to_commit
    BY DEF IInv, WorkersHeld
  <2>2. /\ Running \in SUBSET Artists /\ data_to_commit \in SUBSET Artists
        /\ Len(threads) \in Nat
    BY LenProperties, ElementOfSeq DEF IInv, TypeOK, Running
  <2>3. /\ IsFiniteSet(Running) /\ Cardinality(Running) \in Nat
        /\ IsFiniteSet(data_to_commit) /\ Cardinality(data_to_commit) \in Nat
        /\ Cardinality(Running) <= Len(threads)
    BY <2>2, BatchFinite, RunningBounded DEF IInv
  <2>4. /\ Cardinality(Running \cup data_to_commit)
              <= Cardinality(Running) + Cardinality(data_to_commit)
        /\ IsFiniteSet(Running \cup data_to_commit)
        /\ Cardinality(Running \cup data_to_commit) \in Nat
    <3>1. Cardinality(Running \cap data_to_commit) \in Nat
      BY <2>2, BatchFinite
    <3>2. /\ IsFiniteSet(Running \cup data_to_commit)
          /\ Cardinality(Running \cup data_to_commit) \in Nat
      BY <2>2, BatchFinite
    <3>3. Cardinality(Running \cup data_to_commit)
             = Cardinality(Running) + Cardinality(data_to_commit)
               - Cardinality(Running \cap data_to_commit)
      BY <2>3, FS_Union
    <3> HIDE DEF built
    <3> QED
      BY <2>3, <3>1, <3>2, <3>3
  <2> HIDE DEF built
  <2>5. Cardinality(built) <= Cardinality(Running \cup data_to_commit)
    BY <2>1, <2>4, FS_Subset
  <2>6. Cardinality(built) \in Nat
    BY <2>1, <2>4, FS_Subset, FS_CardinalityType
  <2>7. Cardinality(data_to_commit) + Len(threads)
           <= NUM_ROWS_PER_COMMIT - 1 + num_threads
    BY DEF IInv, BatchBounded
  <2>8. Cardinality(built) <= NUM_ROWS_PER_COMMIT - 1 + num_threads
    BY <2>2, <2>3, <2>4, <2>5, <2>6, <2>7, IndexerThreadAssumption
  <2> QED
    BY <2>8 DEF LossBounded, built
<1> QED
  BY <1>1, Invariant, PTL

\* A write adds rows and replaces none: the artists of a batch were not stored.
THEOREM NoRowReplaced == Spec => RowsKept
<1> DEFINE Kept == \A a \in Stored : index_cache'[a] = index_cache[a] \/ main' = "cleared"
<1>1. IInv /\ [Next]_vars => [Kept]_vars
  <2> SUFFICES ASSUME IInv, Next PROVE Kept
    BY DEF vars, memory
  <2> USE DEF IInv
  <2>1. ASSUME NEW rows \in SUBSET Artists, NEW then, Write(rows, then),
               rows \cap Stored = {}
        PROVE  Kept
    BY <2>1 DEF Write, Stored
  <2>2. CASE Join
    <3> DEFINE rows == data_to_commit \cup {threads[at]}
    <3>1. /\ Working
          /\ Write(rows, "fill") \/ UNCHANGED index_cache
      BY <2>2 DEF Join, Working
    <3>2. at \in DOMAIN threads
      BY <2>2, LenProperties DEF Join, TypeOK
    <3>3. threads[at] \in Artists /\ threads[at] \in Running
      BY <3>2, LenProperties, ElementOfSeq DEF TypeOK, Running
    <3>4. rows \in SUBSET Artists /\ rows \cap Stored = {}
      BY <3>1, <3>3 DEF TypeOK, EachArtistOnce
    <3> QED
      BY <2>1, <3>1, <3>4
  <2>3. CASE Flush
    <3>1. Working /\ Write(data_to_commit, "finished")
      BY <2>3 DEF Flush, Working
    <3>2. data_to_commit \in SUBSET Artists /\ data_to_commit \cap Stored = {}
      BY <3>1 DEF TypeOK, EachArtistOnce
    <3> QED
      BY <2>1, <3>1, <3>2
  <2>4. CASE ForceRebuild
    BY <2>4 DEF ForceRebuild
  <2>5. CASE Enter \/ Scan \/ Start \/ Spawn \/ Filled \/ Drained \/ Exit \/ Kill
    BY <2>5 DEF Enter, Scan, Start, Spawn, Filled, Drained, Exit, Kill
  <2>6. CASE \E a \in Artists : Work(a)
    BY <2>6 DEF Work, Build, SetDone, Return
  <2> QED
    BY <2>2, <2>3, <2>4, <2>5, <2>6 DEF Next, Main
<1> QED
  BY <1>1, Invariant, PTL DEF Spec, RowsKept
=============================================================================
