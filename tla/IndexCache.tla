------------------------------ MODULE IndexCache ------------------------------
(***************************************************************************)
(* The in-memory cache of per-artist search indexes (index_cache.hpp) with *)
(* the code that shares it: the search threads, which fetch an artist's    *)
(* index through SearchFunctions::load_recording_release_index             *)
(* (search.hpp) and then read it through the returned raw pointer, the     *)
(* cleaner thread, and the destructor run by the single-threaded tools.    *)
(*                                                                         *)
(* A critical section of mtx is one step from lock() to unlock(); taking   *)
(* the mutex is a step of its own, so that every order in which the        *)
(* threads get it is explored.  The heap is modelled as malloc behaves: an *)
(* address that was deleted may be handed out again, whoever still points  *)
(* to it.                                                                  *)
(***************************************************************************)
EXTENDS Integers, FiniteSets

CONSTANTS
    Threads,         \* the search threads
    CleanerThread,   \* holder of mtx while trim() runs
    OwnerThread,     \* holder of mtx while the destructor's clear() runs
    Artists,         \* artist credit ids
    Objects,         \* addresses of ReleaseRecordingIndex objects
    None,            \* nullptr, absent map entry, mutex not held
    CleanerStarted,  \* TRUE iff start() was called
    MaxMemoryUsage,  \* constructor argument, in units of one cached index
    Baseline,        \* memory of the process without any cached index
    EvictBatch,      \* entries removed by a round of trim(); 10 in the code
    MaxTime          \* bound on the clock (a bound of the model)

ASSUME IndexCacheAssumption ==
    /\ None \notin Artists /\ None \notin Objects /\ None \notin Threads
    /\ CleanerThread \notin Threads /\ OwnerThread \notin Threads
    /\ CleanerThread # OwnerThread
    /\ CleanerThread # None /\ OwnerThread # None
    /\ CleanerStarted \in BOOLEAN
    /\ MaxMemoryUsage \in Nat /\ Baseline \in Nat
    /\ EvictBatch \in Nat \ {0} /\ MaxTime \in Nat

VARIABLES
    index,          \* artist -> address of its cached index, or None
    last_accessed,  \* artist -> time of the last get or add, or Absent
    mtx,            \* holder of the mutex, or None
    heap,           \* address -> artist whose index lives there, or None
    now,            \* wall clock, in seconds
    pc,             \* search thread -> where it is in the lookup
    want,           \* search thread -> artist credit it looks up
    data,           \* search thread -> the pointer it holds, or None
    cleaner,        \* where the cleaner thread is
    stop,           \* the flag that ends the cleaner
    owner           \* life of the cache object itself

vars == <<index, last_accessed, mtx, heap, now, pc, want, data,
          cleaner, stop, owner>>

threadVars == <<pc, want, data>>
cacheVars  == <<index, last_accessed, heap>>

Absent == -1

\* Artists with an entry, and what get_memory_footprint() measures.
Cached    == {a \in Artists : index[a] # None}
LiveObjects == {o \in Objects : heap[o] # None}
Footprint == Baseline + Cardinality(LiveObjects)
Used      == Footprint - Baseline

CleaningTarget == (MaxMemoryUsage * 9) \div 10

PCs == {"idle", "get", "get_cs", "load", "add", "add_cs", "using"}
CleanerPCs == {"off", "loop", "sleep", "trim", "trim_cs", "measure", "exited"}
OwnerPCs == {"alive", "joining", "clear_cs", "destroyed"}

TypeOK ==
    /\ index \in [Artists -> Objects \cup {None}]
    /\ last_accessed \in [Artists -> Int]
    /\ mtx \in Threads \cup {CleanerThread, OwnerThread, None}
    /\ heap \in [Objects -> Artists \cup {None}]
    /\ now \in 0..MaxTime
    /\ pc \in [Threads -> PCs]
    /\ want \in [Threads -> Artists \cup {None}]
    /\ data \in [Threads -> Objects \cup {None}]
    /\ cleaner \in CleanerPCs
    /\ stop \in BOOLEAN
    /\ owner \in OwnerPCs

-----------------------------------------------------------------------------
Init ==
    /\ index = [a \in Artists |-> None]
    /\ last_accessed = [a \in Artists |-> Absent]
    /\ mtx = None
    /\ heap = [o \in Objects |-> None]
    /\ now = 0
    /\ pc = [t \in Threads |-> "idle"]
    /\ want = [t \in Threads |-> None]
    /\ data = [t \in Threads |-> None]
    /\ cleaner = IF CleanerStarted THEN "loop" ELSE "off"
    /\ stop = FALSE
    /\ owner = "alive"

-----------------------------------------------------------------------------
(* A search thread.                                                        *)

Goto(t, from, to) ==
    /\ pc[t] = from
    /\ pc' = [pc EXCEPT ![t] = to]

\* A search has selected artist a and calls load_recording_release_index.
Lookup(t, a) ==
    /\ owner = "alive"
    /\ Goto(t, "idle", "get")
    /\ want' = [want EXCEPT ![t] = a]
    /\ UNCHANGED <<cacheVars, mtx, now, data, cleaner, stop, owner>>

\* mtx.lock() at the head of get() and of add().
Lock(t) ==
    /\ mtx = None
    /\ \/ Goto(t, "get", "get_cs")
       \/ Goto(t, "add", "add_cs")
    /\ mtx' = t
    /\ UNCHANGED <<cacheVars, now, want, data, cleaner, stop, owner>>

\* Mutants of Get: the key of the entry is returned, not its pointer; a miss
\* returns without unlocking.
GetKey(t) ==
    LET hit == index[want[t]] # None
    IN  /\ Goto(t, "get_cs", IF hit THEN "using" ELSE "load")
        /\ data' = [data EXCEPT ![t] = IF hit THEN want[t] ELSE None]
        /\ mtx' = None
        /\ UNCHANGED <<cacheVars, now, want, cleaner, stop, owner>>

GetKeepsLock(t) ==
    LET hit == index[want[t]] # None
    IN  /\ Goto(t, "get_cs", IF hit THEN "using" ELSE "load")
        /\ data' = [data EXCEPT ![t] = index[want[t]]]
        /\ mtx' = IF hit THEN None ELSE mtx
        /\ UNCHANGED <<cacheVars, now, want, cleaner, stop, owner>>

\* get(): a hit refreshes the access time and returns the cached pointer.
Get(t) ==
    LET hit == index[want[t]] # None
    IN  /\ Goto(t, "get_cs", IF hit THEN "using" ELSE "load")
        /\ data' = [data EXCEPT ![t] = index[want[t]]]
        /\ last_accessed' = IF hit THEN [last_accessed EXCEPT ![want[t]] = now]
                                   ELSE last_accessed
        /\ mtx' = None
        /\ UNCHANGED <<index, heap, now, want, cleaner, stop, owner>>

\* RecordingIndex::load deserialises the blob into a new object ...
Load(t) ==
    /\ Goto(t, "load", "add")
    /\ \E o \in Objects \ LiveObjects :
          /\ heap' = [heap EXCEPT ![o] = want[t]]
          /\ data' = [data EXCEPT ![t] = o]
    /\ UNCHANGED <<index, last_accessed, mtx, now, want, cleaner, stop, owner>>

\* A mutant of LoadFails: the search goes on with the null pointer.
LoadFailsUnnoticed(t) ==
    /\ Goto(t, "load", "using")
    /\ UNCHANGED <<cacheVars, mtx, now, want, data, cleaner, stop, owner>>

\* ... or finds no row, or meets a database error, and returns nullptr.
LoadFails(t) ==
    /\ Goto(t, "load", "idle")
    /\ UNCHANGED <<cacheVars, mtx, now, want, data, cleaner, stop, owner>>

\* Mutants of Add: the duplicate is not deleted; the entry there is replaced.
AddStep(t) ==
    /\ Goto(t, "add_cs", "using")
    /\ mtx' = None
    /\ UNCHANGED <<now, want, data, cleaner, stop, owner>>

AddLeaks(t) ==
    /\ AddStep(t)
    /\ IF index[want[t]] # None
       THEN UNCHANGED cacheVars
       ELSE /\ index' = [index EXCEPT ![want[t]] = data[t]]
            /\ last_accessed' = [last_accessed EXCEPT ![want[t]] = now]
            /\ UNCHANGED heap

AddReplaces(t) ==
    /\ AddStep(t)
    /\ heap' = [o \in Objects |-> IF o = index[want[t]] THEN None ELSE heap[o]]
    /\ index' = [index EXCEPT ![want[t]] = data[t]]
    /\ last_accessed' = [last_accessed EXCEPT ![want[t]] = now]

\* add(): an artist that is already cached keeps its object and the new one
\* is deleted; the caller goes on with the pointer it passed in.
Add(t) ==
    LET a == want[t]
    IN  /\ Goto(t, "add_cs", "using")
        /\ IF index[a] # None
           THEN /\ heap' = [heap EXCEPT ![data[t]] = None]
                /\ UNCHANGED <<index, last_accessed>>
           ELSE /\ index' = [index EXCEPT ![a] = data[t]]
                /\ last_accessed' = [last_accessed EXCEPT ![a] = now]
                /\ UNCHANGED heap
        /\ mtx' = None
        /\ UNCHANGED <<now, want, data, cleaner, stop, owner>>

\* The search is done with this artist: release_recording_index = nullptr.
Release(t) ==
    /\ Goto(t, "using", "idle")
    /\ data' = [data EXCEPT ![t] = None]
    /\ UNCHANGED <<cacheVars, mtx, now, want, cleaner, stop, owner>>

ThreadStep(t) ==
    \/ Lock(t) \/ Get(t) \/ Load(t) \/ LoadFails(t) \/ Add(t) \/ Release(t)

-----------------------------------------------------------------------------
(* The cleaner thread, started by start() only.                            *)

CleanerGoto(from, to) ==
    /\ cleaner = from
    /\ cleaner' = to

\* while(!stop), and the sleep that ends early when stop is set.
CleanerLoop ==
    /\ CleanerGoto("loop", IF stop THEN "exited" ELSE "sleep")
    /\ UNCHANGED <<cacheVars, mtx, now, threadVars, stop, owner>>

\* A mutant of CleanerCheck: a cache that is just full is not trimmed.
CleanerCheckLate ==
    /\ CleanerGoto("sleep", IF Used > MaxMemoryUsage THEN "trim" ELSE "loop")
    /\ UNCHANGED <<cacheVars, mtx, now, threadVars, stop, owner>>

\* The measurement after the sleep; it is made once more after stop is set.
CleanerCheck ==
    /\ CleanerGoto("sleep", IF Used >= MaxMemoryUsage THEN "trim" ELSE "loop")
    /\ UNCHANGED <<cacheVars, mtx, now, threadVars, stop, owner>>

TrimLock ==
    /\ mtx = None
    /\ CleanerGoto("trim", "trim_cs")
    /\ mtx' = CleanerThread
    /\ UNCHANGED <<cacheVars, now, threadVars, stop, owner>>

\* The entries one round of trim() removes: the first EvictBatch of the list
\* sorted by access time, latest first; std::sort leaves ties in any order.
Victims ==
    {S \in SUBSET Cached :
        /\ Cardinality(S) = IF EvictBatch < Cardinality(Cached)
                            THEN EvictBatch ELSE Cardinality(Cached)
        /\ \A a \in S, b \in Cached \ S : last_accessed[a] >= last_accessed[b]}

\* Mutants of Erase: the access times stay; the objects are not deleted.
EraseKeepsTimes(S) ==
    /\ index' = [a \in Artists |-> IF a \in S THEN None ELSE index[a]]
    /\ heap' = [o \in Objects |->
                  IF \E a \in S : index[a] = o THEN None ELSE heap[o]]
    /\ UNCHANGED last_accessed

EraseLeaks(S) ==
    /\ index' = [a \in Artists |-> IF a \in S THEN None ELSE index[a]]
    /\ last_accessed' =
         [a \in Artists |-> IF a \in S THEN Absent ELSE last_accessed[a]]
    /\ UNCHANGED heap

\* What erasing the entries of S does to the cache and to the heap.
Erase(S) ==
    /\ index' = [a \in Artists |-> IF a \in S THEN None ELSE index[a]]
    /\ last_accessed' =
         [a \in Artists |-> IF a \in S THEN Absent ELSE last_accessed[a]]
    /\ heap' = [o \in Objects |->
                  IF \E a \in S : index[a] = o THEN None ELSE heap[o]]

TrimRound ==
    /\ CleanerGoto("trim_cs", IF Cached = {} THEN "loop" ELSE "measure")
    /\ \E S \in Victims : Erase(S)
    /\ mtx' = None
    /\ UNCHANGED <<now, threadVars, stop, owner>>

\* The footprint of the whole process is compared with the target.
TrimMeasure ==
    /\ CleanerGoto("measure",
                   IF Footprint <= CleaningTarget THEN "loop" ELSE "trim")
    /\ UNCHANGED <<cacheVars, mtx, now, threadVars, stop, owner>>

CleanerStep ==
    CleanerLoop \/ CleanerCheck \/ TrimLock \/ TrimRound \/ TrimMeasure

-----------------------------------------------------------------------------
(* The destructor; its callers delete the searcher first.                  *)

\* A mutant of Destroy: the cleaner is not told to stop.
DestroyWithoutStop ==
    /\ owner = "alive"
    /\ \A t \in Threads : pc[t] = "idle"
    /\ owner' = "joining"
    /\ UNCHANGED <<cacheVars, mtx, now, threadVars, cleaner, stop>>

Destroy ==
    /\ owner = "alive"
    /\ \A t \in Threads : pc[t] = "idle"
    /\ owner' = "joining"
    /\ stop' = (stop \/ CleanerStarted)
    /\ UNCHANGED <<cacheVars, mtx, now, threadVars, cleaner>>

\* join() returns, then clear() takes the mutex.
ClearLock ==
    /\ owner = "joining"
    /\ cleaner \in {"off", "exited"}
    /\ mtx = None
    /\ mtx' = OwnerThread
    /\ owner' = "clear_cs"
    /\ UNCHANGED <<cacheVars, now, threadVars, cleaner, stop>>

\* A mutant of Clear: the map is emptied, the objects stay.
ClearLeaks ==
    /\ owner = "clear_cs"
    /\ index' = [a \in Artists |-> None]
    /\ last_accessed' = [a \in Artists |-> Absent]
    /\ mtx' = None
    /\ owner' = "destroyed"
    /\ UNCHANGED <<heap, now, threadVars, cleaner, stop>>

Clear ==
    /\ owner = "clear_cs"
    /\ Erase(Cached)
    /\ mtx' = None
    /\ owner' = "destroyed"
    /\ UNCHANGED <<now, threadVars, cleaner, stop>>

Tick ==
    /\ now < MaxTime
    /\ now' = now + 1
    /\ UNCHANGED <<cacheVars, mtx, threadVars, cleaner, stop, owner>>

Next ==
    \/ \E t \in Threads, a \in Artists : Lookup(t, a)
    \/ \E t \in Threads : ThreadStep(t)
    \/ CleanerStep
    \/ Destroy \/ ClearLock \/ Clear
    \/ Tick

Spec == Init /\ [][Next]_vars

\* Running threads keep running; a search or a shutdown need never begin,
\* and nothing is assumed about who gets a contended mutex.
Fairness ==
    /\ \A t \in Threads : WF_vars(ThreadStep(t))
    /\ WF_vars(CleanerStep)
    /\ WF_vars(ClearLock \/ Clear)

FairSpec == Spec /\ Fairness

-----------------------------------------------------------------------------
(* Properties.                                                             *)

\* A thread owns its new object from load() until add() takes it over.
Holding(t) == pc[t] \in {"add", "add_cs"}

\* The two maps of the cache have the same keys, which trim() relies on when
\* it takes as many entries from last_accessed as index has.
KeysMatch ==
    \A a \in Artists : (index[a] = None) <=> (last_accessed[a] = Absent)

\* A cached object holds the index of the artist it is cached for.
CacheOwns == \A a \in Artists : index[a] # None => heap[index[a]] = a

\* A new object belongs to the one thread that loaded it ...
ThreadOwns ==
    \A t \in Threads : Holding(t) =>
       /\ data[t] # None
       /\ heap[data[t]] = want[t]
       /\ \A a \in Artists : index[a] # data[t]
       /\ \A s \in Threads \ {t} : Holding(s) => data[s] # data[t]

\* ... and no live object is without an owner.
NoLeak ==
    \A o \in LiveObjects : \/ \E a \in Artists : index[a] = o
                          \/ \E t \in Threads : Holding(t) /\ data[t] = o

\* Every live index object has exactly one owner, the cache or the thread
\* about to add it, and holds the data of the artist it is owned for: nothing
\* leaks, nothing is deleted twice, the cache never serves a wrong artist.
OwnedOnce == CacheOwns /\ ThreadOwns /\ NoLeak

\* The pointer a search reads through refers to the live index of the artist
\* it selected, from the return of load_recording_release_index on.
NoUseAfterFree ==
    \A t \in Threads : pc[t] = "using" => /\ data[t] # None
                                          /\ heap[data[t]] = want[t]

\* Without the cleaner an artist whose index was fetched stays in the cache
\* for as long as the search uses it.
UsedArtistCached ==
    \A t \in Threads : pc[t] = "using" => index[want[t]] # None

\* A step never takes away the cached object another search is reading.
InUseStaysCached ==
    [][\A t \in Threads :
          (/\ pc[t] = "using" /\ pc'[t] = "using"
           /\ index[want[t]] = data[t]) => index'[want[t]] = data[t]]_vars

\* The destructor frees every index object.
DestroyedFreesAll == owner = "destroyed" => LiveObjects = {}

\* The mutex is always released again, by every path of get, add, trim and
\* clear.
LockReleased == (mtx # None) ~> (mtx = None)

\* Once the destructor has begun, the cleaner stops and it ends.
DestructorEnds == (owner = "joining") ~> (owner = "destroyed")

\* MAX_CACHE_SIZE is a limit: when the searches pause, memory use gets back
\* below it.
TrimsWhenQuiet ==
    <>[](\A t \in Threads : pc[t] = "idle") => []<>(Used < MaxMemoryUsage)
=============================================================================
