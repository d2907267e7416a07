--------------------------- MODULE IndexCacheProofs ---------------------------
(***************************************************************************)
(* Proofs about IndexCache for any number of threads, artists and          *)
(* addresses, with or without the cleaner unless a theorem says otherwise. *)
(***************************************************************************)
EXTENDS IndexCache, TLAPS

\* A thread inside a lookup knows the artist it looks up, and a thread whose
\* new object is not yet in the cache knows the object.
Wanting ==
    \A t \in Threads : /\ pc[t] # "idle" => want[t] \in Artists
                       /\ Holding(t) => data[t] \in Objects

TypeInv == TypeOK /\ Wanting

\* The cache as constructed has the types.
LEMMA InitTypeInv == Init => TypeInv
<1> SUFFICES ASSUME Init PROVE TypeInv
  OBVIOUS
<1>1. cleaner \in CleanerPCs
  BY DEF Init, CleanerPCs
<1>2. now \in 0..MaxTime
  BY IndexCacheAssumption DEF Init
<1>3. last_accessed \in [Artists -> Int]
  BY DEF Init, Absent
<1> QED
  BY <1>1, <1>2, <1>3
     DEF Init, TypeInv, TypeOK, Wanting, Holding, PCs, OwnerPCs

\* Every step of a thread, the cleaner, the destructor or the clock keeps the
\* types.
LEMMA NextTypeInv == TypeInv /\ [Next]_vars => TypeInv'
<1> SUFFICES ASSUME TypeInv, [Next]_vars PROVE TypeInv'
  OBVIOUS
<1> USE IndexCacheAssumption
    DEF TypeInv, TypeOK, Wanting, Holding, PCs, CleanerPCs, OwnerPCs
<1>1. ASSUME NEW t \in Threads, NEW a \in Artists, Lookup(t, a)
      PROVE TypeInv'
  BY <1>1 DEF Lookup, Goto, cacheVars
<1>2. ASSUME NEW t \in Threads, ThreadStep(t) PROVE TypeInv'
  <2>1. CASE Lock(t)
    BY <2>1 DEF Lock, Goto, cacheVars
  <2>2. CASE Get(t)
    BY <2>2 DEF Get, Goto
  <2>3. CASE Load(t)
    BY <2>3 DEF Load, Goto
  <2>4. CASE LoadFails(t)
    BY <2>4 DEF LoadFails, Goto, cacheVars
  <2>5. CASE Add(t)
    BY <2>5 DEF Add, Goto
  <2>6. CASE Release(t)
    BY <2>6 DEF Release, Goto, cacheVars
  <2> QED
    BY <1>2, <2>1, <2>2, <2>3, <2>4, <2>5, <2>6 DEF ThreadStep
<1>3. CASE CleanerStep
  <2>1. CASE CleanerLoop \/ CleanerCheck \/ TrimLock \/ TrimMeasure
    BY <2>1 DEF CleanerLoop, CleanerCheck, TrimLock, TrimMeasure,
                CleanerGoto, cacheVars, threadVars
  <2>2. CASE TrimRound
    BY <2>2 DEF TrimRound, CleanerGoto, Erase, threadVars, Absent
  <2> QED
    BY <1>3, <2>1, <2>2 DEF CleanerStep
<1>4. CASE Destroy \/ ClearLock \/ Clear \/ Tick
  BY <1>4 DEF Destroy, ClearLock, Clear, Tick, Erase, Absent,
              cacheVars, threadVars
<1>5. CASE UNCHANGED vars
  BY <1>5 DEF vars
<1> QED
  BY <1>1, <1>2, <1>3, <1>4, <1>5 DEF Next

\* The types hold, and a thread that is inside a search wants an artist and
\* holds an object of it.
THEOREM TypeInvariant == Spec => []TypeInv
BY InitTypeInv, NextTypeInv, PTL DEF Spec

\* The variables have their types, whatever the threads and the cleaner do.
THEOREM TypeCorrect == Spec => []TypeOK
<1>1. TypeInv => TypeOK
  BY DEF TypeInv
<1> QED
  BY <1>1, TypeInvariant, PTL

-----------------------------------------------------------------------------
(* Ownership of the index objects.                                         *)

OwnInv == TypeInv /\ OwnedOnce

\* Erasing cached entries frees exactly the objects of those entries.
LEMMA EraseOwned ==
  ASSUME OwnInv, NEW S \in SUBSET Artists, Erase(S),
         \A a \in S : index[a] # None,
         UNCHANGED threadVars
  PROVE  OwnedOnce'
<1> USE DEF OwnInv, TypeInv, TypeOK, Wanting, Holding, OwnedOnce, CacheOwns,
            ThreadOwns, NoLeak, LiveObjects, Erase, threadVars
<1>1. CacheOwns'
  BY IndexCacheAssumption
<1>2. ThreadOwns'
  BY IndexCacheAssumption
<1>3. NoLeak'
  BY IndexCacheAssumption
<1> QED
  BY <1>1, <1>2, <1>3

\* No step loses an object, gives it a second owner, or forgets its key.
LEMMA NextOwned == OwnInv /\ [Next]_vars => OwnedOnce'
<1> SUFFICES ASSUME OwnInv, [Next]_vars PROVE OwnedOnce'
  OBVIOUS
<1> USE IndexCacheAssumption
    DEF OwnInv, TypeInv, TypeOK, Wanting, Holding, PCs
<1>1. ASSUME UNCHANGED <<index, heap>>,
             \A t \in Threads :
                \/ pc'[t] = pc[t] /\ want'[t] = want[t] /\ data'[t] = data[t]
                \/ ~Holding(t) /\ ~Holding(t)'
                \/ Holding(t) /\ Holding(t)' /\ data'[t] = data[t]
                      /\ want'[t] = want[t]
      PROVE OwnedOnce'
  BY <1>1 DEF OwnedOnce, CacheOwns, ThreadOwns, NoLeak, LiveObjects
<1>2. ASSUME NEW t \in Threads, NEW a \in Artists, Lookup(t, a)
      PROVE OwnedOnce'
  BY <1>1, <1>2 DEF Lookup, Goto, cacheVars
<1>3. ASSUME NEW t \in Threads, Lock(t) PROVE OwnedOnce'
  BY <1>1, <1>3 DEF Lock, Goto, cacheVars
<1>4. ASSUME NEW t \in Threads, Get(t) PROVE OwnedOnce'
  BY <1>1, <1>4 DEF Get, Goto
<1>5. ASSUME NEW t \in Threads, Load(t) PROVE OwnedOnce'
  <2>1. PICK o \in Objects \ LiveObjects :
          /\ heap' = [heap EXCEPT ![o] = want[t]]
          /\ data' = [data EXCEPT ![t] = o]
    BY <1>5 DEF Load
  <2>2. heap[o] = None /\ want[t] \in Artists
    BY <1>5, <2>1 DEF LiveObjects, Load, Goto
  <2> USE <2>1, <2>2 DEF OwnedOnce, CacheOwns, ThreadOwns, NoLeak, LiveObjects
  <2>3. CacheOwns'
    BY <1>5 DEF Load
  <2>4. ThreadOwns'
    BY <1>5 DEF Load, Goto
  <2>5. NoLeak'
    BY <1>5 DEF Load, Goto
  <2> QED
    BY <2>3, <2>4, <2>5
<1>6. ASSUME NEW t \in Threads, LoadFails(t) PROVE OwnedOnce'
  BY <1>1, <1>6 DEF LoadFails, Goto, cacheVars
<1>7. ASSUME NEW t \in Threads, Add(t) PROVE OwnedOnce'
  <2>1. /\ Holding(t) /\ ~Holding(t)'
        /\ want[t] \in Artists /\ data[t] \in Objects
        /\ heap[data[t]] = want[t]
        /\ \A s \in Threads \ {t} : Holding(s)' <=> Holding(s)
        /\ UNCHANGED <<want, data>>
    BY <1>7 DEF Add, Goto, OwnedOnce, ThreadOwns
  <2> USE DEF OwnedOnce, CacheOwns, ThreadOwns, NoLeak, LiveObjects
  <2>2. CASE index[want[t]] # None
    <3>1. UNCHANGED index /\ heap' = [heap EXCEPT ![data[t]] = None]
      BY <1>7, <2>2 DEF Add
    <3>2. CacheOwns' /\ ThreadOwns' /\ NoLeak'
      BY <2>1, <3>1
    <3> QED
      BY <3>2
  <2>3. CASE index[want[t]] = None
    <3>1. UNCHANGED heap /\ index' = [index EXCEPT ![want[t]] = data[t]]
      BY <1>7, <2>3 DEF Add
    <3>2. CacheOwns' /\ ThreadOwns' /\ NoLeak'
      BY <2>1, <2>3, <3>1
    <3> QED
      BY <3>2
  <2> QED
    BY <2>2, <2>3
<1>8. ASSUME NEW t \in Threads, Release(t) PROVE OwnedOnce'
  BY <1>1, <1>8 DEF Release, Goto, cacheVars
<1>9. CASE CleanerStep
  <2>1. CASE CleanerLoop \/ CleanerCheck \/ TrimLock \/ TrimMeasure
    BY <1>1, <2>1 DEF CleanerLoop, CleanerCheck, TrimLock, TrimMeasure,
                      cacheVars, threadVars
  <2>2. CASE TrimRound
    <3>1. PICK S \in Victims : Erase(S)
      BY <2>2 DEF TrimRound
    <3>2. S \in SUBSET Artists /\ \A a \in S : index[a] # None
      BY DEF Victims, Cached
    <3> QED
      BY <2>2, <3>1, <3>2, EraseOwned DEF TrimRound
  <2> QED
    BY <1>9, <2>1, <2>2 DEF CleanerStep
<1>10. CASE Clear
  <2>1. Cached \in SUBSET Artists /\ \A a \in Cached : index[a] # None
    BY DEF Cached
  <2> QED
    BY <1>10, <2>1, EraseOwned DEF Clear
<1>11. CASE Destroy \/ ClearLock \/ Tick
  BY <1>1, <1>11 DEF Destroy, ClearLock, Tick, cacheVars, threadVars
<1>12. CASE UNCHANGED vars
  BY <1>1, <1>12 DEF vars
<1> QED
  BY <1>2, <1>3, <1>4, <1>5, <1>6, <1>7, <1>8, <1>9, <1>10, <1>11, <1>12
     DEF Next, ThreadStep

\* Every index object has exactly one owner at every moment: add() and trim()
\* never leak an object, free one twice, or file it under another artist.
THEOREM Ownership == Spec => []OwnedOnce
<1>1. Init => OwnedOnce
  BY DEF Init, OwnedOnce, CacheOwns, ThreadOwns, NoLeak, LiveObjects, Holding
<1>2. OwnedOnce /\ TypeInv /\ [Next]_vars => OwnedOnce'
  BY NextOwned DEF OwnInv
<1> QED
  BY <1>1, <1>2, TypeInvariant, PTL DEF Spec

-----------------------------------------------------------------------------
(* The two maps.                                                           *)

\* index and last_accessed always have the same keys, so that trim() finds a
\* time for every entry it may remove.
THEOREM SameKeys == Spec => []KeysMatch
<1>1. Init => KeysMatch
  BY DEF Init, KeysMatch
<1>2. TypeInv /\ KeysMatch /\ [Next]_vars => KeysMatch'
  <2> SUFFICES ASSUME TypeInv, KeysMatch, [Next]_vars PROVE KeysMatch'
    OBVIOUS
  <2> USE IndexCacheAssumption
      DEF TypeInv, TypeOK, Wanting, Holding, PCs, KeysMatch, Absent
  <2>1. ASSUME UNCHANGED <<index, last_accessed>> PROVE KeysMatch'
    BY <2>1
  <2>2. ASSUME NEW S \in SUBSET Artists, Erase(S) PROVE KeysMatch'
    BY <2>2 DEF Erase
  <2>3. ASSUME NEW t \in Threads, ThreadStep(t) PROVE KeysMatch'
    <3>1. CASE Get(t)
      BY <3>1 DEF Get, Goto
    <3>2. CASE Add(t)
      BY <3>2 DEF Add, Goto
    <3> QED
      BY <2>1, <2>3, <3>1, <3>2
         DEF ThreadStep, Lock, Load, LoadFails, Release, cacheVars
  <2>4. CASE CleanerStep
    BY <2>1, <2>2, <2>4 DEF CleanerStep, CleanerLoop, CleanerCheck, TrimLock,
       TrimMeasure, TrimRound, Victims, Cached, cacheVars
  <2>5. CASE Clear
    BY <2>2, <2>5 DEF Clear, Cached
  <2> QED
    BY <2>1, <2>3, <2>4, <2>5
       DEF Next, Lookup, Destroy, ClearLock, Tick, vars, cacheVars
<1> QED
  BY <1>1, <1>2, TypeInvariant, PTL DEF Spec

-----------------------------------------------------------------------------
(* Shutdown.                                                               *)

\* Once the destructor has begun no thread is inside a lookup, and when it
\* has ended nothing is left on the heap.
ShutDown ==
    /\ owner # "alive" => \A t \in Threads : pc[t] = "idle"
    /\ DestroyedFreesAll

\* The destructor runs after the searches and its clear() frees everything.
LEMMA NextShutDown == OwnInv /\ ShutDown /\ [Next]_vars => ShutDown'
<1> SUFFICES ASSUME OwnInv, ShutDown, [Next]_vars PROVE ShutDown'
  OBVIOUS
<1> USE IndexCacheAssumption
    DEF ShutDown, DestroyedFreesAll, LiveObjects, OwnInv, TypeInv, TypeOK,
        OwnerPCs
<1>1. ASSUME UNCHANGED <<pc, heap, owner>> PROVE ShutDown'
  BY <1>1
<1>2. ASSUME NEW t \in Threads, NEW a \in Artists, Lookup(t, a)
      PROVE ShutDown'
  BY <1>2 DEF Lookup, Goto
<1>3. ASSUME NEW t \in Threads, ThreadStep(t) PROVE ShutDown'
  <2>1. owner = "alive" /\ owner' = owner
    BY <1>3 DEF ThreadStep, Lock, Get, Load, LoadFails, Add, Release, Goto
  <2> QED
    BY <2>1
<1>4. CASE CleanerStep
  <2>1. CASE TrimRound
    BY <2>1 DEF TrimRound, Erase, threadVars
  <2> QED
    BY <1>1, <1>4, <2>1 DEF CleanerStep, CleanerLoop, CleanerCheck, TrimLock,
       TrimMeasure, cacheVars, threadVars
<1>5. CASE Destroy
  BY <1>5 DEF Destroy, threadVars
<1>6. CASE ClearLock
  BY <1>6 DEF ClearLock, threadVars, cacheVars
<1>7. CASE Clear
  <2>1. \A o \in LiveObjects : \E a \in Artists : index[a] = o
    BY <1>7 DEF Clear, OwnedOnce, NoLeak, Holding
  <2>2. \A o \in LiveObjects : heap'[o] = None
    BY <1>7, <2>1 DEF Clear, Erase, Cached
  <2>3. \A o \in Objects : heap'[o] = None
    BY <1>7, <2>2 DEF Clear, Erase
  <2> QED
    BY <1>7, <2>3 DEF Clear, threadVars
<1>8. CASE Tick \/ UNCHANGED vars
  BY <1>1, <1>8 DEF Tick, vars, cacheVars, threadVars
<1> QED
  BY <1>2, <1>3, <1>4, <1>5, <1>6, <1>7, <1>8 DEF Next

\* The ownership invariant at every state and the next, for the proofs below.
LEMMA OwnInvariant == Spec => []OwnInv
BY TypeInvariant, Ownership, PTL DEF OwnInv

\* The state of the shutdown in every state, for the proofs below.
LEMMA ShutDownInvariant == Spec => []ShutDown
<1>1. Init => ShutDown
  BY DEF Init, ShutDown, DestroyedFreesAll
<1> QED
  BY <1>1, NextShutDown, OwnInvariant, PTL DEF Spec

\* The destructor's clear() leaves no index object behind, even when the
\* cleaner thread was trimming while the destructor began.
THEOREM NothingLeaks == Spec => []DestroyedFreesAll
<1>1. ShutDown => DestroyedFreesAll
  BY DEF ShutDown
<1> QED
  BY <1>1, ShutDownInvariant, PTL

-----------------------------------------------------------------------------
(* Without the cleaner, which is how every program of the repository uses  *)
(* the cache.                                                              *)

\* The cleaner never runs, and what a search uses is in the cache.
NoCleanerInv == cleaner = "off" /\ UsedArtistCached

\* Without the cleaner no step removes an entry a search uses.
LEMMA NextNoCleaner ==
  TypeInv /\ ShutDown /\ NoCleanerInv /\ [Next]_vars => NoCleanerInv'
<1> SUFFICES ASSUME TypeInv, ShutDown, NoCleanerInv, [Next]_vars
             PROVE  NoCleanerInv'
  OBVIOUS
<1> USE IndexCacheAssumption
    DEF TypeInv, TypeOK, Wanting, Holding, PCs, ShutDown, NoCleanerInv,
        UsedArtistCached
<1>1. ASSUME NEW t \in Threads, NEW a \in Artists, Lookup(t, a)
      PROVE NoCleanerInv'
  BY <1>1 DEF Lookup, Goto, cacheVars
<1>2. ASSUME NEW t \in Threads, ThreadStep(t) PROVE NoCleanerInv'
  <2>1. CASE Lock(t)
    BY <2>1 DEF Lock, Goto, cacheVars
  <2>2. CASE Get(t)
    BY <2>2 DEF Get, Goto
  <2>3. CASE Load(t)
    BY <2>3 DEF Load, Goto
  <2>4. CASE LoadFails(t)
    BY <2>4 DEF LoadFails, Goto, cacheVars
  <2>5. CASE Add(t)
    BY <2>5 DEF Add, Goto
  <2>6. CASE Release(t)
    BY <2>6 DEF Release, Goto, cacheVars
  <2> QED
    BY <1>2, <2>1, <2>2, <2>3, <2>4, <2>5, <2>6 DEF ThreadStep
<1>3. ~CleanerStep
  BY DEF CleanerStep, CleanerLoop, CleanerCheck, TrimLock, TrimRound,
         TrimMeasure, CleanerGoto
<1>4. CASE Destroy \/ ClearLock \/ Clear \/ Tick
  BY <1>4 DEF Destroy, ClearLock, Clear, Tick, cacheVars, threadVars
<1>5. CASE UNCHANGED vars
  BY <1>5 DEF vars
<1> QED
  BY <1>1, <1>2, <1>3, <1>4, <1>5 DEF Next

\* Without the cleaner, what a search uses is in the cache in every state.
LEMMA NoCleanerInvariant ==
  ASSUME CleanerStarted = FALSE
  PROVE  Spec => []NoCleanerInv
<1>1. Init => NoCleanerInv
  BY DEF Init, NoCleanerInv, UsedArtistCached
<1> QED
  BY <1>1, NextNoCleaner, TypeInvariant, ShutDownInvariant, PTL DEF Spec

\* An artist whose index a search is using stays in the cache.
THEOREM UsedStaysInCache ==
  ASSUME CleanerStarted = FALSE
  PROVE  Spec => []UsedArtistCached
<1>1. NoCleanerInv => UsedArtistCached
  BY DEF NoCleanerInv
<1> QED
  BY <1>1, NoCleanerInvariant, PTL

\* No step of any thread takes the cached object a search reads out of the
\* cache or puts another in its place.
THEOREM InUseKept ==
  ASSUME CleanerStarted = FALSE
  PROVE  Spec => InUseStaysCached
<1> DEFINE Kept == \A t \in Threads :
              (/\ pc[t] = "using" /\ pc'[t] = "using"
               /\ index[want[t]] = data[t]) => index'[want[t]] = data[t]
<1>1. TypeInv /\ ShutDown /\ NoCleanerInv /\ [Next]_vars => [Kept]_vars
  <2> SUFFICES ASSUME TypeInv, ShutDown, NoCleanerInv, Next,
                      NEW t \in Threads, pc[t] = "using",
                      index[want[t]] = data[t]
               PROVE  index'[want[t]] = data[t]
    OBVIOUS
  <2> USE IndexCacheAssumption DEF TypeInv, TypeOK, Wanting, NoCleanerInv,
          UsedArtistCached
  <2>1. owner = "alive"
    BY DEF ShutDown
  <2>2. ASSUME NEW s \in Threads, ThreadStep(s)
        PROVE  index'[want[t]] = data[t]
    BY <2>2 DEF ThreadStep, Lock, Get, Load, LoadFails, Add, Release, cacheVars
  <2>3. ~CleanerStep
    BY DEF CleanerStep, CleanerLoop, CleanerCheck, TrimLock, TrimRound,
           TrimMeasure, CleanerGoto
  <2> QED
    BY <2>1, <2>2, <2>3
       DEF Next, Lookup, Destroy, ClearLock, Clear, Tick, cacheVars
<1>2. Spec => [][Kept]_vars
  BY <1>1, TypeInvariant, ShutDownInvariant, NoCleanerInvariant, PTL DEF Spec
<1> QED
  BY <1>2 DEF InUseStaysCached

\* With one thread the pointer in use is the cached one, and an object that
\* was loaded is not in the cache yet.
SingleInv ==
    \A t \in Threads :
       /\ pc[t] \in {"load", "add", "add_cs"} => index[want[t]] = None
       /\ pc[t] = "using" => data[t] # None /\ index[want[t]] = data[t]

\* A program with one search thread (explore, test) never reads an index
\* object that was deleted.
THEOREM SingleThreadSafe ==
  ASSUME CleanerStarted = FALSE,
         \A s, t \in Threads : s = t
  PROVE  Spec => []NoUseAfterFree
<1> USE IndexCacheAssumption
    DEF OwnInv, TypeInv, TypeOK, Wanting, Holding, PCs, ShutDown, NoCleanerInv,
        SingleInv
<1>1. Init => SingleInv
  BY DEF Init
<1>2. OwnInv /\ ShutDown /\ NoCleanerInv /\ SingleInv /\ [Next]_vars
        => SingleInv'
  <2> SUFFICES ASSUME OwnInv, ShutDown, NoCleanerInv, SingleInv, [Next]_vars
               PROVE  SingleInv'
    OBVIOUS
  <2>1. ASSUME NEW t \in Threads, NEW a \in Artists, Lookup(t, a)
        PROVE SingleInv'
    BY <2>1 DEF Lookup, Goto, cacheVars
  <2>2. ASSUME NEW t \in Threads, ThreadStep(t) PROVE SingleInv'
    <3>1. CASE Lock(t)
      BY <3>1 DEF Lock, Goto, cacheVars
    <3>2. CASE Get(t)
      BY <3>2 DEF Get, Goto
    <3>3. CASE Load(t)
      BY <3>3 DEF Load, Goto
    <3>4. CASE LoadFails(t)
      BY <3>4 DEF LoadFails, Goto, cacheVars
    <3>5. CASE Add(t)
      BY <3>5 DEF Add, Goto
    <3>6. CASE Release(t)
      BY <3>6 DEF Release, Goto, cacheVars
    <3> QED
      BY <2>2, <3>1, <3>2, <3>3, <3>4, <3>5, <3>6 DEF ThreadStep
  <2>3. ~CleanerStep
    BY DEF CleanerStep, CleanerLoop, CleanerCheck, TrimLock, TrimRound,
           TrimMeasure, CleanerGoto
  <2>4. CASE Destroy \/ ClearLock \/ Clear \/ Tick
    BY <2>4 DEF Destroy, ClearLock, Clear, Tick, cacheVars, threadVars
  <2>5. CASE UNCHANGED vars
    BY <2>5 DEF vars
  <2> QED
    BY <2>1, <2>2, <2>3, <2>4, <2>5 DEF Next
<1>3. OwnInv /\ SingleInv => NoUseAfterFree
  BY DEF NoUseAfterFree, OwnedOnce, CacheOwns
<1> QED
  BY <1>1, <1>2, <1>3, OwnInvariant, ShutDownInvariant, NoCleanerInvariant,
     PTL DEF Spec
=============================================================================
