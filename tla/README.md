# A TLA+ verification of faster-fuzzy

faster-fuzzy maps the names of an artist, a recording and, optionally, a release
to MusicBrainz ids. This directory holds TLA+ models of its C++ code (in
`src/mapper/`), the TLC runs that check them on small instances, and TLAPS proofs
of the most important of their properties. `PROJECT.json` lists the runs, the
code lines every definition stands for, the hazards and the theorems.

## The system

Three programs work one after the other on a data directory, `mapping.db`:

    PostgreSQL --make_mapping--> table mapping --make_indexes--> table index_cache
                                      |                               |
                                      +-----------> server <----------+

| component | state | operations | what makes it hard |
|---|---|---|---|
| MakeMapping (`make_mapping.cpp`) | CSV file, tables | query, write CSV, create tables, import, index | a failure between two steps, the CSV records |
| ArtistIndex (`artist_index.hpp`) | three FuzzyIndexes: single, multiple, stupid (no word characters) | build, save, load | what is not written when a list is empty |
| IndexerThread (`indexer_thread.hpp`) | pending artists, workers, batch, table `index_cache` | scan, join, spawn, write, flush | threads, transactions, killed and resumed runs |
| RecordingIndex (`recording_index.hpp`) | texts, ids and links of one artist | build, load | names that share a text, aliases, a database error in the middle |
| FuzzyIndex (`fuzzy_index.hpp`) | texts, ids, vectors | build, save, load, search | growing k, rescoring of long texts, an index that was not built |
| TfIdfVectorizer (`tfidf_vectorizer.cpp`) | two maps, gram to row and gram to weight | fit, transform | transform inserts into the maps |
| Levenshtein (`levenshtein.cpp`) | none | distances, edit operations, opcodes, matching blocks | skipped corners of the matrix, the way back through it |
| EncodeSearchData (`encode.hpp`) | none | encoding | |
| IndexCache (`index_cache.hpp`) | two maps, mutex, cleaner thread | get, add, trim, clear | raw pointers shared by threads |
| SearchFunctions (`search.hpp`) | database connection | load index, searches, canonical release, find_match | order of lists, null results |
| MappingSearch (`fsm.hpp`) | a state machine's variables | search | one object serves request after request; stale variables |
| Server (`server.cpp`) | one IndexCache and ArtistIndex, one MappingSearch a thread | HTTP routes | concurrency of all of the above |
| Explorer, test, utils | none | | |

The server's threads share the IndexCache and the three artist indexes. The latter
are not read-only: a search inserts into the maps of their vectorizers. A search
calls `load_recording_release_index`, which asks the cache and, if it has no entry,
loads the index from `index_cache` and adds it; the raw pointer it returns is used
until the search is over or selects another artist.

### What makes each component correct

* **IndexCache**: an index in memory has one owner; the pointer a search reads
  through stays valid; memory gets back below the limit; no lock is kept.
* **MappingSearch**: no state function reads what was not set, or what an earlier
  artist, recording or request left behind; a search ends; its answer is a real row
  of the mapping, and the one the order of the candidates calls for.
* **RecordingIndex**: every row of an artist can be found, none is made up, and the
  canonical release is found by the binary search over the links.
* **IndexerThread**: every artist gets one index, whatever died before.
* **ArtistIndex, make_indexes, server start**: what was built can be loaded.
* **MakeMapping, make_indexes**: a run that succeeds leaves what a rerun after any
  number of failures should leave: everything present, nothing stale.
* **FuzzyIndex, TfIdfVectorizer**: results are the best ones above the threshold; a
  text that is in the index is found; no search changes what another one finds.
* **Levenshtein**: the distance is the edit distance, the operations turn one string
  into the other at that cost, and all block forms of them agree.

## Modules

| module | models | role |
|---|---|---|
| `IndexCache` | `index_cache.hpp`, its callers in `search.hpp` | cache, search threads, cleaner, destructor |
| `IndexCacheProofs` | | its theorems |
| `RecordingIndexData` | `recording_index.hpp` | the steps of the index builder as operators |
| `RecordingIndex` | | the builder as a state machine, with database errors |
| `SearchFunctions` | `search.hpp`, `defs.hpp` | what a search reads, as operators on a database value |
| `MappingLookup` | | the abstract lookup: which candidate decides and what it answers, also when calls to the database fail |
| `MappingSearch` | `fsm.hpp` | the state machine |
| `MappingSearchFaults` | the error paths of `search.hpp` | the machine with a history of failed calls; implements `MappingLookup` |
| `MappingSearchProofs` | | the theorems of the two, with the refinement |
| `StableSort` | `std::sort` in `search.hpp`, `recording_index.hpp` | sorting by a key, with ties |
| `DataLemmas` | | facts about naturals, sequences and sorting that the proofs share |
| `RecordingIndexProofs` | | its theorems |
| `IndexerThread`, `IndexerThreadProofs` | `indexer_thread.hpp`, `make_indexes.cpp` | the index builder's main loop, and its theorems |
| `DataDirectory`, `DataDirectoryProofs` | `make_mapping.cpp`, `artist_index.hpp`, `make_indexes.cpp` | the programs that fill `mapping.db`, run again and again, and their theorems |
| `Levenshtein` | `levenshtein.cpp` | the distances and the cost matrix as operators |
| `EditOps`, `EditOpsProofs` | `levenshtein.cpp`, `levenshtein.hpp` | the way back, opcodes and matching blocks as a state machine, and their theorems |
| `FuzzyIndex`, `FuzzyIndexProofs` | `fuzzy_index.hpp`, `tfidf_vectorizer.cpp` | the index, its vectorizer, and the threads that search it, and their theorems |
| `MCIndexCache`, `MCRecordingIndex`, `MCMappingSearch`, `MCMappingSearchFaults`, `MCDataDirectory`, `MCEditOps`, `MCFuzzyIndex` | | instances for TLC |

Operators whose comment says "a mutant of" are deliberately wrong forms of the
definition that follows; no specification uses them. Each makes a run fail, which
shows that the property of that run can tell right from wrong.

### IndexCache

`index`, `last_accessed` and `mtx` are the members of the class. `heap` says which
artist's index lives at an address: an address that was deleted can be used again,
as an allocator does, so a stale pointer may come to point to another artist's
index. A critical section is one step, and taking the mutex is another. `pc`, `want`
and `data` follow a search thread through `load_recording_release_index`: `get`
(lock, look), `load`, `add` (lock, insert or delete), `using`. The actions `Release`
and `Lookup` are the search machine selecting another artist. `CleanerLoop`, `CleanerCheck`,
`TrimLock`, `TrimRound` and `TrimMeasure` are the cleaner thread, `Destroy`,
`ClearLock` and `Clear` the destructor, which the tools run after their searches.
Memory is counted in indexes: `Baseline` stands for all other memory.

### RecordingIndexData and RecordingIndex

`Build` is the whole construction as a function of the query's rows and the aliases;
`RecordingIndex` runs the same operators step by step, so that a database error
(`QueryFails`) can cut it anywhere. Encoding is a function `Encode` on names:
only which names share a text, and which have none, matters. `MCMappingSearch` uses
`Build` to make the indexes that the searches are checked on.

### SearchFunctions, MappingSearch, MappingSearchFaults and MappingLookup

A `Database` is what a data directory holds: for each name the hits of the artist
searches, for each artist a `Blob` (its index), and the mapping table. Hits are
data: what nmslib finds for a name is not computed here. `MappingSearch` has an
action for every state function, up to the `enter_transition` call in which it
ends; `EnterWith` is that call, with the table of `fsm.hpp` as `Transitions`. An
event without a row ends the search where it is, as in the code. Nothing sets
`has_cleaned_artist` before its first use, so it starts out as either value.

`MappingLookup` says what the machine is for, without states: the first candidate
artist that *decides* a request answers it. With a release asked for, a candidate
decides if its best release is linked to one of its recordings; without one, if it
has a recording of the name, and then the canonical release of the best one is the
answer or there is none.

The handlers of database errors turn a failed call into one that found nothing.
`MappingSearchFaults` keeps, in the history variable `errors`, which call failed for
which candidate, and refines `MappingLookup`: `request` is the query while the search
runs, `reply` is `answer`. `Answer` is a function of the request, the database and
`errors`, so the refinement says exactly what an error costs: a failed load its
candidate, a failed canonical lookup the match, failed metadata the names; and that
nothing a request left behind, and no error of an earlier one, reaches the next.

### IndexerThread

`main` follows the main thread: `loop` (the loop's test), `scan` (the pass over the
workers, whose flags are read one in a step, `at` being the position), `join`, `fill`
(the inner loop), `flush`, then `finished`, or `unwound` after an exception. A worker
fills its stream (`Build`), sets its flag (`SetDone`) and returns (`Return`), each in a
step: the main thread may see the flag before the worker is through, and `Join` waits
for it. `Build` is one step because nobody else looks at what it reads and writes: the
stream is its own until the join, the database is read through a connection of its own,
and of the RecordingIndex, to which all workers have a pointer, `recording_aliases` is
only searched (`recording_index.hpp:197`). The workers also share its `encode`, whose regular
expressions are jpcre2 objects; their source is a submodule that is not in the repository,
and they are taken not to change by being used. `Write` is the transaction: all rows or
none. `Kill` ends the process at any point: only the table survives. `Start` is the query
of the artists not in the table.

`LossBounded` is about what is built and not in the table. Each time round the loop at
most one worker is joined, and the batch is written if that fills it, before another
worker is started. The bound, a batch short of a row and an index for every worker, rests
on this order and is in no one line: a loop that started workers before it looked at the
batch would exceed it.

### DataDirectory

One program runs at a time, and `step` is what it does next: `schema`, `export` and
`import` are make_mapping, the others make_indexes. `mapping` is the set of credits
in the table, `artists` and `recordings` are the rows of `index_cache`. The loop of
IndexerThread appears only as its commits (`Commit`) and its end (`Finish`). `Loaded`
is what `load_artist_data` makes of the rows of a query: the names and, where
`is_transliterated` says so, the text made of the sort names (`CreditSortName`). `Reads`
and `Save` may fail with a message and let the program go on, as their handlers do;
`Throw` is the exception of an empty index, which ends it; `Stop` ends it anywhere,
because a database cannot be opened or the process is killed. `source` is what
PostgreSQL holds and `Update` changes it at any time. `report` remembers whether the
last make_indexes met an error or an update; the code has no such variable, and the
properties about successful runs need it.

A name is a sequence of words, and a word is in Latin letters or not (`Latin`), which is
all that `is_transliterated` looks at. The text beside a transliterated name is no name:
`load_artist_data` takes both `acn` and `jp` from the sort names (`artist_index.hpp:359`,
`:365`), so every one is written twice and the join phrases are never used. The model does
the same, and the properties are about what remains. `NamesFound`: the name of each
credit can be found, and each alias that has word characters and is encoded for good
the first time; nothing is said of sort names. `NothingStale`: every entry is made of a row that
PostgreSQL has, of a name, an alias, or sort names written twice.

Aliases are encoded when they are read and again with the names
(`artist_index.hpp:419`, `:462`). `Encode` is therefore not assumed to be idempotent:
the instance has a name whose transliteration ends in an apostrophe, which the second
encoding takes away. A line break in a name makes its CSV record two lines, which the
import skips (`Readable`).

### Levenshtein and EditOps

Both distances work on one row of costs, whose cells outside a diagonal band are left
as they are (`BandRow`); the row comes from `malloc`, so the cells never written hold
`Garbage`. `EditDistance` is the reference definition, the least cost of all ways to
line the strings up. `EditOps` calls the functions on two strings one after the other. The cost
matrix is filled in one step; the way back (`Insert`, `Delete`, `Keep`, `Replace`) is
a step for each iteration, with `dir` the direction of the last step. `Convert` makes
the next opcode and, in the same step, the next matching block, since
`lev_editops_to_opcodes` and `lev_editops_matching_blocks` have the same loop. The
caller may insert operations that keep a letter (`levenshtein.hpp:66-71`), which
`WithKeeps` does: `KeepsAfter` has one for each letter between an operation and the next.
Each of the two functions runs its loop twice, first to count what it will write, for
which it then allocates memory: `Count` and `CountRest` are the first pass, with `nbl` and
`nmb` the numbers, and `BlocksAgree` says that the second writes as many.

### FuzzyIndex

`vocabulary` and `idf` are the maps of the vectorizer, `vectorized_data` has a vector
for each text. `transform` looks up the grams of the query one by one: `BeginLookup`
and `EndLookup` are the beginning and the end of the two `operator[]` calls, so that
another thread's lookup can come in between; `access` says whether they insert. A
gram that no text has is inserted with row 0 and weight 0, and sets the element of
row 0 to 0. `KNNQuery` is one round of the loop over k, `Finish` reverses or rescores.
A text is a sequence of numbers, a vector is kept up to its length, and a confidence
is a percentage, rounded down, as is what the edit distance leaves (`Rescore`).
Whether the product of a normalised vector with itself comes out below 1.0 depends on
its numbers (of random vectors about one in four does); `rounds_below` is either. nmslib's
answer is any set of k nearest texts (`Nearest`).

## Runs

| run | expects | shows |
|---|---|---|
| `index_cache_server` | pass | three threads, no cleaner, as the server runs: ownership, cached indexes stay |
| `index_cache_cleaner` | pass | two threads with cleaner and destructor: ownership through every trim; mutex, destructor and memory limit make progress |
| `index_cache_add_race` | `NoUseAfterFree` violated | `add` deletes the loser's object, which its search goes on reading |
| `recording_index` | pass | 128 mapping tables, 3 alias tables, an error at any row |
| `mapping_search` | pass | refinement, freshness, termination on every request and data directory, with unbuilt indexes and failing database calls |
| `mapping_search_no_transition` | `EndsInFinalState` violated | no row for `event_no_matches_not_cleaned` |
| `mapping_search_null_index` | `NoCrash` violated | null result dereferenced in `recording_search` |
| `indexer_thread` | pass | every artist once, complete, no lost and no repeated work, a bound on what a kill loses, and an end |
| `data_directory` | pass | after a run without an error the indexes hold every present name and nothing that is not made of a present row, every mapped artist is indexed, the server starts; failures never take a directory away from it |
| `edit_ops` | pass | all pairs of short strings: distances against the definition, operations, opcodes, blocks, and the memory counted for them |
| `fuzzy_index` | pass | four indexes searched again and again by one thread: stable vectors, best results, exact texts |
| `fuzzy_index_shared` | `NoDataRace` violated | two threads search an index: one inserts into a map the other uses |

**Bounds.** IndexCache: three threads are enough for a miss, a second miss and an
observer on one artist; an object for each thread and artist, so that allocation
never blocks; with the cleaner three artists, so that a round of two evictions
leaves one. There the clock stands still, which makes every order of eviction
possible. `MaxTime` and `MaxDeaths` bound the clock and the number of kills.
RecordingIndex: seven rows with two names of one text, a name without text, another
artist's recording on the artist's release, and aliases equal to names. MappingSearch:
every subset of six rows for two artists, with two similar names, so that every
transition of the table that can be taken is; the data directories are those in which
some artist's index was built. EditOps: strings of up to four letters out of three
(`MaxLength` only says which alignments the definition of the distance tabulates),
and of five out of two, leave corners of up to three cells out of the matrix on
each side, and have runs of two operations of each kind. FuzzyIndex: grams of two letters,
three letters of a text in its vector and k from 2 to 4 stand for 3, 30, and 10 to
1000; the indexes have texts that begin alike, five of them, which is more than k can
get, texts that occur three times and one of the same direction; the queries have grams
before and after those of the index. One thread is enough there: what threads do to
each other is `fuzzy_index_shared`. IndexerThread: five artists, two
workers and batches of three: a full batch and a rest, and with a batch short of a row and both
workers through an artist more. DataDirectory: credits 2
(special purpose, with recordings skipped) to 5 and four states of PostgreSQL: with
stupid artists, with others, with none, and with no artist of several members, two of them with transliterated credits of one and of
two sort names, so that each of the three indexes appears, changes and cannot be built. Nothing else
needs a bound: runs, failures and updates may go on for ever.

**Deadlock** is not checked: a cache that was destroyed, an index that is finished
and a clock that has run out really stop, and a machine between requests may.

**Symmetry** is used in the runs without liveness only: in the IndexCache runs for
threads, artists and objects, in `edit_ops` for letters, which are only compared for
equality.

**Fairness.** IndexCache: every thread's steps are weakly fair, which is the
operating system's scheduling; nothing is assumed on who gets a contended mutex, on
requests coming or on anyone destroying the cache. `TrimsWhenQuiet` is about the time
after the searches paused. MappingSearch: a running search takes its next step; requests need
not come, and a database call may fail every time. IndexerThread: the main thread and each worker get the processor again and again; nobody need start
the program again.

## Proofs

TLAPS proves the following for all values of the constants that the assumptions in
the modules allow.

*IndexCacheProofs.* `TypeCorrect`, `Ownership`, `SameKeys`, `NothingLeaks`: for any
number of threads, artists and objects, with and without the cleaner. Ownership is
inductive only together with the mutual exclusion that `mtx` gives and the
typing of thread-held pointers: a thread's new object must be distinct from every
cached one and from those of the other threads while it waits for the mutex.
`UsedStaysInCache` and `InUseKept` assume `CleanerStarted = FALSE`, which is how the
programs run. `SingleThreadSafe` shows `NoUseAfterFree` for one search thread
without the cleaner, the tools' configuration; for the server it is false
(`index_cache_add_race`).

*DataLemmas.* The library states induction for a predicate, which the provers
cannot be given. `LeastNatural` (a set of naturals has a least element) does its work
for sets, and `SetInduction` follows. `SortByCorrect`: `SortBy` returns each element
once, in ascending order of the keys, with ties. This is why the models do not use the
library's `SortSeq`, which for a sequence with ties does not say what it returns:
`std::sort` by confidence has ties all the time.

*RecordingIndexProofs.* For every mapping table, alias table, encoding and database
error: `EveryRowFound`, `NothingInvented`, `CanonicalKept`. The invariant relates the
index to the rows read so far: each row read is linked at the place of its text
(`FoundIn`), and behind every entry and its links there are rows of one text
(`Sourced`). None of it would last without `Distinct`, that a text has one
index, and `Gained`, that appending never moves a link: the entries and their links
are parallel vectors, which only their equal lengths (`Shape`) keep so. Two
assumptions say what PostgreSQL and `encode.hpp` give: the rows are numbers and
names in the domain of `Encode` (`MappingAssumption`), and a recording has one name in all its
rows (`RecordingNamed`), without which the links of an id would be spread over several
texts and the canonical release might be under another one than is searched.

*MappingSearchProofs.* `SortCorrect`: the sort by confidence is a permutation in descending
order. The invariant `MachineInv` says for every state of the machine what
has been set when it is entered (`NameReady`, `ArtistsReady`, `IndexReady`,
`RecordingsReady`, `ReleaseReady`, `MatchReady`). None of its parts is inductive
without the others: that the evaluation finds a recording index below the length of
the vector rests on the selection, which rests on the search having stored a
non-null vector. It gives `TypeCorrect` and `EvaluationReady` on any data
directory, with failures. `GenuineAnswers` adds what the builder promises
(`GenuineLinks`: links are rows of the mapping), and `FreshCanonical` that
every recording's canonical release is among its links (`CanonicalLinks`). Those two
hypotheses are what RecordingIndexProofs shows of the builder, and the assumption
`BuilderDelivers` of `MCMappingSearch` evaluates them on every index it builds.
`FreshCanonical` is the subtle one: the canonical release is looked up once and
kept, which is right only because, on a complete index, the first evaluation of a
request without a release always succeeds. An index that a database error cut
short (`recording_index.hpp:168`) breaks the hypothesis, and the property.

`LookupImplemented`: the machine implements `MappingLookup`, for
every data directory, sequence of requests and failing calls, under `Trusted`: hits
meet the threshold they were asked for (`HitsMeetThreshold`; `fuzzy_index.hpp:153` and
`:200` drop the others) and `CanonicalLinks`. Both are evaluated by `BuilderDelivers` and
neither can be left out: a hit below the threshold ends the walk over the candidates
although the next may be above it, and without the canonical links a request without a release
goes on to a second recording. The refinement mapping is not enough for an induction.
`LookupInv` adds what the machine has found out so far: the candidates before the one selected do
not decide (`ArtistsInv`), the recordings before the one selected have no link to
the release (`RecordingsInv`), and no call has failed for this candidate or a later one.
Each of the fourteen state functions has a lemma saying that it keeps this and is a
step of the lookup or none. The proof corrected the model in one place: a search that
crashes was counted as a load that failed.

*IndexerThreadProofs.* For any number of artists, workers, killed runs and any batch size:
`TypeCorrect`, `ArtistsPartitioned`, `OnlyBuiltInBatch`, `NoArtistLeft`, `BoundedLoss`,
`NoRowReplaced`. That every artist is in one place only (`EachArtistOnce`) is inductive
with two more facts: a thread that was started, and its stream, are of an artist in the
vector or in the batch, and the flag comes after the stream (`WorkersHeld`); and between
runs nothing is held in memory (`NothingHeld`). That a finished
run leaves nobody out is then a consequence of the partition, and not of the order of
the steps. `BoundedLoss` needs a bound on the batch and the workers together
(`BatchBounded`): each by itself may be at its limit, and the join moves an artist
from one to the other before the batch is looked at.

*DataDirectoryProofs.* For any data in PostgreSQL, any order of runs, failures, kills and updates:
`TypeCorrect`, `EveryArtistIndexed`, `ServerStarts`, `EveryNameFound`, `NoNameStale`,
`DirectoryStays`. `TypeOK` is inductive by itself. What a successful run leaves needs `ArtistsKept`: what a run
that has met no error so far has written by each of its steps, of the names PostgreSQL has
now, for an update on the way makes its report stale. `EveryNameFound` and `NoNameStale` follow
from it by way of `Loaded`: what they say of names and sort names is above. What is in the table of
recordings needs `MappingKept`: while make_mapping works there is none, and only artists of
the present mapping above the special purpose ones get one; `make_indexes` reads the mapping again to find
what is pending, so this has to hold across runs. PostgreSQL's ids
are assumed to count from 1.

*FuzzyIndexProofs.* For any texts, queries, weights, length of a gram, bounds on k and number of
threads: `TypeCorrect`, `SearchesIndependent` (`VectorStable`), `BestReturned`
(`BestKept`), `TextsFound` (`ExactFound`). The first part is about the data: `Before` is an order of the grams,
`Sorted` lists them in it, `Fit` gives each a row of its own and row 0 to the first
(`RowsDistinct`), and a round returns the best hits (`RoundKeepsBest`). The
invariant says of the index that the maps are those of the fitted texts with nothing but
zeros inserted (`Extends`), and of a search that its vector has, for the grams looked up
so far, what `PartWeight` says (`Weighed`), and that those left are after them
(`InOrder`): an unknown gram clears row 0, so a vector depends on the order in which
`std::map` yields the grams. That a perfect match is left out only at the limit
rests on `BoundInv`: `max_k` is a multiple of the increment.

That a text of the index is found takes the search through all its steps. Every gram of
such a text is known, so the lookups give it the column that `fit_transform` gave it
(`Placed`, `TextColumn`), and two equal vectors that are not zero have similarity 100
(`SimilaritySelf`: a sum of positive products is positive). So its hit is a perfect one,
and the rounds return all perfect ones that k allows (`PerfectKept`). Rescoring compares
the whole texts, whose distance is 0 as they are equal (`DistanceSelf`): the code gives
confidence 1.0 without a division, which would be by 0 for an empty query. Beyond this
the proofs use nothing of the cosine but its range. The model's vectors and the map of
`transform` are written as functions for the sake of the proofs. `VectorStable` holds between threads too, for as long as the maps
are well defined: `NoDataRace` is what the code does not give.

*EditOpsProofs.* For any strings over any letters and any content of the memory that was
not written: `DistanceCorrect` (`DistanceIsEdit`), `BackNeverLost` (`NeverLost`),
`OpsCorrect` (`OpsTransform`) and `BlocksCorrect` (`BlocksAgree`). The
functions of `levenshtein.cpp` fill a matrix of costs in three ways, and two of them
keep one row of it. `IsMatrix` says what such a matrix is: a first row and column that
count, and cells that are the least of three neighbours with their penalties. Any two
such matrices agree, and `CellsAreDistances` shows that each cell is the least cost of
all alignments of the two prefixes: by induction no alignment is cheaper, and one
attains it. So it remains to relate each function to such a matrix. With `xcost` the
distances compute its rows whole, and `lev_editops_find` the whole matrix. A row of the
band is never below the right costs, and it is right in the cells from which the last
one may be reached within the length of the longer string (`RowGood`, `OnTheWay`): such
a cell's cheapest neighbour is in the band and of the same kind (`BandCell`), so the
corners left out, with whatever they hold, are not on the way. `StrippedCorner` shows
that the common prefix and suffix cost nothing, exchanging the strings transposes the
matrix, and a single letter has a row of its own. The way back needs `BackInv`: the
operations found and the cell reached add up to the cost set out for, and after an
insertion or a deletion the cell left behind is dearer by one, so the turn that the code
excludes (`Turns`) is never the only way on.

What the operations do rests on `Way`: an operation leads from a place in both strings
to another, and between each two of them, before the first and after the last, the
strings have the same letters (`Diag`). The operations found are a way from the cell
reached to the end of the strings (`BackWay`): an insertion, a deletion or a replacement
puts a step before it, keeping a letter makes the first stretch of equal letters longer,
and the common suffix that was stripped is the last one. At the beginning the common
prefix is the first (`FoundWay`), and the operations that keep letters, if they are
added, fill the stretches (`WithKeepsWay`). `OpsInv` says this with the cost: there are
as many edits as the matrix says, which is the distance. Whatever is a way from one string
to the other transforms it (`ApplyTransforms`). The conversion walks the same way:
`BlocksInv` says that the opcodes so far cover the strings from their beginning without
a gap up to where it is, that no two of them that keep letters are neighbours,
that the blocks are those of the opcodes (`Cover`, `Made`), and that the rest of the way
is ahead of it (`Ahead`). Without that, a run of operations could begin before
the place that the last opcode ended at, and nothing would say that what is skipped up
to the next operation is kept. That as many blocks are written as were counted compares
two passes of the loop, which no state sees together. `CountInv` keeps the way that the
counting went (`Passes`): the counting is at its end, and the conversion somewhere
on it, with as many opcodes and blocks as had been counted there.

In these proofs `MaxLength` is any bound on
the strings, and the functions' recursive rows are shown to have their defining
equations by `SetInduction` (`Recurs`).

*Only model-checked*: everything temporal under fairness (`SearchTerminates`, `RunEnds`,
`LockReleased`, `DestructorEnds`, `TrimsWhenQuiet`), which TLAPS cannot do: it has no
rule for fairness or ENABLED. The invariants of the passing runs are all proved.

## What the work showed

* Two searches that miss on the same artist together: `add` deletes the second
  index, and its search reads freed memory (`index_cache.hpp:97`, `search.hpp:169`).
* Two searches of one artist index together: `transform` inserts the grams it does not
  find into two maps without a lock (`tfidf_vectorizer.cpp:200`), which is a data race.
* The same insertion gives the gram row 0, and the element of that row, of the first
  gram of the index, is set to 0: a query that has this gram and, after it, one that no text
  has is searched without its first gram. `VectorStable` is stated with this exception,
  and shows that later queries are not changed.
* The loop over k is to get all perfect matches, but ends at ten when their products
  come out below 1.0 (`fuzzy_index.hpp:159`); a long text that shares its first 30
  letters with more than ten others may then be missed. `BestKept` and `ExactFound`
  are stated with this exception. The rescored results are worst first.
* The cleaner is never started: nothing calls `start()` (`index_cache.hpp:141`), so
  `MAX_CACHE_SIZE` (`server.cpp:42`) limits nothing. Were it, `trim` would delete indexes in use, and the
  most recently used first (`index_cache.hpp:73-82`).
* The retry with a cleaned artist name is unreachable: its event has no transition
  (`fsm.hpp:309`). If `has_cleaned_artist`, which is uninitialised, happened to be
  true, the name check would encode the original name again and recurse for ever.
* An artist whose index could not be built takes the search down (`search.hpp:217`).
* Without an artist that has no word characters make_indexes succeeds and writes no
  stupid index, and the server then refuses to start (`artist_index.hpp:521`, `:661`);
  if an index of older data is there, it stays and is searched. After a
  `--force-rebuild` that fails the server does not start either. `SuccessStarts`,
  `NothingStale` and `StaysLoadable` are stated with these exceptions.
* An alias is stored under the encoding of its encoding, which can differ from the
  text a search looks for. Names of several artists without a word character are in
  no index (`artist_index.hpp:560`), nor are aliases without one (`artist_index.hpp:420`).
* The sort name of an artist whose name is in Latin and other letters is meant to be
  found too, but is stored written twice: "Petya" as "PetyaPetya". `jp` is
  `artist_credit_names[i]` where the join phrases were parsed for it and are used
  nowhere (`artist_index.hpp:349`, `:365`). A search for the sort name has no such text.
* An artist all of whose names have a line break in the mapping query loses its rows
  (`make_mapping.cpp:327`).
* A release name that is not found rules out the artist, although the log says the
  release is ignored (`search.hpp:200`, `fsm.hpp:447`).
* The explorer deletes the two indexes of an object whose destructor deletes them again
  (`explore.cpp:518`, `recording_index.hpp:21`).
* Of several recordings with one encoded name only the first gets its aliases
  (`recording_index.hpp:191`).

## Not modelled, and why

Reading PostgreSQL, HTTP, JSON, templates, logging, command lines and printing are
I/O; so is the explorer, a shell of one thread over the modelled searches. nmslib's
nearest-neighbour search is external: `Nearest` is what it is used for. To
MappingSearch the hits are data, whatever FuzzyIndex finds. The encoding's regular
expressions are data as well: the properties depend only on which names are equal, or
empty, after it. Of the vectorizer the options that FuzzyIndex does not set are left
out, and floating-point numbers but for the one question whether equal vectors have
the product 1.0. What a race does to the maps has no model, being undefined. An
allocation that fails is left out everywhere. The quoting of CSV fields is left out:
only line breaks, which the reader takes for the end of a record, are kept. So is the parsing of
PostgreSQL's arrays: a quotation mark in an element comes with a backslash before it, and
`parse_pg_array` takes it for the end of the quotation, so that a sort name with one may be
cut at a comma (`artist_index.hpp:121-137`). `done` and `stop` are plain `bool`s shared by threads; the models
have them seen at some later step, which is what the compiled polling loops do, but the language does not
promise it. Memory ordering is not modelled beyond that: the streams
are read only after the join (`BatchBuilt`). What the workers that are left read after a failed
write has unwound the function, whose local RecordingIndex is gone, has no model either,
being undefined (`indexer_thread.hpp:159`). `make_mapping` imports with `journal_mode = MEMORY` and
`synchronous = OFF` (`make_mapping.cpp:309`): a process killed while SQLite writes the
commit may leave a damaged file, which DataDirectory leaves out, as it does the
creation of the tables in three statements (it is one step) and the
truncation of release ids to 32 bits (`make_mapping.cpp:201`), as no id is part of the
model.

## Plan

1. Done: IndexCache with proofs; RecordingIndex; MappingSearch with proofs, and the
   abstract lookup it implements under failing database calls; IndexerThread;
   DataDirectory; Levenshtein and EditOps; FuzzyIndex.
2. A composition of MappingSearch with IndexCache would add nothing to the two: the
   machine's use of a pointer is what a search thread of IndexCache does.
3. Proofs, done: the three indexers' invariants (RecordingIndex, IndexerThread,
   DataDirectory), which discharge the hypotheses of MappingSearch, the
   refinement of `MappingLookup`, FuzzyIndex, and EditOps. What
   is left is liveness, which stays with TLC.
