------------------------------ MODULE FuzzyIndex ------------------------------
(***************************************************************************)
(* The fuzzy index (fuzzy_index.hpp) over the vectors that TfIdfVectorizer *)
(* (tfidf_vectorizer.cpp) makes of texts, searched by one or more threads. *)
(*                                                                         *)
(* A text is a sequence of letters, which are numbers. Its vector has a    *)
(* row for every gram of its first letters; only the direction of a vector *)
(* matters, since the code gives all of them the same length. Confidences  *)
(* are percentages: the cosine of two vectors, or what the edit distance   *)
(* of two texts leaves of the length of the query.                         *)
(*                                                                         *)
(* The vectors are compared by nmslib, which is external: it returns the k *)
(* nearest objects.                                                        *)
(***************************************************************************)
EXTENDS Levenshtein, StableSort

CONSTANTS
    Threads,
    Contents,         \* what may be indexed: sequences of texts
    Queries,          \* what may be searched for
    Space,            \* the letter that fills up a short text
    GramLength,       \* letters of a token; 3 in the code
    MaxEncoded,       \* MAX_ENCODED_STRING_LENGTH
    FirstK,           \* NUM_FUZZY_SEARCH_RESULTS, also the increment of k
    MaxK,             \* max_k, a multiple of FirstK
    MinConfidence,    \* in percent
    Idf,              \* number of texts, number of those with a gram -> weight
    None              \* nullptr

ASSUME FuzzyIndexAssumption ==
    /\ Contents \subseteq Seq(Seq(Nat)) /\ Queries \subseteq Seq(Nat)
    /\ Space \in Nat
    /\ GramLength \in Nat \ {0} /\ MaxEncoded \in Nat \ {0}
    /\ FirstK \in Nat \ {0} /\ MaxK \in {n * FirstK : n \in 1..MaxK}
    /\ MinConfidence \in 1..99
    /\ \A texts \in Contents : \A d \in 1..Len(texts) :
          Idf[Len(texts)][d] \in Nat \ {0}

VARIABLES
    index_texts,      \* the texts of the index; none as long as it is null
    vocabulary, idf,  \* gram -> row, gram -> weight
    vectorized_data,  \* the vector of every text
    archive,          \* what save() wrote
    rounds_below,     \* whether a vector times itself comes out below 1.0
    pc, query,        \* thread -> where its search is, and what for
    todo,             \* thread -> the grams it has yet to look up
    access,           \* thread -> what it does to the maps at present
    column,           \* thread -> the vector of its query so far
    k, results        \* thread -> the bound and the results of its search

indexVars == <<index_texts, vectorized_data, archive, rounds_below>>
mapVars   == <<vocabulary, idf>>
vars == <<indexVars, mapVars, pc, query, todo, access, column, k, results>>

-----------------------------------------------------------------------------
(* TfIdfVectorizer.                                                        *)

\* tokenise_document
Tokenise(text) ==
    IF Len(text) < GramLength
    THEN <<[n \in 1..GramLength |-> IF n <= Len(text) THEN text[n] ELSE Space]>>
    ELSE [n \in 1..(Len(text) - GramLength + 1) |-> SubSeq(text, n, n + GramLength - 1)]

\* Only the first letters of a text are in its vector.
Cut(text) == SubSeq(text, 1, Min({MaxEncoded, Len(text)}))

Tokens(text) == Tokenise(Cut(text))
Grams(text)  == ToSet(Tokens(text))

\* tf without the division by the number of tokens, which has no influence on
\* the direction of a vector.
Tf(text, gram) == Cardinality({n \in DOMAIN Tokens(text) : Tokens(text)[n] = gram})

\* std::string's order, which is that of the keys of a map.
Before(g, h) ==
    \E n \in 1..GramLength : g[n] < h[n] /\ \A m \in 1..(n - 1) : g[m] = h[m]

\* The place of a gram in that order, from 0.
Place(grams, g) == Cardinality({h \in grams : Before(h, g)})

Sorted(grams) ==
    [n \in 1..Cardinality(grams) |-> CHOOSE g \in grams : Place(grams, g) = n - 1]

\* fit: word_count numbers the grams of all texts in their order, idf weighs
\* each by the number of texts that it is in.
Fit(texts) ==
    LET grams == UNION {Grams(texts[n]) : n \in DOMAIN texts}
        df(g) == Cardinality({n \in DOMAIN texts : g \in Grams(texts[n])})
    IN  [vocabulary |-> [g \in grams |-> Place(grams, g)],
         idf        |-> [g \in grams |-> Idf[Len(texts)][df(g)]]]

\* An element of a column; rows that were not set are 0.
SetElement(vector, row, value) ==
    [r \in DOMAIN vector \cup {row} |-> IF r = row THEN value ELSE vector[r]]
Element(vector, row) == IF row \in DOMAIN vector THEN vector[row] ELSE 0

\* The column of a text all of whose grams are known.
TextVector(fitted, text) ==
    LET rows    == {fitted.vocabulary[g] : g \in Grams(text)}
        gram(r) == CHOOSE g \in Grams(text) : fitted.vocabulary[g] = r
    IN  [r \in rows |-> Tf(text, gram(r)) * fitted.idf[gram(r)]]

Product(u, v) ==
    MapThenSumSet(LAMBDA r : u[r] * v[r], DOMAIN u \cap DOMAIN v)

\* The percentage of the cosine of two vectors, rounded down.
Similarity(u, v) ==
    LET norms == Product(u, u) * Product(v, v)
        uv    == Product(u, v)
        cosine(c) == c * c * norms <= 10000 * uv * uv
    IN  IF norms = 0 THEN 0
        ELSE CHOOSE c \in 0..100 :
                (c = 0 \/ cosine(c)) /\ (c = 100 \/ ~cosine(c + 1))

-----------------------------------------------------------------------------
(* FuzzyIndex.                                                             *)

Init ==
    /\ index_texts = <<>>
    /\ vocabulary = <<>> /\ idf = <<>>
    /\ vectorized_data = <<>>
    /\ archive = None
    /\ rounds_below = FALSE
    /\ pc = [t \in Threads |-> "idle"]
    /\ query = [t \in Threads |-> <<>>]
    /\ todo = [t \in Threads |-> <<>>]
    /\ access = [t \in Threads |-> "none"]
    /\ column = [t \in Threads |-> <<>>]
    /\ k = [t \in Threads |-> 0]
    /\ results = [t \in Threads |-> <<>>]

SetIndex(index) ==
    /\ index_texts' = index.texts
    /\ vocabulary' = index.vocabulary
    /\ idf' = index.idf
    /\ vectorized_data' = index.vectors
    /\ archive' = index
    /\ UNCHANGED <<pc, query, todo, access, column, k, results>>

\* build throws if there is no text. Its callers save the index at once.
Build(texts) ==
    LET fitted == Fit(texts)
        vectors == [n \in DOMAIN texts |-> TextVector(fitted, texts[n])]
    IN  /\ index_texts = <<>> /\ texts # <<>>
        /\ SetIndex([texts |-> texts, vocabulary |-> fitted.vocabulary,
                     idf |-> fitted.idf, vectors |-> vectors])
        /\ rounds_below' \in BOOLEAN

\* What an object held before is deleted and replaced.
Load ==
    /\ archive # None
    /\ \A t \in Threads : pc[t] = "idle"
    /\ SetIndex(archive)
    /\ UNCHANGED rounds_below

\* A search of an index that was not built returns null.
Search(t, q) ==
    /\ pc[t] = "idle"
    /\ query' = [query EXCEPT ![t] = q]
    /\ IF index_texts = <<>>
       THEN /\ pc' = [pc EXCEPT ![t] = "done"]
            /\ results' = [results EXCEPT ![t] = None]
            /\ UNCHANGED todo
       ELSE /\ pc' = [pc EXCEPT ![t] = "transform"]
            /\ todo' = [todo EXCEPT ![t] = Sorted(Grams(q))]
            /\ UNCHANGED results
    /\ UNCHANGED <<indexVars, mapVars, access, column, k>>

\* transform, for one gram: vocabulary_[word] and idf_[word] look it up and
\* insert it if it is not there. Both maps have the same keys.
BeginLookup(t) ==
    /\ pc[t] = "transform" /\ todo[t] # <<>>
    /\ access[t] = "none"
    /\ access' = [access EXCEPT ![t] =
                     IF Head(todo[t]) \in DOMAIN vocabulary THEN "read" ELSE "write"]
    /\ UNCHANGED <<indexVars, mapVars, pc, query, todo, column, k, results>>

\* What operator[] leaves of a map: a key that is there keeps its value.
Inserted(map, gram, value) ==
    [g \in DOMAIN map \cup {gram} |-> IF g \in DOMAIN map THEN map[g] ELSE value]

\* A mutant of EndLookup: a gram that is inserted gets a weight.
EndLookupWeighs(t) ==
    LET gram == Head(todo[t])
        row  == IF gram \in DOMAIN vocabulary THEN vocabulary[gram] ELSE 0
        tf   == Tf(query[t], gram)
        weight == IF gram \in DOMAIN idf THEN idf[gram] ELSE 1
    IN  /\ pc[t] = "transform" /\ access[t] # "none"
        /\ vocabulary' = Inserted(vocabulary, gram, 0)
        /\ idf' = Inserted(idf, gram, 1)
        /\ column' = [column EXCEPT ![t] = SetElement(@, row, tf * weight)]
        /\ todo' = [todo EXCEPT ![t] = Tail(@)]
        /\ access' = [access EXCEPT ![t] = "none"]
        /\ UNCHANGED <<indexVars, pc, query, k, results>>

\* A new key has the row 0 and the weight 0, so the element of row 0 is set
\* to 0, whatever gram it belongs to. What a race of two threads does to the
\* maps is not modelled: NoDataRace is about the states before.
EndLookup(t) ==
    LET gram == Head(todo[t])
        row  == IF gram \in DOMAIN vocabulary THEN vocabulary[gram] ELSE 0
        weight == IF gram \in DOMAIN idf THEN idf[gram] ELSE 0
    IN  /\ pc[t] = "transform" /\ access[t] # "none"
        /\ vocabulary' = Inserted(vocabulary, gram, 0)
        /\ idf' = Inserted(idf, gram, 0)
        /\ column' = [column EXCEPT ![t] =
                         SetElement(@, row, Tf(query[t], gram) * weight)]
        /\ todo' = [todo EXCEPT ![t] = Tail(@)]
        /\ access' = [access EXCEPT ![t] = "none"]
        /\ UNCHANGED <<indexVars, pc, query, k, results>>

Transformed(t) ==
    /\ pc[t] = "transform" /\ todo[t] = <<>>
    /\ pc' = [pc EXCEPT ![t] = "knn"]
    /\ k' = [k EXCEPT ![t] = FirstK]
    /\ UNCHANGED <<indexVars, mapVars, query, todo, access, column, results>>

IndexResult(index, confidence) ==
    [result_index |-> index, confidence |-> confidence]

\* All texts with their similarity to a vector.
Hits(vector) ==
    {IndexResult(n, Similarity(vector, vectorized_data[n])) :
        n \in DOMAIN vectorized_data}

\* nmslib's answers for a vector: any n objects none of the others is nearer
\* than.
Nearest(hits, n) ==
    {S \in kSubset(Min({n, Cardinality(hits)}), hits) :
        \A h \in S, g \in hits \ S : h.confidence >= g.confidence}

\* The queue gives the worst result first; the order of equal ones is its own.
WorstFirst(hits) ==
    LET found == SetToSeq(hits)
    IN  SortBy(found, [i \in DOMAIN found |-> found[i].confidence])

\* Mutants of Enough: k has no bound; a perfect result ends the loop.
EnoughUnbounded(found, n) ==
    \/ \E i \in DOMAIN found : found[i].confidence < 100 \/ rounds_below
    \/ found = <<>>
    \/ Len(found) < n

EnoughPerfect(found, n) ==
    \/ \E i \in DOMAIN found : found[i].confidence = 100
    \/ Len(found) < n
    \/ n + FirstK > MaxK

\* The loop over k ends: a result is not perfect (or what is perfect comes
\* out below 1.0), there is none, there are fewer than k, or k gets too large.
Enough(found, n) ==
    \/ \E i \in DOMAIN found : found[i].confidence < 100 \/ rounds_below
    \/ found = <<>>
    \/ Len(found) < n
    \/ n + FirstK > MaxK

KNNQuery(t) ==
    /\ pc[t] = "knn"
    /\ \E S \in Nearest(Hits(column[t]), k[t]) :
          LET found == WorstFirst({h \in S : h.confidence >= MinConfidence})
          IN  /\ results' = [results EXCEPT ![t] = found]
              /\ IF Enough(found, k[t])
                 THEN pc' = [pc EXCEPT ![t] = "return"] /\ UNCHANGED k
                 ELSE k' = [k EXCEPT ![t] = @ + FirstK] /\ UNCHANGED pc
    /\ UNCHANGED <<indexVars, mapVars, query, todo, access, column>>

IsLong(text) == Len(text) > MaxEncoded

HasLong(found) == \E i \in DOMAIN found : IsLong(index_texts[found[i].result_index])

\* The confidence of a rescored result: 1.0 for the same text, which may be
\* empty, and below 0 for one that is further away than the query is long.
Confidence(length, dist) ==
    CASE dist = 0      -> 100
      [] dist > length -> 0
      [] OTHER         -> (100 * (length - dist)) \div length

\* A mutant of Rescore: the distance is that of the texts as indexed.
RescoreCut(q, found) ==
    LET distance(r) ==
          LevEditDistance(q, Cut(index_texts[r.result_index]), TRUE, 0)
        rescored(r) ==
          IndexResult(r.result_index, Confidence(Len(q), distance(r)))
        kept == SetToSeq({i \in DOMAIN found :
                             rescored(found[i]).confidence >= MinConfidence})
        inOrder == SortBy(kept, kept)
    IN  [n \in DOMAIN kept |-> rescored(found[inOrder[n]])]

\* post_process_long_query: the whole texts are compared. The result keeps
\* the order it was called with, reversed.
Rescore(q, found) ==
    LET distance(r) == LevEditDistance(q, index_texts[r.result_index], TRUE, 0)
        rescored(r) ==
          IndexResult(r.result_index, Confidence(Len(q), distance(r)))
        kept == SetToSeq({i \in DOMAIN found :
                             rescored(found[i]).confidence >= MinConfidence})
        inOrder == SortBy(kept, kept)
    IN  [n \in DOMAIN kept |-> rescored(found[inOrder[n]])]

\* The results are reversed to have the best first; post_process_long_query
\* walks them from the end.
Finish(t) ==
    /\ pc[t] = "return"
    /\ results' = [results EXCEPT ![t] =
                      IF IsLong(query[t]) \/ HasLong(@) THEN Rescore(query[t], @)
                      ELSE Reverse(@)]
    /\ pc' = [pc EXCEPT ![t] = "done"]
    /\ UNCHANGED <<indexVars, mapVars, query, todo, access, column, k>>

\* The caller takes the results.
Take(t) ==
    /\ pc[t] = "done"
    /\ pc' = [pc EXCEPT ![t] = "idle"]
    /\ query' = [query EXCEPT ![t] = <<>>]
    /\ results' = [results EXCEPT ![t] = <<>>]
    /\ k' = [k EXCEPT ![t] = 0]
    /\ column' = [column EXCEPT ![t] = <<>>]
    /\ UNCHANGED <<indexVars, mapVars, todo, access>>

Step(t) == BeginLookup(t) \/ EndLookup(t) \/ Transformed(t) \/ KNNQuery(t)
           \/ Finish(t)

Next ==
    \/ \E texts \in Contents : Build(texts)
    \/ Load
    \/ \E t \in Threads : Step(t) \/ Take(t) \/ \E q \in Queries : Search(t, q)

Spec == Init /\ [][Next]_vars

-----------------------------------------------------------------------------
(* Properties.                                                             *)

\* The types; both maps always have the same keys, and k keeps to its bound.
TypeOK ==
    /\ index_texts \in Contents \cup {<<>>}
    /\ DOMAIN vocabulary = DOMAIN idf
    /\ \A g \in DOMAIN vocabulary : vocabulary[g] \in Nat /\ idf[g] \in Nat
    /\ DOMAIN vectorized_data = DOMAIN index_texts
    /\ archive # None => archive.texts \in Contents
    /\ rounds_below \in BOOLEAN
    /\ pc \in [Threads -> {"idle", "transform", "knn", "return", "done"}]
    /\ query \in [Threads -> Queries \cup {<<>>}]
    /\ \A t \in Threads : ToSet(todo[t]) \subseteq Grams(query[t])
    /\ access \in [Threads -> {"none", "read", "write"}]
    /\ \A t \in Threads : \A r \in DOMAIN column[t] : column[t][r] \in Nat
    /\ k \in [Threads -> 0..MaxK]
    /\ \A t \in Threads : results[t] = None \/
          \A i \in DOMAIN results[t] : results[t][i].result_index \in DOMAIN index_texts

\* The weight of gram g of the texts in the vector of query q by definition:
\* 0 too if it is the first of all and q has one after it that no text has.
Weight(q, g) ==
    LET known == DOMAIN archive.vocabulary
        lost  == /\ \A h \in known \ {g} : Before(g, h)
                 /\ \E u \in Grams(q) \ known : Before(g, u)
    IN  IF g \in Grams(q) /\ ~lost THEN Tf(q, g) * archive.idf[g] ELSE 0

\* The vector of a query depends on the query and on the texts only: what
\* earlier searches inserted into the maps (tfidf_vectorizer.cpp:200-201)
\* makes no difference.
VectorStable ==
    \A t \in Threads : pc[t] = "knn" =>
        \A g \in DOMAIN archive.vocabulary :
            Element(column[t], archive.vocabulary[g]) = Weight(query[t], g)

HasBest(t) ==
    LET found == ToSet(results[t])
        left  == {h \in Hits(column[t]) \ found : h.confidence >= MinConfidence}
    IN  /\ \A g \in left, h \in found : g.confidence <= h.confidence
        /\ \A i, j \in DOMAIN results[t] :
              i < j => results[t][i].confidence <= results[t][j].confidence
        /\ left # {} => Len(results[t]) >= FirstK
        /\ (\E g \in left : g.confidence = 100) /\ ~rounds_below =>
              Len(results[t]) = MaxK

\* Of the texts above the threshold (fuzzy_index.hpp:142-178) the best ones are
\* returned, in order: none left out is better than one returned, none is left
\* out at all unless there are FirstK results, and no perfect match unless
\* there are MaxK, provided perfect matches come out as 1.0.
BestKept == \A t \in Threads : pc[t] = "return" => HasBest(t)

\* A text that is in the index is found when it is searched for, with full
\* confidence, however many other texts begin as it does: unless their number
\* is above MaxK, or above FirstK where perfect matches come out below 1.0
\* (the rescoring at fuzzy_index.hpp:189-210 sees only what the loop kept).
ExactFound ==
    \A t \in Threads : \A n \in DOMAIN index_texts :
        (pc[t] = "done" /\ results[t] # None /\ query[t] = index_texts[n]) =>
           LET alike == {h \in Hits(column[t]) : h.confidence = 100}
           IN  Cardinality(alike) <= (IF rounds_below THEN FirstK ELSE MaxK) =>
                 \E i \in DOMAIN results[t] : results[t][i] = IndexResult(n, 100)

\* The shared resources (server.cpp:14) can be shared: no thread inserts into a
\* map that another is reading or writing.
NoDataRace ==
    \A t, u \in Threads : t # u /\ access[t] = "write" => access[u] = "none"
=============================================================================
