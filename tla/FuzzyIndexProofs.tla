-------------------------- MODULE FuzzyIndexProofs --------------------------
(***************************************************************************)
(* Proofs about FuzzyIndex for any texts and queries, and any number of    *)
(* threads that search one index.                                          *)
(***************************************************************************)
EXTENDS FuzzyIndex, DataLemmas

Gram == [1..GramLength -> Nat]

-----------------------------------------------------------------------------
(* Sequences and finite sets.                                              *)

\* A sequence has finitely many elements.
LEMMA ToSetFinite ==
  ASSUME NEW S, NEW s \in Seq(S)
  PROVE  /\ IsFiniteSet(ToSet(s)) /\ ToSet(s) \subseteq S
         /\ \A i \in DOMAIN s : s[i] \in ToSet(s)
<1>1. /\ DOMAIN s = 1..Len(s) /\ Len(s) \in Nat
      /\ \A i \in 1..Len(s) : s[i] \in S
  OBVIOUS
<1>2. s \in [1..Len(s) -> ToSet(s)]
  BY <1>1 DEF ToSet
<1>3. s \in Surjection(1..Len(s), ToSet(s))
  BY <1>1, <1>2 DEF Surjection, ToSet
<1>4. IsFiniteSet(ToSet(s))
  BY <1>1, <1>3, LengthCardinality, FS_Surjection
<1> QED
  BY <1>1, <1>4 DEF ToSet

\* SetToSeq lists the members of a finite set, each once.
LEMMA SetToSeqLists ==
  ASSUME NEW S, IsFiniteSet(S)
  PROVE  LET s == SetToSeq(S)
         IN  /\ s \in Seq(S) /\ Len(s) = Cardinality(S) /\ ToSet(s) = S
<1> DEFINE n == Cardinality(S)
           s == SetToSeq(S)
<1>1. n \in Nat /\ ExistsBijection(1..n, S)
  BY FS_CardinalityType
<1>2. PICK f \in [1..n -> S] : \A i, j \in 1..n : f[i] = f[j] => i = j
  BY <1>1 DEF ExistsBijection, Bijection, Injection, IsInjective
<1>3. s \in [1..n -> S] /\ \A i, j \in 1..n : s[i] = s[j] => i = j
  <2>1. \E g \in [1..n -> S] : IsInjective(g)
    BY <1>2 DEF IsInjective
  <2>2. s \in [1..n -> S] /\ IsInjective(s)
    BY <2>1 DEF SetToSeq
  <2> QED
    BY <2>2 DEF IsInjective
<1> HIDE DEF s
<1>4. s \in Seq(S) /\ Len(s) = n
  BY <1>1, <1>3, FunctionIsSeq
<1>5. \A x \in S : \E i \in 1..n : s[i] = x
  <2>1. \A i, j \in 1..n : i # j => s[i] # s[j]
    BY <1>3
  <2>2. Cardinality(S) = n
    OBVIOUS
  <2> HIDE DEF n
  <2> QED
    BY <1>1, <1>3, <2>1, <2>2, InjectiveCovers
<1>6. ToSet(s) = S
  BY <1>3, <1>5 DEF ToSet
<1> QED
  BY <1>4, <1>6 DEF s

-----------------------------------------------------------------------------
(* Grams and their order.                                                  *)

\* The grams of a text are finitely many, and at least one; how often one is in
\* it is a number.
LEMMA GramsType ==
  ASSUME NEW text \in Seq(Nat)
  PROVE  /\ Grams(text) \subseteq Gram /\ IsFiniteSet(Grams(text))
         /\ Grams(text) # {}
         /\ \A g : Tf(text, g) \in Nat
         /\ \A g \in Grams(text) : Tf(text, g) # 0
<1> DEFINE cut == Cut(text)
<1>1. cut \in Seq(Nat)
  <2> DEFINE n == Min({MaxEncoded, Len(text)})
  <2>1. n \in 0..Len(text)
    <3>1. MaxEncoded \in Nat /\ Len(text) \in Nat
      BY FuzzyIndexAssumption
    <3>2. n \in {MaxEncoded, Len(text)} /\ n <= Len(text)
      BY <3>1 DEF Min
    <3> QED
      BY <3>1, <3>2
  <2> HIDE DEF n
  <2>2. \A i \in 1..n : text[i] \in Nat
    BY <2>1
  <2>3. SubSeq(text, 1, n) \in Seq(Nat)
    BY <2>1, <2>2, SubSeqProperties
  <2> QED
    BY <2>3 DEF Cut, n
<1>2. Tokens(text) = Tokenise(cut)
  BY DEF Tokens
<1> HIDE DEF cut
<1>3. Len(cut) \in Nat /\ GramLength \in Nat \ {0} /\ Space \in Nat
      /\ \A i \in 1..Len(cut) : cut[i] \in Nat
  BY <1>1, FuzzyIndexAssumption
<1>4. Tokenise(cut) \in Seq(Gram) /\ Len(Tokenise(cut)) # 0
  <2>1. CASE Len(cut) < GramLength
    <3> DEFINE g == [n \in 1..GramLength |-> IF n <= Len(cut) THEN cut[n] ELSE Space]
    <3>1. g \in Gram
      BY <1>3 DEF Gram
    <3>2. Tokenise(cut) = <<g>>
      BY <2>1 DEF Tokenise
    <3> HIDE DEF g
    <3> QED
      BY <3>1, <3>2
  <2>2. CASE ~(Len(cut) < GramLength)
    <3> DEFINE m == Len(cut) - GramLength + 1
    <3>1. m \in Nat /\ m # 0
      BY <1>3, <2>2
    <3>2. \A n \in 1..m : SubSeq(cut, n, n + GramLength - 1) \in Gram
      <4> SUFFICES ASSUME NEW n \in 1..m
                   PROVE  SubSeq(cut, n, n + GramLength - 1) \in Gram
        OBVIOUS
      <4>1. /\ n + GramLength - 1 - n + 1 = GramLength
            /\ \A i \in 1..GramLength : i + n - 1 \in 1..Len(cut)
        BY <1>3
      <4>2. SubSeq(cut, n, n + GramLength - 1)
              = [i \in 1..GramLength |-> cut[n + i - 1]]
        BY <1>1, <1>3, <4>1
      <4>3. \A i \in 1..GramLength : cut[n + i - 1] \in Nat
        BY <1>3
      <4> QED
        BY <4>2, <4>3 DEF Gram
    <3>3. Tokenise(cut) = [n \in 1..m |-> SubSeq(cut, n, n + GramLength - 1)]
      BY <2>2 DEF Tokenise
    <3> HIDE DEF m
    <3>4. Tokenise(cut) \in [1..m -> Gram]
      BY <3>2, <3>3
    <3> QED
      BY <3>1, <3>4, FunctionIsSeq
  <2> QED
    BY <2>1, <2>2
<1>5. Grams(text) \subseteq Gram /\ IsFiniteSet(Grams(text))
  BY <1>2, <1>4, ToSetFinite DEF Grams
<1>6. ASSUME NEW g
      PROVE  Tf(text, g) \in Nat /\ (g \in Grams(text) => Tf(text, g) # 0)
  <2> DEFINE at == {n \in DOMAIN Tokens(text) : Tokens(text)[n] = g}
  <2>1. DOMAIN Tokens(text) = 1..Len(Tokens(text)) /\ Len(Tokens(text)) \in Nat
    BY <1>2, <1>4
  <2>2. IsFiniteSet(1..Len(Tokens(text))) /\ at \in SUBSET (1..Len(Tokens(text)))
    BY <2>1, LengthCardinality
  <2>3. g \in Grams(text) => at # {}
    BY DEF Grams, ToSet
  <2> HIDE DEF at
  <2>4. Cardinality(at) \in Nat /\ (at # {} => Cardinality(at) # 0)
    BY <2>2, FS_Subset, FS_CardinalityType, FS_EmptySet
  <2> QED
    BY <2>3, <2>4 DEF Tf, at
<1>7. Grams(text) # {}
  <2>1. 1 \in DOMAIN Tokens(text)
    BY <1>2, <1>4
  <2> QED
    BY <2>1 DEF Grams, ToSet
<1> QED
  BY <1>5, <1>6, <1>7

\* Two grams that differ are in order, one way only.
LEMMA BeforeOrder ==
  /\ \A g, h \in Gram : g # h => Before(g, h) \/ Before(h, g)
  /\ \A g \in Gram : ~Before(g, g)
  /\ \A f, g, h \in Gram : Before(f, g) /\ Before(g, h) => Before(f, h)
<1>0. GramLength \in Nat
  BY FuzzyIndexAssumption
<1>1. ASSUME NEW g \in Gram, NEW h \in Gram, g # h
      PROVE  Before(g, h) \/ Before(h, g)
  <2> DEFINE T == {n \in 1..GramLength : g[n] # h[n]}
  <2>1. T # {} /\ T \in SUBSET Nat
    <3>1. \E n \in 1..GramLength : g[n] # h[n]
      <4> SUFFICES ASSUME \A n \in 1..GramLength : g[n] = h[n] PROVE g = h
        BY <1>1
      <4>1. /\ g = [n \in 1..GramLength |-> g[n]]
            /\ h = [n \in 1..GramLength |-> h[n]]
        BY DEF Gram
      <4>2. [n \in 1..GramLength |-> g[n]] = [n \in 1..GramLength |-> h[n]]
        OBVIOUS
      <4> QED
        BY <4>1, <4>2
    <3> QED
      BY <3>1
  <2> HIDE DEF T
  <2>2. PICK n \in T : \A m \in T : n <= m
    BY <2>1, LeastNatural
  <2>3. /\ n \in 1..GramLength /\ g[n] # h[n]
        /\ g[n] \in Nat /\ h[n] \in Nat
    BY <2>2 DEF T, Gram
  <2>4. \A m \in 1..(n - 1) : g[m] = h[m]
    BY <1>0, <2>2, <2>3 DEF T
  <2>5. g[n] < h[n] \/ h[n] < g[n]
    BY <2>3
  <2> QED
    BY <2>3, <2>4, <2>5 DEF Before
<1>2. ASSUME NEW g \in Gram PROVE ~Before(g, g)
  BY DEF Before, Gram
<1>3. ASSUME NEW f \in Gram, NEW g \in Gram, NEW h \in Gram,
             Before(f, g), Before(g, h)
      PROVE  Before(f, h)
  <2>1. PICK i \in 1..GramLength : f[i] < g[i] /\ \A m \in 1..(i - 1) : f[m] = g[m]
    BY <1>3 DEF Before
  <2>2. PICK j \in 1..GramLength : g[j] < h[j] /\ \A m \in 1..(j - 1) : g[m] = h[m]
    BY <1>3 DEF Before
  <2>3. \A m \in 1..GramLength : f[m] \in Nat /\ g[m] \in Nat /\ h[m] \in Nat
    BY DEF Gram
  <2>4. CASE i <= j
    <3>1. f[i] < h[i]
      BY <1>0, <2>1, <2>2, <2>3, <2>4
    <3>2. \A m \in 1..(i - 1) : f[m] = h[m]
      BY <1>0, <2>1, <2>2, <2>4
    <3> QED
      BY <3>1, <3>2 DEF Before
  <2>5. CASE j < i
    <3>1. f[j] < h[j]
      BY <1>0, <2>1, <2>2, <2>3, <2>5
    <3>2. \A m \in 1..(j - 1) : f[m] = h[m]
      BY <1>0, <2>1, <2>2, <2>5
    <3> QED
      BY <3>1, <3>2 DEF Before
  <2> QED
    BY <2>4, <2>5
<1> QED
  BY <1>1, <1>2, <1>3

\* A gram has fewer before it than one that it is before.
LEMMA PlaceOrders ==
  ASSUME NEW G \in SUBSET Gram, IsFiniteSet(G), NEW g \in G, NEW h \in G
  PROVE  /\ Place(G, g) \in 0..(Cardinality(G) - 1)
         /\ Before(g, h) => Place(G, g) < Place(G, h)
<1> DEFINE Less(f) == {e \in G : Before(e, f)}
<1>1. /\ \A f \in G : /\ Less(f) \in SUBSET G
                      /\ Place(G, f) = Cardinality(Less(f))
                      /\ f \notin Less(f)
      /\ Before(g, h) => Less(g) \cup {g} \subseteq Less(h)
  BY BeforeOrder DEF Place
<1> HIDE DEF Less
<1>2. \A f \in G : /\ IsFiniteSet(Less(f)) /\ Place(G, f) \in Nat
                   /\ IsFiniteSet(Less(f) \cup {f})
                   /\ Cardinality(Less(f) \cup {f}) = Place(G, f) + 1
  BY <1>1, FS_Subset, FS_CardinalityType, FS_AddElement
<1>3. Cardinality(G) \in Nat
  BY FS_CardinalityType
<1>4. Place(G, g) \in 0..(Cardinality(G) - 1)
  <2>1. Less(g) \cup {g} \in SUBSET G
    BY <1>1
  <2>2. Cardinality(Less(g) \cup {g}) <= Cardinality(G)
    BY <2>1, FS_Subset
  <2> QED
    BY <1>2, <1>3, <2>2
<1>5. ASSUME Before(g, h) PROVE Place(G, g) < Place(G, h)
  <2>1. Less(g) \cup {g} \in SUBSET Less(h) /\ IsFiniteSet(Less(h))
    BY <1>1, <1>2, <1>5
  <2>2. Cardinality(Less(g) \cup {g}) <= Cardinality(Less(h))
    BY <2>1, FS_Subset
  <2>3. /\ Cardinality(Less(g) \cup {g}) = Place(G, g) + 1
        /\ Cardinality(Less(h)) = Place(G, h)
        /\ Place(G, g) \in Nat /\ Place(G, h) \in Nat
    BY <1>1, <1>2
  <2> QED
    BY <2>2, <2>3
<1> QED
  BY <1>4, <1>5

\* Sorted lists the grams of a set, each once, in their order.
LEMMA SortedLists ==
  ASSUME NEW G \in SUBSET Gram, IsFiniteSet(G)
  PROVE  /\ Sorted(G) \in Seq(G) /\ ToSet(Sorted(G)) = G
         /\ \A i, j \in DOMAIN Sorted(G) : i < j => Before(Sorted(G)[i], Sorted(G)[j])
<1> DEFINE n == Cardinality(G)
           s == Sorted(G)
           at == [g \in G |-> Place(G, g) + 1]
<1>1. n \in Nat
  BY FS_CardinalityType
<1>2. at \in [G -> 1..n]
  BY <1>1, PlaceOrders
<1>3. \A g, h \in G : g # h => at[g] # at[h]
  <2> SUFFICES ASSUME NEW g \in G, NEW h \in G, g # h PROVE at[g] # at[h]
    OBVIOUS
  <2>1. Before(g, h) \/ Before(h, g)
    BY BeforeOrder
  <2>2. Place(G, g) < Place(G, h) \/ Place(G, h) < Place(G, g)
    BY <2>1, PlaceOrders
  <2>3. Place(G, g) \in Int /\ Place(G, h) \in Int
    BY PlaceOrders, <1>1
  <2> QED
    BY <2>2, <2>3
<1> HIDE DEF at
<1>4. at \in Surjection(G, 1..n)
  <2>1. at \in Injection(G, 1..n)
    BY <1>2, <1>3 DEF Injection, IsInjective
  <2> QED
    BY <1>1, <2>1, LengthCardinality, FS_Injection
<1>5. \A p \in 1..n : s[p] \in G /\ Place(G, s[p]) = p - 1
  <2> SUFFICES ASSUME NEW p \in 1..n
               PROVE  \E g \in G : Place(G, g) = p - 1
    BY DEF Sorted
  <2>1. PICK g \in G : at[g] = p
    BY <1>4 DEF Surjection
  <2>2. Place(G, g) \in Int
    BY <1>1, PlaceOrders
  <2> QED
    BY <2>1, <2>2 DEF at
<1>6. s \in [1..n -> G]
  BY <1>5 DEF Sorted
<1> HIDE DEF s
<1>7. s \in Seq(G) /\ DOMAIN s = 1..n
  BY <1>1, <1>6, FunctionIsSeq
<1>8. \A g \in G : \E p \in 1..n : s[p] = g
  <2> SUFFICES ASSUME NEW g \in G PROVE \E p \in 1..n : s[p] = g
    OBVIOUS
  <2>1. at[g] \in 1..n /\ at[g] = Place(G, g) + 1
    BY <1>2 DEF at
  <2>2. s[at[g]] \in G /\ at[s[at[g]]] = at[g]
    BY <1>1, <1>5, <2>1 DEF at
  <2>3. s[at[g]] = g
    BY <1>3, <2>2
  <2> QED
    BY <2>1, <2>3
<1>9. ToSet(s) = G
  BY <1>6, <1>7, <1>8 DEF ToSet
<1>10. ASSUME NEW i \in 1..n, NEW j \in 1..n, i < j PROVE Before(s[i], s[j])
  <2> DEFINE g == s[i]
             h == s[j]
  <2>1. /\ g \in G /\ h \in G /\ g # h
        /\ Place(G, g) = i - 1 /\ Place(G, h) = j - 1
    BY <1>1, <1>5, <1>10
  <2> HIDE DEF g, h
  <2>2. Before(h, g) => Place(G, h) < Place(G, g)
    BY <2>1, PlaceOrders
  <2>3. ~Before(h, g)
    BY <1>10, <2>1, <2>2
  <2> QED
    BY <2>1, <2>3, BeforeOrder DEF g, h
<1> QED
  BY <1>7, <1>9, <1>10 DEF s

-----------------------------------------------------------------------------
(* The index.                                                              *)

\* fit numbers and weighs the grams of all texts.
LEMMA FitType ==
  ASSUME NEW texts \in Contents
  PROVE  LET known == DOMAIN Fit(texts).vocabulary
         IN  /\ known \in SUBSET Gram /\ IsFiniteSet(known)
             /\ DOMAIN Fit(texts).idf = known
             /\ \A g \in known : /\ Fit(texts).vocabulary[g] = Place(known, g)
                                 /\ Fit(texts).vocabulary[g] \in Nat
                                 /\ Fit(texts).idf[g] \in Nat \ {0}
             /\ \A m \in DOMAIN texts : Grams(texts[m]) \subseteq known
<1> DEFINE n == Len(texts)
           G == [m \in 1..n |-> Grams(texts[m])]
           grams == UNION {Grams(texts[m]) : m \in DOMAIN texts}
           df(g) == Cardinality({m \in DOMAIN texts : g \in Grams(texts[m])})
<1>1. /\ n \in Nat /\ DOMAIN texts = 1..n
      /\ \A m \in 1..n : texts[m] \in Seq(Nat)
  BY FuzzyIndexAssumption
<1>2. \A m \in 1..n : Grams(texts[m]) \subseteq Gram /\ IsFiniteSet(Grams(texts[m]))
  BY <1>1, GramsType
<1>3. grams \in SUBSET Gram
  BY <1>1, <1>2
<1>4. IsFiniteSet(grams)
  <2> DEFINE R == {Grams(texts[m]) : m \in DOMAIN texts}
  <2>1. IsFiniteSet(R)
    <3>1. G \in Seq(SUBSET Gram)
      BY <1>1, <1>2
    <3>2. ToSet(G) = R
      BY <1>1 DEF ToSet
    <3> QED
      BY <3>1, <3>2, ToSetFinite
  <2>2. \A T \in R : IsFiniteSet(T)
    BY <1>1, <1>2
  <2> HIDE DEF R
  <2>3. IsFiniteSet(UNION R)
    BY <2>1, <2>2, FS_UNION
  <2> QED
    BY <2>3 DEF R
<1>5. \A g \in grams : df(g) \in 1..n
  <2> SUFFICES ASSUME NEW g \in grams PROVE df(g) \in 1..n
    OBVIOUS
  <2> DEFINE T == {m \in DOMAIN texts : g \in Grams(texts[m])}
  <2>1. T \in SUBSET (1..n) /\ T # {}
    BY <1>1
  <2> HIDE DEF T
  <2>2. IsFiniteSet(T) /\ Cardinality(T) <= n
    <3>1. IsFiniteSet(1..n) /\ Cardinality(1..n) = n
      BY <1>1, LengthCardinality
    <3>2. IsFiniteSet(T) /\ Cardinality(T) <= Cardinality(1..n)
      BY <2>1, <3>1, FS_Subset
    <3> QED
      BY <3>1, <3>2
  <2>3. Cardinality(T) \in Nat /\ Cardinality(T) # 0
    BY <2>1, <2>2, FS_CardinalityType, FS_EmptySet
  <2>4. Cardinality(T) \in 1..n
    BY <1>1, <2>2, <2>3
  <2> QED
    BY <2>4 DEF T
<1>6. /\ Fit(texts).vocabulary = [g \in grams |-> Place(grams, g)]
      /\ Fit(texts).idf = [g \in grams |-> Idf[Len(texts)][df(g)]]
  BY DEF Fit
<1>9. \A m \in DOMAIN texts : Grams(texts[m]) \subseteq grams
  OBVIOUS
<1> HIDE DEF grams, df
<1>7. ASSUME NEW g \in grams PROVE Place(grams, g) \in Nat
  <2>1. Place(grams, g) \in 0..(Cardinality(grams) - 1)
    BY <1>3, <1>4, PlaceOrders
  <2> QED
    BY <2>1
<1>8. \A g \in grams : Idf[Len(texts)][df(g)] \in Nat \ {0}
  BY <1>5, FuzzyIndexAssumption
<1> QED
  BY <1>3, <1>4, <1>6, <1>7, <1>8, <1>9

\* A row of the vectors belongs to one gram, and row 0 to the first of all.
LEMMA RowsDistinct ==
  ASSUME NEW G \in SUBSET Gram, IsFiniteSet(G), NEW g \in G, NEW h \in G
  PROVE  /\ Place(G, g) = Place(G, h) => g = h
         /\ Place(G, g) = 0 <=> \A f \in G \ {g} : Before(g, f)
<1>1. Place(G, g) = Place(G, h) => g = h
  <2> SUFFICES ASSUME g # h PROVE Place(G, g) # Place(G, h)
    OBVIOUS
  <2>1. Before(g, h) \/ Before(h, g)
    BY BeforeOrder
  <2>2. Place(G, g) < Place(G, h) \/ Place(G, h) < Place(G, g)
    BY <2>1, PlaceOrders
  <2>3. Place(G, g) \in Int /\ Place(G, h) \in Int
    BY PlaceOrders, FS_CardinalityType
  <2> QED
    BY <2>2, <2>3
<1>2. Place(G, g) = 0 <=> \A f \in G \ {g} : Before(g, f)
  <2> DEFINE T == {f \in G : Before(f, g)}
  <2>1. IsFiniteSet(T)
    BY FS_Subset
  <2>2. Place(G, g) = 0 <=> T = {}
    BY <2>1, FS_EmptySet DEF Place
  <2>3. T = {} <=> \A f \in G \ {g} : Before(g, f)
    BY BeforeOrder
  <2> QED
    BY <2>2, <2>3
<1> QED
  BY <1>1, <1>2

-----------------------------------------------------------------------------
(* The similarity of a vector to itself.                                   *)

\* The sum of a value over the members of a set and its subsets, as
\* MapThenSumSet has it.
Sums(S, value, f) ==
    f = [s \in SUBSET S |->
           IF s = {} THEN 0
           ELSE LET x == CHOOSE x \in s : TRUE IN value[x] + f[s \ {x}]]

\* A set with one member less.
LEMMA SmallerSet ==
  ASSUME NEW S, IsFiniteSet(S), NEW s \in SUBSET S, s # {}, NEW x \in s
  PROVE  /\ s \ {x} \in SUBSET S
         /\ Cardinality(s) \in Nat \ {0}
         /\ Cardinality(s \ {x}) = Cardinality(s) - 1
<1>1. IsFiniteSet(s)
  BY FS_Subset
<1>2. Cardinality(s) \in Nat /\ Cardinality(s) # 0
  BY <1>1, FS_CardinalityType, FS_EmptySet
<1>3. Cardinality(s \ {x}) = Cardinality(s) - 1
  BY <1>1, FS_RemoveElement
<1> QED
  BY <1>2, <1>3

\* A finite set has one.
LEMMA SumExists ==
  ASSUME NEW S, IsFiniteSet(S), NEW value \in [S -> Nat]
  PROVE  \E f : Sums(S, value, f)
<1> DEFINE Small(n) == {s \in SUBSET S : Cardinality(s) <= n}
           next(f, s) == IF s = {} THEN 0
                         ELSE LET x == CHOOSE x \in s : TRUE IN value[x] + f[s \ {x}]
           T == {n \in Nat : \E f \in [Small(n) -> Nat] :
                                \A s \in Small(n) : f[s] = next(f, s)}
<1>1. \A s \in SUBSET S : Cardinality(s) \in Nat /\ IsFiniteSet(s)
  BY FS_Subset, FS_CardinalityType
<1>2. ASSUME NEW s \in SUBSET S, s # {}
      PROVE  LET x == CHOOSE x \in s : TRUE
             IN  x \in S /\ s \ {x} \in SUBSET S
                   /\ Cardinality(s \ {x}) = Cardinality(s) - 1
  <2>1. (CHOOSE x \in s : TRUE) \in s
    BY <1>2
  <2> QED
    BY <1>2, <2>1, SmallerSet
<1>3. 0 \in T
  <2> DEFINE f == [s \in Small(0) |-> 0]
  <2>1. \A s \in Small(0) : s = {}
    BY <1>1, FS_EmptySet
  <2>2. f \in [Small(0) -> Nat] /\ \A s \in Small(0) : f[s] = next(f, s)
    BY <2>1
  <2> QED
    BY <2>2
<1>4. ASSUME NEW n \in Nat, n \in T PROVE n + 1 \in T
  <2>1. PICK f \in [Small(n) -> Nat] : \A s \in Small(n) : f[s] = next(f, s)
    BY <1>4
  <2> DEFINE g == [s \in Small(n + 1) |-> next(f, s)]
  <2>2. \A s \in Small(n) : s \in Small(n + 1) /\ g[s] = f[s]
    <3>1. \A s \in Small(n) : s \in Small(n + 1)
      BY <1>1
    <3> HIDE DEF next
    <3> QED
      BY <2>1, <3>1
  <2>3. ASSUME NEW s \in Small(n + 1), s # {}
        PROVE  LET x == CHOOSE x \in s : TRUE
               IN  x \in S /\ s \ {x} \in Small(n)
    <3> DEFINE x == CHOOSE x \in s : TRUE
    <3>1. /\ x \in S /\ s \ {x} \in SUBSET S
          /\ Cardinality(s \ {x}) = Cardinality(s) - 1
          /\ Cardinality(s) \in Nat /\ Cardinality(s) <= n + 1
      BY <1>1, <1>2, <2>3
    <3> HIDE DEF x
    <3>2. Cardinality(s \ {x}) <= n
      BY <3>1
    <3>3. x \in S /\ s \ {x} \in Small(n)
      BY <3>1, <3>2
    <3> QED
      BY <3>3 DEF x
  <2>4. ASSUME NEW s \in Small(n + 1)
        PROVE  g[s] \in Nat /\ g[s] = next(g, s)
    <3>1. g[s] = next(f, s)
      OBVIOUS
    <3>2. CASE s = {}
      BY <3>1, <3>2
    <3>3. CASE s # {}
      <4> DEFINE x == CHOOSE x \in s : TRUE
      <4>1. x \in S /\ s \ {x} \in Small(n)
        BY <2>3, <3>3
      <4>2. next(f, s) = value[x] + f[s \ {x}] /\ next(g, s) = value[x] + g[s \ {x}]
        BY <3>3
      <4> HIDE DEF x, g, next, Small
      <4>3. g[s \ {x}] = f[s \ {x}]
        BY <2>2, <4>1
      <4>4. f[s \ {x}] \in Nat /\ value[x] \in Nat
        BY <4>1
      <4> QED
        BY <3>1, <4>2, <4>3, <4>4
    <3> QED
      BY <3>2, <3>3
  <2>5. g \in [Small(n + 1) -> Nat]
    <3>1. g = [s \in Small(n + 1) |-> g[s]]
      OBVIOUS
    <3> HIDE DEF g, Small
    <3> QED
      BY <2>4, <3>1
  <2> HIDE DEF g, Small, next
  <2>6. \E h \in [Small(n + 1) -> Nat] : \A s \in Small(n + 1) : h[s] = next(h, s)
    BY <2>4, <2>5
  <2>7. n + 1 \in Nat
    OBVIOUS
  <2> QED
    BY <2>6, <2>7
<1>5. Nat \subseteq T
  <2> HIDE DEF T
  <2> QED
    BY <1>3, <1>4, SetInduction
<1>6. Cardinality(S) \in Nat /\ SUBSET S = Small(Cardinality(S))
  <2>1. \A s \in SUBSET S : Cardinality(s) <= Cardinality(S)
    BY FS_Subset
  <2> QED
    BY <2>1, FS_CardinalityType
<1>7. PICK f \in [Small(Cardinality(S)) -> Nat] :
         \A s \in Small(Cardinality(S)) : f[s] = next(f, s)
  BY <1>5, <1>6
<1>8. f \in [SUBSET S -> Nat] /\ \A s \in SUBSET S : f[s] = next(f, s)
  BY <1>6, <1>7
<1>9. f = [s \in SUBSET S |-> next(f, s)]
  <2> HIDE DEF next
  <2>1. f = [s \in SUBSET S |-> f[s]]
    BY <1>8
  <2> QED
    BY <1>8, <2>1, Zenon
<1> QED
  BY <1>9 DEF Sums

\* The sum of positive values is one.
LEMMA SumPositive ==
  ASSUME NEW S, IsFiniteSet(S), S # {}, NEW value \in [S -> Nat \ {0}],
         NEW f, Sums(S, value, f)
  PROVE  f[S] \in Nat \ {0}
<1> DEFINE T == {n \in Nat : \A s \in SUBSET S : Cardinality(s) = n =>
                    f[s] \in Nat /\ (s # {} => f[s] # 0)}
<1>1. f[{}] = 0
  BY DEF Sums
<1>2. ASSUME NEW s \in SUBSET S, s # {}
      PROVE  \E x \in s : f[s] = value[x] + f[s \ {x}]
  <2> DEFINE x == CHOOSE x \in s : TRUE
  <2>1. x \in s
    BY <1>2
  <2>2. f[s] = value[x] + f[s \ {x}]
    BY <1>2 DEF Sums
  <2> QED
    BY <2>1, <2>2
<1>0. \A s \in SUBSET S : IsFiniteSet(s) /\ (Cardinality(s) = 0 <=> s = {})
  <2>1. \A s \in SUBSET S : IsFiniteSet(s)
    BY FS_Subset
  <2> QED
    BY <2>1, FS_EmptySet
<1>3. 0 \in T
  <2>1. \A s \in SUBSET S : Cardinality(s) = 0 => s = {}
    BY <1>0
  <2>2. \A s \in SUBSET S : Cardinality(s) = 0 => f[s] = 0 /\ s = {}
    BY <1>1, <2>1
  <2> HIDE DEF T
  <2> QED
    BY <2>2 DEF T
<1>4. ASSUME NEW n \in Nat, n \in T PROVE n + 1 \in T
  <2> SUFFICES ASSUME NEW s \in SUBSET S, Cardinality(s) = n + 1
               PROVE  f[s] \in Nat /\ f[s] # 0
    OBVIOUS
  <2>1. s # {}
    BY <1>0
  <2>2. PICK x \in s : f[s] = value[x] + f[s \ {x}]
    BY <1>2, <2>1
  <2>3. s \ {x} \in SUBSET S /\ Cardinality(s \ {x}) = n
    BY <2>1, SmallerSet
  <2>4. f[s \ {x}] \in Nat
    BY <1>4, <2>3
  <2>5. value[x] \in Nat \ {0}
    OBVIOUS
  <2> QED
    BY <2>2, <2>4, <2>5
<1>5. Nat \subseteq T
  <2> HIDE DEF T
  <2> QED
    BY <1>3, <1>4, SetInduction
<1>6. Cardinality(S) \in T
  BY <1>5, FS_CardinalityType
<1> QED
  BY <1>6

\* The product of a vector with itself is positive if its elements are.
LEMMA ProductPositive ==
  ASSUME NEW u, IsFiniteSet(DOMAIN u), DOMAIN u # {},
         \A r \in DOMAIN u : u[r] \in Nat \ {0}
  PROVE  Product(u, u) \in Nat \ {0}
<1> DEFINE S == DOMAIN u \cap DOMAIN u
           value == [r \in S |-> u[r] * u[r]]
           Iterates(f) == f = [s \in SUBSET S |->
                             IF s = {} THEN 0
                             ELSE LET x == CHOOSE x \in s : TRUE
                                  IN  u[x] * u[x] + f[s \ {x}]]
<1>1. S = DOMAIN u /\ IsFiniteSet(S) /\ S # {}
  OBVIOUS
<1>2. value \in [S -> Nat \ {0}] /\ value \in [S -> Nat]
  <2>1. \A n \in Nat \ {0} : n * n \in Nat \ {0}
    OBVIOUS
  <2> QED
    BY <2>1
<1>3. Product(u, u) = (CHOOSE f : Iterates(f))[S]
  BY Zenon DEF Product, MapThenSumSet, MapThenFoldSet
<1>4. ASSUME NEW f
      PROVE  Iterates(f) <=> Sums(S, value, f)
  <2> DEFINE one == [s \in SUBSET S |->
                       IF s = {} THEN 0
                       ELSE LET x == CHOOSE x \in s : TRUE IN u[x] * u[x] + f[s \ {x}]]
             other == [s \in SUBSET S |->
                         IF s = {} THEN 0
                         ELSE LET x == CHOOSE x \in s : TRUE IN value[x] + f[s \ {x}]]
  <2>1. ASSUME NEW s \in SUBSET S, s # {}
        PROVE  one[s] = other[s]
    <3> DEFINE x == CHOOSE x \in s : TRUE
    <3>1. x \in S
      <4>1. x \in s
        BY <2>1
      <4> QED
        BY <4>1
    <3>2. value[x] = u[x] * u[x]
      BY <3>1
    <3>3. one[s] = u[x] * u[x] + f[s \ {x}] /\ other[s] = value[x] + f[s \ {x}]
      BY <2>1
    <3> QED
      BY <3>2, <3>3
  <2>2. one[{}] = other[{}]
    OBVIOUS
  <2>3. one = other
    <3>1. \A s \in SUBSET S : one[s] = other[s]
      BY <2>1, <2>2
    <3> QED
      BY <3>1
  <2>4. (Iterates(f) <=> f = one) /\ (Sums(S, value, f) <=> f = other)
    BY Zenon DEF Sums
  <2> HIDE DEF one, other, Iterates
  <2> QED
    BY <2>3, <2>4
<1> HIDE DEF value, S
<1>5. \E f : Sums(S, value, f)
  BY <1>1, <1>2, SumExists, Zenon
<1> DEFINE sum == CHOOSE f : Iterates(f)
<1>6. Iterates(sum)
  <2> HIDE DEF Iterates
  <2> QED
    BY <1>4, <1>5
<1>7. Sums(S, value, sum)
  BY <1>4, <1>6
<1> HIDE DEF sum
<1>8. sum[S] \in Nat \ {0}
  BY <1>1, <1>2, <1>7, SumPositive
<1> QED
  BY <1>3, <1>8 DEF sum

\* A vector is as similar to itself as can be.
LEMMA SimilaritySelf ==
  ASSUME NEW u, IsFiniteSet(DOMAIN u), DOMAIN u # {},
         \A r \in DOMAIN u : u[r] \in Nat \ {0}
  PROVE  Similarity(u, u) = 100
<1> DEFINE uv == Product(u, u)
           norms == uv * uv
           cosine(c) == c * c * norms <= 10000 * uv * uv
           last(c) == (c = 0 \/ cosine(c)) /\ (c = 100 \/ ~cosine(c + 1))
<1>1. uv \in Nat \ {0}
  BY ProductPositive
<1>2. Similarity(u, u) = IF norms = 0 THEN 0 ELSE CHOOSE c \in 0..100 : last(c)
  BY DEF Similarity
<1> HIDE DEF uv
<1>3. norms \in Nat /\ norms # 0 /\ 10000 * uv * uv = 10000 * norms
  BY <1>1
<1>4. ASSUME NEW c \in 0..100 PROVE cosine(c)
  <2>1. c * c \in Nat /\ c * c <= 10000
    <3>1. c * c <= 100 * c /\ 100 * c <= 10000
      OBVIOUS
    <3> QED
      BY <3>1
  <2> DEFINE sq == c * c
  <2>2. sq \in Nat /\ sq <= 10000 /\ 10000 - sq \in Nat
    BY <2>1
  <2> HIDE DEF sq, norms
  <2>3. (10000 - sq) * norms \in Nat
    BY <1>3, <2>2
  <2>4. (10000 - sq) * norms = 10000 * norms - sq * norms /\ sq * norms \in Nat
    BY <1>3, <2>2
  <2>5. sq * norms <= 10000 * norms
    BY <1>3, <2>3, <2>4
  <2> QED
    BY <1>3, <2>5 DEF sq
<1> HIDE DEF norms, cosine
<1>5. last(100)
  BY <1>4
<1>6. ASSUME NEW c \in 0..100, last(c) PROVE c = 100
  <2> SUFFICES ASSUME c # 100 PROVE FALSE
    OBVIOUS
  <2>1. c + 1 \in 0..100
    OBVIOUS
  <2> QED
    BY <1>4, <1>6, <2>1
<1> HIDE DEF last
<1>7. (CHOOSE c \in 0..100 : last(c)) = 100
  <2>1. 100 \in 0..100
    OBVIOUS
  <2> QED
    BY <1>5, <1>6, <2>1
<1> QED
  BY <1>2, <1>3, <1>7

-----------------------------------------------------------------------------
(* The distance of a text to itself.                                       *)

\* A sequence is its own common prefix.
LEMMA CommonLengthSelf ==
  ASSUME NEW S, NEW a \in Seq(S)
  PROVE  CommonLength(a, a) = Len(a)
<1> DEFINE C == CommonPrefixes({a, a})
           c == LongestCommonPrefix({a, a})
<1>1. Len(a) \in Nat /\ SubSeq(a, 1, Len(a)) = a
  <2>1. Len(a) \in Nat /\ \A i \in 1..Len(a) : a[i] \in S
    BY LenProperties, ElementOfSeq
  <2> QED
    BY <2>1
<1>2. a \in C
  <2>1. a \in Prefixes(a)
    <3>1. Len(a) \in 0..Len(a)
      BY <1>1
    <3> QED
      BY <1>1, <3>1 DEF Prefixes
  <2>2. IsPrefix(a, a)
    BY <1>1 DEF IsPrefix
  <2> QED
    BY <2>1, <2>2 DEF CommonPrefixes
<1>3. \A d \in C : Len(d) <= Len(a)
  BY DEF CommonPrefixes, IsPrefix
<1>4. \A d \in C : Len(d) \in Nat
  <2> SUFFICES ASSUME NEW d \in C PROVE Len(d) \in Nat
    OBVIOUS
  <2>1. PICK l \in 0..Len(a) : d = SubSeq(a, 1, l)
    BY DEF CommonPrefixes, Prefixes
  <2>2. l \in Nat /\ \A i \in 1..l : a[i] \in S
    BY <1>1, <2>1, ElementOfSeq
  <2> QED
    BY <2>1, <2>2, SubSeqProperties
<1>5. c \in C /\ \A d \in C : Len(d) <= Len(c)
  <2>1. \E e \in C : \A d \in C : Len(d) <= Len(e)
    BY <1>2, <1>3
  <2> HIDE DEF C
  <2> QED
    BY <2>1 DEF LongestCommonPrefix, C
<1> HIDE DEF C, c
<1>6. Len(c) = Len(a)
  BY <1>1, <1>2, <1>3, <1>4, <1>5
<1> QED
  BY <1>6 DEF CommonLength, c

\* A text has no distance to itself (levenshtein.cpp:126-150).
LEMMA DistanceSelf ==
  ASSUME NEW a \in Seq(Nat)
  PROVE  LevEditDistance(a, a, TRUE, 0) = 0
<1> DEFINE n == Len(a)
           e == SubSeq(a, n + 1, n)
           suffix == CommonLength(Reverse(e), Reverse(e))
<1>1. n \in Nat /\ CommonLength(a, a) = n
  BY LenProperties, CommonLengthSelf
<1>2. e = <<>>
  BY <1>1
<1> HIDE DEF n, e
<1>3. Reverse(e) = <<>>
  <2>1. Reverse(e) = [i \in 1..0 |-> e[(0 - i) + 1]]
    BY <1>2 DEF Reverse
  <2> QED
    BY <2>1
<1>4. suffix = 0
  <2>1. <<>> \in Seq(Nat) /\ Len(<<>>) = 0
    OBVIOUS
  <2>2. CommonLength(<<>>, <<>>) = 0
    BY <2>1, CommonLengthSelf
  <2> QED
    BY <1>3, <2>2
<1>5. /\ Strip(a, a).first = SubSeq(e, 1, Len(e) - suffix)
      /\ Strip(a, a).second = SubSeq(e, 1, Len(e) - suffix)
  BY <1>1 DEF Strip, n, e
<1>6. SubSeq(e, 1, Len(e) - suffix) = <<>>
  BY <1>2, <1>4
<1> HIDE DEF suffix
<1>7. Ordered(a, a) = << <<>>, <<>> >>
  BY <1>5, <1>6 DEF Ordered
<1>8. Ordered(a, a)[1] = <<>> /\ Ordered(a, a)[2] = <<>> /\ Len(<<>>) = 0
  BY <1>7
<1> QED
  BY <1>8 DEF LevEditDistance

-----------------------------------------------------------------------------
(* The results of a round.                                                 *)

LEMMA SimilarityType ==
  ASSUME NEW u, NEW v
  PROVE  Similarity(u, v) \in 0..100
<1> DEFINE norms == Product(u, u) * Product(v, v)
           uv == Product(u, v)
           cosine(c) == c * c * norms <= 10000 * uv * uv
           T == {c \in 0..100 : c = 0 \/ cosine(c)}
           last(c) == (c = 0 \/ cosine(c)) /\ (c = 100 \/ ~cosine(c + 1))
<1>1. Similarity(u, v) = IF norms = 0 THEN 0 ELSE CHOOSE c \in 0..100 : last(c)
  BY DEF Similarity
<1> HIDE DEF norms, cosine
<1>2. PICK m \in T : \A c \in T : c <= m
  <2>1. T \in SUBSET (0..100) /\ 0 \in T
    OBVIOUS
  <2> HIDE DEF T
  <2> QED
    BY <2>1, GreatestNatural
<1>3. m = 100 \/ ~cosine(m + 1)
  <2> SUFFICES ASSUME m # 100, cosine(m + 1) PROVE FALSE
    OBVIOUS
  <2>1. m + 1 \in 0..100
    OBVIOUS
  <2>2. m + 1 \in T
    BY <2>1
  <2> QED
    BY <1>2, <2>2
<1>4. m \in 0..100 /\ last(m)
  BY <1>3
<1> HIDE DEF last
<1>5. (CHOOSE c \in 0..100 : last(c)) \in 0..100
  BY <1>4
<1> QED
  BY <1>1, <1>5

Hit == [result_index : Nat, confidence : 0..100]

\* Every text is a hit, with its own similarity.
LEMMA HitsType ==
  ASSUME NEW vector, DOMAIN vectorized_data = DOMAIN index_texts,
         index_texts \in Seq(Seq(Nat))
  PROVE  /\ Hits(vector) \in SUBSET Hit /\ IsFiniteSet(Hits(vector))
         /\ \A h \in Hits(vector) : h.result_index \in DOMAIN index_texts
<1> DEFINE n == Len(index_texts)
           s == [m \in 1..n |-> IndexResult(m, Similarity(vector, vectorized_data[m]))]
<1>1. n \in Nat /\ DOMAIN index_texts = 1..n
  OBVIOUS
<1>2. \A m \in 1..n : IndexResult(m, Similarity(vector, vectorized_data[m])) \in Hit
  BY <1>1, SimilarityType DEF IndexResult, Hit
<1>3. s \in Seq(Hit) /\ ToSet(s) = Hits(vector)
  <2>1. s \in [1..n -> Hit]
    BY <1>2
  <2>2. ToSet(s) = Hits(vector)
    BY <1>1 DEF ToSet, Hits
  <2> QED
    BY <1>1, <2>1, <2>2, FunctionIsSeq
<1>4. \A h \in Hits(vector) : h.result_index \in DOMAIN index_texts
  BY DEF Hits, IndexResult
<1> HIDE DEF s
<1>5. IsFiniteSet(ToSet(s)) /\ ToSet(s) \subseteq Hit
  BY <1>3, ToSetFinite
<1> QED
  BY <1>3, <1>4, <1>5

\* The queue gives every hit once, the worst first.
LEMMA WorstFirstLists ==
  ASSUME NEW hits \in SUBSET Hit, IsFiniteSet(hits)
  PROVE  LET s == WorstFirst(hits)
         IN  /\ s \in Seq(hits) /\ ToSet(s) = hits /\ Len(s) = Cardinality(hits)
             /\ \A i, j \in DOMAIN s : i < j => s[i].confidence <= s[j].confidence
<1> DEFINE f == SetToSeq(hits)
           n == Len(f)
           key == [i \in DOMAIN f |-> f[i].confidence]
           s == SortBy(f, key)
<1>1. f \in Seq(hits) /\ n = Cardinality(hits) /\ ToSet(f) = hits
  BY SetToSeqLists
<1>2. n \in Nat /\ DOMAIN f = 1..n /\ \A i \in 1..n : f[i] \in hits
  BY <1>1
<1>3. WorstFirst(hits) = s
  BY DEF WorstFirst
<1> HIDE DEF f
<1>4. key \in [1..n -> Int] /\ \A i \in 1..n : key[i] = f[i].confidence
  <2>1. \A i \in 1..n : f[i] \in Hit
    BY <1>2
  <2>2. \A h \in Hit : h.confidence \in Int
    BY DEF Hit
  <2>3. \A i \in 1..n : f[i].confidence \in Int
    BY <2>1, <2>2, Zenon
  <2> QED
    BY <1>2, <2>3
<1> HIDE DEF key
<1>5. PICK at \in [1..n -> 1..n] :
         /\ s = [p \in 1..n |-> f[at[p]]]
         /\ \A i \in 1..n : \E p \in 1..n : at[p] = i
         /\ \A p, l \in 1..n : p < l => key[at[p]] <= key[at[l]]
  <2>1. key \in [1..Len(f) -> Int] /\ f \in Seq(hits)
    BY <1>1, <1>4
  <2>2. \E at \in [1..Len(f) -> 1..Len(f)] :
           /\ SortBy(f, key) = [p \in 1..Len(f) |-> f[at[p]]]
           /\ \A i \in 1..Len(f) : \E p \in 1..Len(f) : at[p] = i
           /\ \A p, l \in 1..Len(f) : p < l => key[at[p]] <= key[at[l]]
    BY <2>1, SortByCorrect, Zenon
  <2> QED
    BY <2>2
<1> HIDE DEF s
<1>6. s \in [1..n -> hits] /\ DOMAIN s = 1..n
  BY <1>2, <1>5
<1>7. s \in Seq(hits) /\ Len(s) = n
  BY <1>2, <1>6, FunctionIsSeq
<1>8. ToSet(s) = hits
  <2>1. \A h \in hits : \E i \in 1..n : f[i] = h
    BY <1>1, <1>2 DEF ToSet
  <2>2. \A h \in hits : \E p \in 1..n : s[p] = h
    BY <1>5, <2>1
  <2> QED
    BY <1>6, <2>2 DEF ToSet
<1>9. \A i, j \in 1..n : i < j => s[i].confidence <= s[j].confidence
  <2>1. \A i \in 1..n : s[i].confidence = key[at[i]]
    BY <1>4, <1>5
  <2> QED
    BY <1>5, <2>1
<1> QED
  BY <1>1, <1>3, <1>6, <1>7, <1>8, <1>9

\* A round keeps the best of the hits above the threshold, and leaves one out
\* only if it has found all it asked for.
LEMMA RoundKeepsBest ==
  ASSUME NEW hits \in SUBSET Hit, IsFiniteSet(hits), NEW n \in Nat,
         NEW S \in Nearest(hits, n)
  PROVE  LET s == WorstFirst({h \in S : h.confidence >= MinConfidence})
             left == {h \in hits \ ToSet(s) : h.confidence >= MinConfidence}
         IN  /\ s \in Seq(hits) /\ Cardinality(ToSet(s)) = Len(s)
             /\ \A i, j \in DOMAIN s : i < j => s[i].confidence <= s[j].confidence
             /\ \A g \in left, h \in ToSet(s) : g.confidence <= h.confidence
             /\ left # {} => Len(s) = n
<1> DEFINE kept == {h \in S : h.confidence >= MinConfidence}
           s == WorstFirst(kept)
           left == {h \in hits \ ToSet(s) : h.confidence >= MinConfidence}
<1>1. /\ S \in SUBSET hits
      /\ Cardinality(S) = Min({n, Cardinality(hits)})
      /\ \A h \in S, g \in hits \ S : h.confidence >= g.confidence
  BY DEF Nearest, kSubset
<1>2. \A h \in hits : h.confidence \in Nat
  BY DEF Hit
<1>3. MinConfidence \in Nat
  BY FuzzyIndexAssumption
<1>4. IsFiniteSet(S) /\ IsFiniteSet(kept) /\ kept \in SUBSET Hit
  <2>1. IsFiniteSet(S)
    BY <1>1, FS_Subset
  <2>2. kept \in SUBSET S
    OBVIOUS
  <2> HIDE DEF kept
  <2> QED
    BY <1>1, <2>1, <2>2, FS_Subset
<1> HIDE DEF s
<1>5. /\ s \in Seq(kept) /\ ToSet(s) = kept /\ Len(s) = Cardinality(kept)
      /\ \A i, j \in DOMAIN s : i < j => s[i].confidence <= s[j].confidence
  <2> HIDE DEF kept
  <2> QED
    BY <1>4, WorstFirstLists DEF s
<1>6. left \subseteq hits \ S
  BY <1>5
<1>7. \A g \in left, h \in kept : g.confidence <= h.confidence
  BY <1>1, <1>2, <1>6
<1>8. ASSUME NEW g \in left PROVE Cardinality(kept) = n
  <2>1. g \in hits /\ g \notin S /\ g.confidence >= MinConfidence
    BY <1>6
  <2>2. kept = S
    BY <1>1, <1>2, <1>3, <2>1
  <2>3. Cardinality(hits) \in Nat /\ Cardinality(S) # Cardinality(hits)
    <3>1. S # hits
      BY <2>1
    <3> QED
      BY <1>1, <3>1, FS_Subset, FS_CardinalityType
  <2>4. Min({n, Cardinality(hits)}) \in {n, Cardinality(hits)}
    <3>1. \E x \in {n, Cardinality(hits)} : \A y \in {n, Cardinality(hits)} : x <= y
      BY <2>3
    <3> QED
      BY <3>1 DEF Min
  <2> QED
    BY <1>1, <2>2, <2>3, <2>4
<1>9. s \in Seq(hits)
  <2>1. kept \subseteq hits
    BY <1>1
  <2> HIDE DEF kept
  <2> QED
    BY <1>5, <2>1
<1> QED
  BY <1>5, <1>7, <1>8, <1>9 DEF s

\* A perfect hit is kept if there are not too many.
LEMMA PerfectKept ==
  ASSUME NEW hits \in SUBSET Hit, IsFiniteSet(hits), NEW bound \in Nat,
         NEW g \in hits, g.confidence = 100,
         NEW found \in Seq(hits), Cardinality(ToSet(found)) = Len(found),
         g \notin ToSet(found) =>
            (\A h \in ToSet(found) : g.confidence <= h.confidence) /\ Len(found) >= bound,
         Cardinality({h \in hits : h.confidence = 100}) <= bound
  PROVE  \E i \in DOMAIN found : found[i] = g
<1> DEFINE alike == {h \in hits : h.confidence = 100}
           S == ToSet(found)
<1>1. S \in SUBSET hits /\ IsFiniteSet(S) /\ Len(found) \in Nat
  BY ToSetFinite
<1>2. g \in S => \E i \in DOMAIN found : found[i] = g
  BY DEF ToSet
<1> SUFFICES ASSUME g \notin S PROVE FALSE
  BY <1>2
<1>4. (\A h \in S : 100 <= h.confidence) /\ Len(found) >= bound
  OBVIOUS
<1>5. \A h \in S : h.confidence = 100
  <2>1. \A h \in hits : h.confidence \in 0..100
    BY DEF Hit
  <2> SUFFICES ASSUME NEW h \in S PROVE h.confidence = 100
    OBVIOUS
  <2>2. h \in hits /\ 100 <= h.confidence
    BY <1>1, <1>4
  <2> DEFINE c == h.confidence
  <2>3. c \in 0..100 /\ 100 <= c
    BY <2>1, <2>2
  <2> HIDE DEF c
  <2>4. c = 100
    BY <2>3
  <2> QED
    BY <2>4 DEF c
<1> HIDE DEF S
<1>6. S \cup {g} \in SUBSET alike
  BY <1>1, <1>5
<1>7. IsFiniteSet(alike) /\ Cardinality(alike) \in Nat
  <2>1. alike \in SUBSET hits
    OBVIOUS
  <2> HIDE DEF alike
  <2> QED
    BY <2>1, FS_Subset, FS_CardinalityType
<1>8. Cardinality(S \cup {g}) = Len(found) + 1
  BY <1>1, FS_AddElement DEF S
<1>9. Cardinality(S \cup {g}) <= Cardinality(alike)
  <2> HIDE DEF alike
  <2> QED
    BY <1>6, <1>7, FS_Subset
<1>10. Cardinality(alike) <= bound
  OBVIOUS
<1> HIDE DEF alike
<1> QED
  BY <1>1, <1>4, <1>7, <1>8, <1>9, <1>10

-----------------------------------------------------------------------------
(* The inductive invariant.                                                *)

\* What build makes of texts.
IndexOf(texts) ==
    [texts |-> texts, vocabulary |-> Fit(texts).vocabulary, idf |-> Fit(texts).idf,
     vectors |-> [n \in DOMAIN texts |-> TextVector(Fit(texts), texts[n])]]

\* A map with what searches inserted into it.
Extends(map, base) ==
    /\ DOMAIN base \subseteq DOMAIN map
    /\ \A g \in DOMAIN map : map[g] = IF g \in DOMAIN base THEN base[g] ELSE 0

Indexed(texts) ==
    /\ index_texts = texts
    /\ archive = IndexOf(texts)
    /\ vectorized_data = archive.vectors
    /\ Extends(vocabulary, archive.vocabulary)
    /\ Extends(idf, archive.idf)

NotIndexed ==
    /\ index_texts = <<>> /\ vectorized_data = <<>> /\ archive = None
    /\ vocabulary = <<>> /\ idf = <<>>
    /\ \A t \in Threads : pc[t] \in {"idle", "done"}

\* There is no index, and then no search of it, or that of some texts.
IndexInv ==
    /\ NotIndexed \/ \E texts \in Contents \ {<<>>} : Indexed(texts)
    /\ DOMAIN vocabulary = DOMAIN idf

\* The grams of query q that are left are those after the others, in order.
InOrder(q, left) ==
    /\ left \in Seq(Grams(q))
    /\ \A i, j \in DOMAIN left : i < j => Before(left[i], left[j])
    /\ \A g \in Grams(q) \ ToSet(left) : \A i \in DOMAIN left : Before(g, left[i])

TodoInv(t) ==
    /\ pc[t] # "transform" => todo[t] = <<>>
    /\ access[t] # "none" => todo[t] # <<>>
    /\ InOrder(query[t], todo[t])

\* The element of gram g in the vector of query q when the grams in left are
\* yet to be looked up: 0 too if g is the first of all and one after it is in
\* no text.
PartWeight(q, left, g) ==
    LET known == DOMAIN archive.vocabulary
        seen  == Grams(q) \ left
        lost  == /\ archive.vocabulary[g] = 0
                 /\ \E u \in seen \ known : Before(g, u)
    IN  IF g \in seen /\ ~lost THEN Tf(q, g) * archive.idf[g] ELSE 0

\* So far the column has the weights of the grams that are not left.
Weighed(vector, q, left) ==
    \A g \in DOMAIN archive.vocabulary :
        Element(vector, archive.vocabulary[g]) = PartWeight(q, left, g)

\* The row that is set for a gram, and the weight it gets.
RowOf(g) == IF g \in DOMAIN archive.vocabulary THEN archive.vocabulary[g] ELSE 0

WeightOf(g) == IF g \in DOMAIN archive.vocabulary THEN archive.idf[g] ELSE 0

\* Every element of a column was set for a gram of query q that is not left.
Placed(vector, q, left) ==
    \A r \in DOMAIN vector : \E g \in Grams(q) \ left : r = RowOf(g)

ColumnInv(t) ==
    /\ column[t] \in [DOMAIN column[t] -> Nat]
    /\ pc[t] = "idle" => column[t] = <<>>
    /\ pc[t] \in {"transform", "knn"} =>
          /\ query[t] \in Queries
          /\ Weighed(column[t], query[t], ToSet(todo[t]))
          /\ Placed(column[t], query[t], ToSet(todo[t]))

\* k is a multiple of FirstK, as MaxK is.
BoundInv(t) ==
    pc[t] \in {"knn", "return"} =>
       k[t] >= FirstK /\ \E n \in Nat : MaxK - k[t] = n * FirstK

\* If the query of thread t is a text of the index, that is among the results,
\* unless too many are alike.
TextFound(t) ==
    \A n \in DOMAIN index_texts :
       query[t] = index_texts[n] =>
          LET alike == {h \in Hits(column[t]) : h.confidence = 100}
          IN  Cardinality(alike) <= (IF rounds_below THEN FirstK ELSE MaxK) =>
                \E i \in DOMAIN results[t] : results[t][i] = IndexResult(n, 100)

ResultsInv(t) ==
    /\ results[t] = None \/
          \A i \in DOMAIN results[t] :
             results[t][i].result_index \in DOMAIN index_texts
    /\ pc[t] = "return" =>
          results[t] \in Seq(Hits(column[t])) /\ HasBest(t) /\ TextFound(t)
    /\ pc[t] = "done" => results[t] = None \/ (index_texts # <<>> /\ TextFound(t))

ThreadInv(t) == TodoInv(t) /\ ColumnInv(t) /\ BoundInv(t) /\ ResultsInv(t)

ThreadsType ==
    /\ rounds_below \in BOOLEAN
    /\ pc \in [Threads -> {"idle", "transform", "knn", "return", "done"}]
    /\ query \in [Threads -> Queries \cup {<<>>}]
    /\ access \in [Threads -> {"none", "read", "write"}]
    /\ k \in [Threads -> 0..MaxK]
    /\ DOMAIN todo = Threads /\ DOMAIN column = Threads /\ DOMAIN results = Threads

IInv == ThreadsType /\ IndexInv /\ \A t \in Threads : ThreadInv(t)

\* What there is of an index has the types that TypeOK gives it.
LEMMA IndexType ==
  ASSUME IndexInv
  PROVE  /\ index_texts \in Contents \cup {<<>>} /\ index_texts \in Seq(Seq(Nat))
         /\ DOMAIN vectorized_data = DOMAIN index_texts
         /\ archive # None => archive.texts \in Contents
         /\ DOMAIN vocabulary = DOMAIN idf
         /\ \A g \in DOMAIN vocabulary : vocabulary[g] \in Nat /\ idf[g] \in Nat
<1>1. CASE NotIndexed
  BY <1>1 DEF IndexInv, NotIndexed
<1>2. ASSUME NEW texts \in Contents, Indexed(texts)
      PROVE  /\ index_texts = texts /\ archive.texts = texts
             /\ DOMAIN vectorized_data = DOMAIN index_texts
             /\ \A g \in DOMAIN vocabulary : vocabulary[g] \in Nat
             /\ \A g \in DOMAIN idf : idf[g] \in Nat
  <2>1. /\ archive.texts = texts
        /\ archive.vocabulary = Fit(texts).vocabulary
        /\ archive.idf = Fit(texts).idf
        /\ DOMAIN archive.vectors = DOMAIN texts
    BY <1>2 DEF Indexed, IndexOf
  <2>2. \A g \in DOMAIN archive.vocabulary : archive.vocabulary[g] \in Nat
    BY <2>1, FitType
  <2>3. \A g \in DOMAIN archive.idf : archive.idf[g] \in Nat
    BY <2>1, FitType
  <2> QED
    BY <1>2, <2>1, <2>2, <2>3 DEF Indexed, Extends
<1>3. Contents \subseteq Seq(Seq(Nat))
  BY FuzzyIndexAssumption
<1> QED
  BY <1>1, <1>2, <1>3 DEF IndexInv

\* The vocabulary that the archive holds.
LEMMA ArchiveType ==
  ASSUME NEW texts \in Contents, Indexed(texts)
  PROVE  LET known == DOMAIN archive.vocabulary
         IN  /\ known \in SUBSET Gram /\ IsFiniteSet(known)
             /\ DOMAIN archive.idf = known
             /\ \A g \in known : /\ archive.vocabulary[g] = Place(known, g)
                                 /\ archive.idf[g] \in Nat
<1>1. /\ archive.vocabulary = Fit(texts).vocabulary
      /\ archive.idf = Fit(texts).idf
  BY DEF Indexed, IndexOf
<1> QED
  BY <1>1, FitType

\* A query is a text, or none.
LEMMA QueryType ==
  ASSUME ThreadsType, NEW t \in Threads
  PROVE  query[t] \in Seq(Nat)
<1>1. query[t] \in Queries \cup {<<>>}
  BY DEF ThreadsType
<1>2. Queries \subseteq Seq(Nat) /\ <<>> \in Seq(Nat)
  BY FuzzyIndexAssumption
<1> QED
  BY <1>1, <1>2

\* What a step of another thread leaves as it is.
LEMMA OtherThread ==
  ASSUME NEW t \in Threads, ThreadInv(t), UNCHANGED indexVars,
         pc'[t] = pc[t], query'[t] = query[t], todo'[t] = todo[t],
         access'[t] = access[t], column'[t] = column[t], k'[t] = k[t],
         results'[t] = results[t]
  PROVE  ThreadInv(t)'
<1>1. /\ index_texts' = index_texts /\ vectorized_data' = vectorized_data
      /\ archive' = archive /\ rounds_below' = rounds_below
  BY DEF indexVars
<1>2. TodoInv(t)'
  BY DEF ThreadInv, TodoInv
<1>3. ColumnInv(t)'
  BY <1>1 DEF ThreadInv, ColumnInv, Weighed, PartWeight, Placed, RowOf
<1>4. BoundInv(t)'
  BY DEF ThreadInv, BoundInv
<1>5. ResultsInv(t)'
  BY <1>1 DEF ThreadInv, ResultsInv, HasBest, TextFound, Hits
<1> QED
  BY <1>2, <1>3, <1>4, <1>5 DEF ThreadInv

\* A step of a search leaves the index as it is, if it does not insert.
LEMMA SameIndex ==
  ASSUME IndexInv, UNCHANGED <<indexVars, mapVars>>,
         \/ index_texts # <<>>
         \/ \A t \in Threads : pc'[t] \in {"idle", "done"}
  PROVE  IndexInv'
<1>1. /\ index_texts' = index_texts /\ vectorized_data' = vectorized_data
      /\ archive' = archive /\ vocabulary' = vocabulary /\ idf' = idf
  BY DEF indexVars, mapVars
<1>2. CASE NotIndexed
  BY <1>1, <1>2 DEF IndexInv, NotIndexed
<1>3. ASSUME NEW texts \in Contents \ {<<>>}, Indexed(texts)
      PROVE  Indexed(texts)'
  BY <1>1, <1>3 DEF Indexed, Extends, IndexOf
<1> QED
  BY <1>1, <1>2, <1>3 DEF IndexInv

\* There is an index while a search is under way.
LEMMA SearchIndexed ==
  ASSUME IndexInv, NEW t \in Threads, pc[t] \notin {"idle", "done"}
  PROVE  index_texts # <<>> /\ \E texts \in Contents : Indexed(texts)
BY DEF IndexInv, NotIndexed, Indexed

LEMMA NothingLeft == \A q : InOrder(q, <<>>)
BY DEF InOrder

-----------------------------------------------------------------------------
(* A text that is searched for.                                            *)

\* The vector of a text of the index that is searched for is the one it has
\* there.
LEMMA TextColumn ==
  ASSUME NEW texts \in Contents, Indexed(texts), NEW n \in DOMAIN texts,
         NEW vector, vector \in [DOMAIN vector -> Nat],
         Weighed(vector, texts[n], {}), Placed(vector, texts[n], {})
  PROVE  vector = vectorized_data[n]
<1> DEFINE q == texts[n]
           G == Grams(q)
           known == DOMAIN archive.vocabulary
           row(g) == archive.vocabulary[g]
           value(g) == Tf(q, g) * archive.idf[g]
           rows == {row(g) : g \in G}
           gram(r) == CHOOSE g \in G : row(g) = r
<1>1. /\ archive = IndexOf(texts) /\ vectorized_data = archive.vectors
      /\ archive.vocabulary = Fit(texts).vocabulary /\ archive.idf = Fit(texts).idf
  BY DEF Indexed, IndexOf
<1>2. q \in Seq(Nat)
  BY FuzzyIndexAssumption
<1>3. /\ known \in SUBSET Gram /\ IsFiniteSet(known) /\ G \subseteq known
      /\ \A g \in known : row(g) = Place(known, g)
      /\ \A g \in known : archive.idf[g] \in Nat \ {0}
  BY <1>1, FitType
<1>4. vectorized_data[n] = [r \in rows |-> Tf(q, gram(r)) * archive.idf[gram(r)]]
  <2>1. vectorized_data[n] = TextVector(Fit(texts), q)
    BY <1>1 DEF IndexOf
  <2> QED
    BY <1>1, <2>1 DEF TextVector
<1>5. \A g, h \in known : row(g) = row(h) => g = h
  <2> HIDE DEF known, row
  <2> QED
    BY <1>3, RowsDistinct
<1>6. ASSUME NEW g \in G
      PROVE  Element(vector, row(g)) = value(g) /\ value(g) \in Nat \ {0}
  <2>1. g \in known /\ Tf(q, g) \in Nat \ {0} /\ archive.idf[g] \in Nat \ {0}
    BY <1>2, <1>3, GramsType
  <2>2. Element(vector, row(g)) = PartWeight(q, {}, g)
    BY <2>1 DEF Weighed
  <2>3. PartWeight(q, {}, g) = value(g)
    BY <1>3 DEF PartWeight
  <2>4. \A x, y \in Nat \ {0} : x * y \in Nat \ {0}
    OBVIOUS
  <2> QED
    BY <2>1, <2>2, <2>3, <2>4
<1>7. \A g \in G : row(g) \in DOMAIN vector /\ vector[row(g)] = value(g)
  <2> HIDE DEF G, row, value
  <2> QED
    BY <1>6 DEF Element
<1>8. DOMAIN vector = rows
  <2>1. \A g \in G : RowOf(g) = row(g)
    BY <1>3 DEF RowOf
  <2>2. \A r \in DOMAIN vector : \E g \in G : r = row(g)
    BY <2>1 DEF Placed
  <2> HIDE DEF G, row
  <2> QED
    BY <1>7, <2>2
<1>9. ASSUME NEW r \in rows PROVE vector[r] = value(gram(r))
  <2>1. gram(r) \in G /\ row(gram(r)) = r
    OBVIOUS
  <2> HIDE DEF gram, G, row, value
  <2> QED
    BY <1>7, <2>1
<1>10. vector = [r \in rows |-> vector[r]]
  BY <1>8
<1>11. [r \in rows |-> vector[r]] = [r \in rows |-> value(gram(r))]
  <2> HIDE DEF rows, value, gram
  <2> QED
    BY <1>9
<1>12. [r \in rows |-> value(gram(r))] = vectorized_data[n]
  BY <1>4
<1> HIDE DEF rows, value, gram
<1> QED
  BY <1>10, <1>11, <1>12

\* A text that is searched for is as near as can be.
LEMMA TextIsNear ==
  ASSUME NEW texts \in Contents, Indexed(texts), NEW n \in DOMAIN texts,
         NEW vector, vector \in [DOMAIN vector -> Nat],
         Weighed(vector, texts[n], {}), Placed(vector, texts[n], {})
  PROVE  IndexResult(n, 100) \in Hits(vector)
<1> DEFINE q == texts[n]
           known == DOMAIN archive.vocabulary
           u == vectorized_data[n]
<1>1. vector = u
  BY TextColumn
<1>2. /\ archive = IndexOf(texts) /\ vectorized_data = archive.vectors
      /\ archive.vocabulary = Fit(texts).vocabulary /\ archive.idf = Fit(texts).idf
  BY DEF Indexed, IndexOf
<1>3. q \in Seq(Nat) /\ Grams(q) # {} /\ IsFiniteSet(Grams(q))
  BY FuzzyIndexAssumption, GramsType
<1>4. Grams(q) \subseteq known /\ \A g \in known : archive.idf[g] \in Nat \ {0}
  BY <1>2, FitType
<1>5. /\ DOMAIN u = {archive.vocabulary[g] : g \in Grams(q)}
      /\ \A r \in DOMAIN u : \E g \in Grams(q) : u[r] = Tf(q, g) * archive.idf[g]
  <2> DEFINE rows == {archive.vocabulary[g] : g \in Grams(q)}
             gram(r) == CHOOSE g \in Grams(q) : archive.vocabulary[g] = r
  <2>1. u = [r \in rows |-> Tf(q, gram(r)) * archive.idf[gram(r)]]
    <3>1. u = TextVector(Fit(texts), q)
      BY <1>2 DEF IndexOf
    <3> QED
      BY <1>2, <3>1 DEF TextVector
  <2>2. ASSUME NEW r \in rows PROVE gram(r) \in Grams(q)
    OBVIOUS
  <2> HIDE DEF gram, u, q
  <2> QED
    BY <2>1, <2>2
<1>6. DOMAIN u # {}
  BY <1>3, <1>5
<1>7. IsFiniteSet(DOMAIN u)
  <2>1. DOMAIN u = {archive.vocabulary[g] : g \in Grams(q)}
    BY <1>5
  <2> HIDE DEF u, q
  <2> DEFINE f == [g \in Grams(q) |-> archive.vocabulary[g]]
  <2>2. f \in Surjection(Grams(q), DOMAIN u)
    BY <2>1 DEF Surjection
  <2> QED
    BY <1>3, <2>2, FS_Surjection
<1>8. \A r \in DOMAIN u : u[r] \in Nat \ {0}
  <2> SUFFICES ASSUME NEW r \in DOMAIN u PROVE u[r] \in Nat \ {0}
    OBVIOUS
  <2>1. PICK g \in Grams(q) : u[r] = Tf(q, g) * archive.idf[g]
    BY <1>5
  <2>2. Tf(q, g) \in Nat \ {0} /\ archive.idf[g] \in Nat \ {0}
    BY <1>3, <1>4, GramsType
  <2>3. \A x, y \in Nat \ {0} : x * y \in Nat \ {0}
    OBVIOUS
  <2> QED
    BY <2>1, <2>2, <2>3
<1> HIDE DEF u
<1>9. Similarity(u, u) = 100
  BY <1>6, <1>7, <1>8, SimilaritySelf
<1>10. n \in DOMAIN vectorized_data
  BY <1>2 DEF IndexOf
<1> QED
  BY <1>1, <1>9, <1>10 DEF Hits, u

-----------------------------------------------------------------------------
(* Every step keeps the invariant.                                         *)

LEMMA InitInv == Init => IInv
<1> SUFFICES ASSUME Init PROVE IInv
  OBVIOUS
<1> USE DEF Init
<1>1. ThreadsType
  <2>1. 0 \in 0..MaxK
    <3>1. MaxK \in Nat
      BY FuzzyIndexAssumption
    <3> QED
      BY <3>1
  <2> QED
    BY <2>1 DEF ThreadsType
<1>2. IndexInv
  BY DEF IndexInv, NotIndexed
<1>3. ASSUME NEW t \in Threads PROVE ThreadInv(t)
  <2>1. TodoInv(t)
    BY NothingLeft DEF TodoInv
  <2>2. ColumnInv(t) /\ BoundInv(t)
    BY DEF ColumnInv, BoundInv
  <2>3. ResultsInv(t)
    BY DEF ResultsInv
  <2> QED
    BY <2>1, <2>2, <2>3 DEF ThreadInv
<1> QED
  BY <1>1, <1>2, <1>3 DEF IInv

LEMMA BuildInv ==
  ASSUME IInv, NEW texts \in Contents, Build(texts)
  PROVE  IInv'
<1>1. /\ ThreadsType /\ IndexInv /\ \A t \in Threads : ThreadInv(t)
      /\ index_texts = <<>> /\ texts # <<>>
      /\ UNCHANGED <<pc, query, todo, access, column, k, results>>
      /\ rounds_below' \in BOOLEAN
  BY DEF IInv, Build, SetIndex
<1>2. NotIndexed
  BY <1>1 DEF IndexInv, Indexed
<1>3. ThreadsType'
  BY <1>1 DEF ThreadsType
<1>4. IndexInv'
  <2>1. /\ archive' = IndexOf(texts) /\ index_texts' = texts
        /\ vectorized_data' = archive'.vectors
        /\ vocabulary' = archive'.vocabulary /\ idf' = archive'.idf
    BY DEF Build, SetIndex, IndexOf
  <2>2. Indexed(texts)'
    BY <2>1 DEF Indexed, Extends
  <2>3. DOMAIN vocabulary' = DOMAIN idf'
    BY <2>1, FitType DEF IndexOf
  <2> QED
    BY <1>1, <2>2, <2>3 DEF IndexInv
<1>5. ASSUME NEW t \in Threads PROVE ThreadInv(t)'
  <2>1. pc[t] \in {"idle", "done"} /\ ThreadInv(t)
    BY <1>1, <1>2 DEF NotIndexed
  <2>2. TodoInv(t)' /\ BoundInv(t)'
    BY <1>1, <2>1 DEF ThreadInv, TodoInv, BoundInv
  <2>3. ColumnInv(t)'
    BY <1>1, <2>1 DEF ThreadInv, ColumnInv
  <2>4. ResultsInv(t)'
    BY <1>1, <2>1 DEF ThreadInv, ResultsInv
  <2> QED
    BY <2>2, <2>3, <2>4 DEF ThreadInv
<1> QED
  BY <1>3, <1>4, <1>5 DEF IInv

LEMMA LoadInv ==
  ASSUME IInv, Load
  PROVE  IInv'
<1>1. /\ ThreadsType /\ IndexInv /\ \A t \in Threads : ThreadInv(t)
      /\ archive # None /\ \A t \in Threads : pc[t] = "idle"
      /\ index_texts' = archive.texts /\ vectorized_data' = archive.vectors
      /\ vocabulary' = archive.vocabulary /\ idf' = archive.idf
      /\ UNCHANGED <<archive, pc, query, todo, access, column, k, results>>
      /\ UNCHANGED rounds_below
  BY DEF IInv, Load, SetIndex
<1>2. PICK texts \in Contents \ {<<>>} : Indexed(texts)
  BY <1>1 DEF IndexInv, NotIndexed
<1>3. ThreadsType'
  BY <1>1 DEF ThreadsType
<1>4. /\ archive.texts = texts /\ index_texts = texts
      /\ archive.vectors = vectorized_data
  BY <1>2 DEF Indexed, IndexOf
<1>5. IndexInv'
  <2>1. Indexed(texts)'
    BY <1>1, <1>2, <1>4 DEF Indexed, Extends, IndexOf
  <2>2. DOMAIN vocabulary' = DOMAIN idf'
    BY <1>1, <1>2, ArchiveType
  <2> QED
    BY <2>1, <2>2 DEF IndexInv
<1>6. ASSUME NEW t \in Threads PROVE ThreadInv(t)'
  <2>1. UNCHANGED indexVars
    BY <1>1, <1>4 DEF indexVars
  <2> QED
    BY <1>1, <2>1, OtherThread
<1> QED
  BY <1>3, <1>5, <1>6 DEF IInv

LEMMA SearchInv ==
  ASSUME IInv, NEW t \in Threads, NEW q \in Queries, Search(t, q)
  PROVE  IInv'
<1>1. /\ ThreadsType /\ IndexInv /\ \A u \in Threads : ThreadInv(u)
      /\ pc[t] = "idle" /\ query' = [query EXCEPT ![t] = q]
      /\ UNCHANGED <<indexVars, mapVars, access, column, k>>
  BY DEF IInv, Search
<1>2. \/ /\ index_texts = <<>>
         /\ pc' = [pc EXCEPT ![t] = "done"]
         /\ results' = [results EXCEPT ![t] = None]
         /\ todo' = todo
      \/ /\ index_texts # <<>>
         /\ pc' = [pc EXCEPT ![t] = "transform"]
         /\ todo' = [todo EXCEPT ![t] = Sorted(Grams(q))]
         /\ results' = results
  BY DEF Search
<1>3. ThreadsType'
  BY <1>1, <1>2 DEF ThreadsType, indexVars
<1>4. IndexInv'
  <2>1. index_texts = <<>> => \A u \in Threads : pc'[u] \in {"idle", "done"}
    BY <1>1, <1>2 DEF IndexInv, NotIndexed, Indexed, ThreadsType
  <2> QED
    BY <1>1, <2>1, SameIndex
<1>5. ASSUME NEW u \in Threads, u # t PROVE ThreadInv(u)'
  <2>1. /\ pc'[u] = pc[u] /\ query'[u] = query[u] /\ todo'[u] = todo[u]
        /\ access'[u] = access[u] /\ column'[u] = column[u] /\ k'[u] = k[u]
        /\ results'[u] = results[u]
    BY <1>1, <1>2, <1>5 DEF ThreadsType
  <2> QED
    BY <1>1, <2>1, OtherThread
<1>6. ThreadInv(t)'
  <2>1. CASE index_texts = <<>>
    <3>1. /\ pc'[t] = "done" /\ results'[t] = None /\ todo'[t] = <<>>
          /\ column'[t] = column[t] /\ access'[t] = "none"
      BY <1>1, <1>2, <2>1 DEF ThreadsType, ThreadInv, TodoInv
    <3>2. TodoInv(t)' /\ BoundInv(t)' /\ ResultsInv(t)'
      BY <3>1, NothingLeft DEF TodoInv, BoundInv, ResultsInv
    <3>3. ColumnInv(t)'
      BY <1>1, <3>1 DEF ThreadInv, ColumnInv
    <3> QED
      BY <3>2, <3>3 DEF ThreadInv
  <2>2. CASE index_texts # <<>>
    <3>1. /\ pc'[t] = "transform" /\ results'[t] = results[t]
          /\ todo'[t] = Sorted(Grams(q)) /\ query'[t] = q
          /\ column'[t] = <<>> /\ index_texts' = index_texts
          /\ access'[t] = "none"
      BY <1>1, <1>2, <2>2
      DEF ThreadsType, ThreadInv, TodoInv, ColumnInv, indexVars
    <3>2. Grams(q) \in SUBSET Gram /\ IsFiniteSet(Grams(q))
      BY GramsType, FuzzyIndexAssumption
    <3>3. TodoInv(t)'
      <4>1. InOrder(q, Sorted(Grams(q)))
        BY <3>2, SortedLists DEF InOrder
      <4> QED
        BY <3>1, <4>1 DEF TodoInv
    <3>4. BoundInv(t)' /\ ResultsInv(t)'
      BY <1>1, <3>1 DEF ThreadInv, BoundInv, ResultsInv
    <3>5. ColumnInv(t)'
      <4>1. ToSet(todo'[t]) = Grams(query'[t])
        BY <3>1, <3>2, SortedLists
      <4>2. \A g : PartWeight(query[t], ToSet(todo[t]), g)' = 0
        BY <4>1 DEF PartWeight
      <4>3. \A r : Element(column[t], r)' = 0
        BY <3>1 DEF Element
      <4>4. Placed(column[t], query[t], ToSet(todo[t]))'
        BY <3>1 DEF Placed
      <4>5. Weighed(column[t], query[t], ToSet(todo[t]))'
        BY <4>2, <4>3 DEF Weighed
      <4>6. column'[t] \in [DOMAIN column'[t] -> Nat]
        BY <3>1
      <4> QED
        BY <3>1, <4>4, <4>5, <4>6 DEF ColumnInv
    <3> QED
      BY <3>3, <3>4, <3>5 DEF ThreadInv
  <2> QED
    BY <2>1, <2>2
<1> QED
  BY <1>3, <1>4, <1>5, <1>6 DEF IInv

LEMMA BeginLookupInv ==
  ASSUME IInv, NEW t \in Threads, BeginLookup(t)
  PROVE  IInv'
<1>1. /\ ThreadsType /\ IndexInv /\ \A u \in Threads : ThreadInv(u)
      /\ pc[t] = "transform" /\ todo[t] # <<>>
      /\ UNCHANGED <<indexVars, mapVars, pc, query, todo, column, k, results>>
      /\ access' = [access EXCEPT ![t] =
                       IF Head(todo[t]) \in DOMAIN vocabulary THEN "read" ELSE "write"]
  BY DEF IInv, BeginLookup
<1>2. ThreadsType'
  BY <1>1 DEF ThreadsType, indexVars
<1>3. IndexInv'
  BY <1>1, SearchIndexed, SameIndex
<1>4. ASSUME NEW u \in Threads, u # t PROVE ThreadInv(u)'
  <2>1. access'[u] = access[u]
    BY <1>1, <1>4 DEF ThreadsType
  <2> QED
    BY <1>1, <2>1, OtherThread
<1>5. ThreadInv(t)'
  <2>1. index_texts' = index_texts /\ archive' = archive
    BY <1>1 DEF indexVars
  <2>2. TodoInv(t)'
    BY <1>1 DEF ThreadInv, TodoInv
  <2>3. BoundInv(t)' /\ ResultsInv(t)'
    BY <1>1, <2>1 DEF ThreadInv, BoundInv, ResultsInv
  <2>4. ColumnInv(t)'
    BY <1>1, <2>1 DEF ThreadInv, ColumnInv, Weighed, PartWeight, Placed, RowOf
  <2> QED
    BY <2>2, <2>3, <2>4 DEF ThreadInv
<1> QED
  BY <1>2, <1>3, <1>4, <1>5 DEF IInv

\* FirstK, the first bound, divides MaxK.
LEMMA FirstBound ==
  /\ MaxK \in Nat /\ FirstK \in Nat \ {0} /\ FirstK <= MaxK
  /\ \E n \in Nat : MaxK - FirstK = n * FirstK
<1>1. PICK m \in 1..MaxK : MaxK = m * FirstK
  BY FuzzyIndexAssumption
<1>2. FirstK \in Nat \ {0} /\ MaxK \in Nat /\ m \in Nat /\ m >= 1
  BY <1>1, FuzzyIndexAssumption
<1>3. m - 1 \in Nat /\ m * FirstK - FirstK = (m - 1) * FirstK
      /\ (m - 1) * FirstK \in Nat
  BY <1>2
<1> QED
  BY <1>1, <1>2, <1>3

LEMMA TransformedInv ==
  ASSUME IInv, NEW t \in Threads, Transformed(t)
  PROVE  IInv'
<1>1. /\ ThreadsType /\ IndexInv /\ \A u \in Threads : ThreadInv(u)
      /\ pc[t] = "transform" /\ todo[t] = <<>>
      /\ pc' = [pc EXCEPT ![t] = "knn"] /\ k' = [k EXCEPT ![t] = FirstK]
      /\ UNCHANGED <<indexVars, mapVars, query, todo, access, column, results>>
  BY DEF IInv, Transformed
<1>2. ThreadsType'
  BY <1>1, FirstBound DEF ThreadsType, indexVars
<1>3. IndexInv'
  BY <1>1, SearchIndexed, SameIndex
<1>4. ASSUME NEW u \in Threads, u # t PROVE ThreadInv(u)'
  <2>1. /\ pc'[u] = pc[u] /\ query'[u] = query[u] /\ todo'[u] = todo[u]
        /\ access'[u] = access[u] /\ column'[u] = column[u] /\ k'[u] = k[u]
        /\ results'[u] = results[u]
    BY <1>1, <1>4 DEF ThreadsType
  <2> QED
    BY <1>1, <2>1, OtherThread
<1>5. ThreadInv(t)'
  <2>1. pc'[t] = "knn" /\ k'[t] = FirstK /\ archive' = archive
        /\ index_texts' = index_texts
    BY <1>1 DEF ThreadsType, indexVars
  <2>2. TodoInv(t)' /\ ResultsInv(t)'
    BY <1>1, <2>1 DEF ThreadInv, TodoInv, ResultsInv
  <2>3. ColumnInv(t)'
    BY <1>1, <2>1 DEF ThreadInv, ColumnInv, Weighed, PartWeight, Placed, RowOf
  <2>4. BoundInv(t)'
    BY <2>1, FirstBound DEF BoundInv
  <2> QED
    BY <2>2, <2>3, <2>4 DEF ThreadInv
<1> QED
  BY <1>2, <1>3, <1>4, <1>5 DEF IInv

LEMMA TakeInv ==
  ASSUME IInv, NEW t \in Threads, Take(t)
  PROVE  IInv'
<1>1. /\ ThreadsType /\ IndexInv /\ \A u \in Threads : ThreadInv(u)
      /\ pc[t] = "done" /\ pc' = [pc EXCEPT ![t] = "idle"]
      /\ query' = [query EXCEPT ![t] = <<>>] /\ results' = [results EXCEPT ![t] = <<>>]
      /\ k' = [k EXCEPT ![t] = 0] /\ column' = [column EXCEPT ![t] = <<>>]
      /\ UNCHANGED <<indexVars, mapVars, todo, access>>
  BY DEF IInv, Take
<1>2. ThreadsType'
  BY <1>1, FirstBound DEF ThreadsType, indexVars
<1>3. IndexInv'
  <2>1. index_texts = <<>> => \A u \in Threads : pc'[u] \in {"idle", "done"}
    BY <1>1 DEF IndexInv, NotIndexed, Indexed, ThreadsType
  <2> QED
    BY <1>1, <2>1, SameIndex
<1>4. ASSUME NEW u \in Threads, u # t PROVE ThreadInv(u)'
  <2>1. /\ pc'[u] = pc[u] /\ query'[u] = query[u] /\ todo'[u] = todo[u]
        /\ access'[u] = access[u] /\ column'[u] = column[u] /\ k'[u] = k[u]
        /\ results'[u] = results[u]
    BY <1>1, <1>4 DEF ThreadsType
  <2> QED
    BY <1>1, <2>1, OtherThread
<1>5. ThreadInv(t)'
  <2>1. /\ pc'[t] = "idle" /\ query'[t] = <<>> /\ results'[t] = <<>>
        /\ column'[t] = <<>> /\ todo'[t] = <<>> /\ access'[t] = "none"
    BY <1>1 DEF ThreadsType, ThreadInv, TodoInv
  <2>2. TodoInv(t)'
    BY <2>1, NothingLeft DEF TodoInv
  <2>3. ColumnInv(t)' /\ BoundInv(t)'
    BY <2>1 DEF ColumnInv, BoundInv
  <2>4. ResultsInv(t)'
    BY <2>1 DEF ResultsInv
  <2> QED
    BY <2>2, <2>3, <2>4 DEF ThreadInv
<1> QED
  BY <1>2, <1>3, <1>4, <1>5 DEF IInv

LEMMA KNNQueryInv ==
  ASSUME IInv, NEW t \in Threads, KNNQuery(t)
  PROVE  IInv'
<1> DEFINE hits == Hits(column[t])
<1>1. /\ ThreadsType /\ IndexInv /\ \A u \in Threads : ThreadInv(u)
      /\ pc[t] = "knn"
      /\ UNCHANGED <<indexVars, mapVars, query, todo, access, column>>
  BY DEF IInv, KNNQuery
<1>2. PICK S \in Nearest(hits, k[t]) :
         LET found == WorstFirst({h \in S : h.confidence >= MinConfidence})
         IN  /\ results' = [results EXCEPT ![t] = found]
             /\ IF Enough(found, k[t])
                THEN pc' = [pc EXCEPT ![t] = "return"] /\ UNCHANGED k
                ELSE k' = [k EXCEPT ![t] = @ + FirstK] /\ UNCHANGED pc
  BY DEF KNNQuery
<1> DEFINE found == WorstFirst({h \in S : h.confidence >= MinConfidence})
           left == {h \in hits \ ToSet(found) : h.confidence >= MinConfidence}
<1>3. /\ results' = [results EXCEPT ![t] = found]
      /\ \/ Enough(found, k[t]) /\ pc' = [pc EXCEPT ![t] = "return"] /\ k' = k
         \/ ~Enough(found, k[t]) /\ k' = [k EXCEPT ![t] = @ + FirstK] /\ pc' = pc
  BY <1>2
<1>4. /\ hits \in SUBSET Hit /\ IsFiniteSet(hits)
      /\ \A h \in hits : h.result_index \in DOMAIN index_texts
  BY <1>1, IndexType, HitsType
<1>5. k[t] \in Nat /\ k[t] >= FirstK /\ k[t] <= MaxK
  BY <1>1, FirstBound DEF ThreadsType, ThreadInv, BoundInv
<1>6. /\ found \in Seq(hits) /\ Cardinality(ToSet(found)) = Len(found)
      /\ \A i, j \in DOMAIN found : i < j => found[i].confidence <= found[j].confidence
      /\ \A g \in left, h \in ToSet(found) : g.confidence <= h.confidence
      /\ left # {} => Len(found) = k[t]
  <2> HIDE DEF hits
  <2> QED
    BY <1>2, <1>4, <1>5, RoundKeepsBest
<1> HIDE DEF found
<1>7. ~Enough(found, k[t]) => k[t] + FirstK <= MaxK
  BY <1>5, FirstBound DEF Enough
<1>8. ThreadsType'
  <2>1. k' \in [Threads -> 0..MaxK]
    <3>1. CASE k' = k
      BY <1>1, <3>1 DEF ThreadsType
    <3>2. CASE k' = [k EXCEPT ![t] = @ + FirstK] /\ k[t] + FirstK <= MaxK
      <4>1. k[t] + FirstK \in 0..MaxK
        BY <1>5, <3>2, FirstBound
      <4> QED
        BY <1>1, <3>2, <4>1 DEF ThreadsType
    <3> QED
      BY <1>3, <1>7, <3>1, <3>2
  <2>2. pc' \in [Threads -> {"idle", "transform", "knn", "return", "done"}]
    BY <1>1, <1>3 DEF ThreadsType
  <2> QED
    BY <1>1, <1>3, <2>1, <2>2 DEF ThreadsType, indexVars
<1>9. IndexInv'
  BY <1>1, SearchIndexed, SameIndex
<1>10. ASSUME NEW u \in Threads, u # t PROVE ThreadInv(u)'
  <2>1. /\ pc'[u] = pc[u] /\ query'[u] = query[u] /\ todo'[u] = todo[u]
        /\ access'[u] = access[u] /\ column'[u] = column[u] /\ k'[u] = k[u]
        /\ results'[u] = results[u]
    BY <1>1, <1>3, <1>10 DEF ThreadsType
  <2> QED
    BY <1>1, <2>1, OtherThread
<1>11. /\ index_texts' = index_texts /\ vectorized_data' = vectorized_data
       /\ archive' = archive /\ rounds_below' = rounds_below
       /\ results'[t] = found /\ column'[t] = column[t] /\ todo'[t] = todo[t]
       /\ query'[t] = query[t]
       /\ \/ Enough(found, k[t]) /\ pc'[t] = "return" /\ k'[t] = k[t]
          \/ ~Enough(found, k[t]) /\ k'[t] = k[t] + FirstK /\ pc'[t] = "knn"
  BY <1>1, <1>3 DEF ThreadsType, indexVars
<1>12. TodoInv(t)'
  BY <1>1, <1>11 DEF ThreadInv, TodoInv
<1>13. ColumnInv(t)'
  BY <1>1, <1>11 DEF ThreadInv, ColumnInv, Weighed, PartWeight, Placed, RowOf
<1>14. PICK n \in Nat : MaxK - k[t] = n * FirstK
  BY <1>1 DEF ThreadInv, BoundInv
<1>15. BoundInv(t)'
  <2>1. CASE k'[t] = k[t]
    BY <1>5, <1>14, <2>1 DEF BoundInv
  <2>2. CASE k'[t] = k[t] + FirstK /\ k[t] + FirstK <= MaxK
    <3>1. n # 0 /\ n - 1 \in Nat
      BY <1>5, <1>14, <2>2, FirstBound
    <3>2. MaxK - (k[t] + FirstK) = (n - 1) * FirstK
      BY <1>5, <1>14, <3>1, FirstBound
    <3>3. k'[t] >= FirstK
      BY <1>5, <2>2, FirstBound
    <3> QED
      BY <2>2, <3>1, <3>2, <3>3 DEF BoundInv
  <2> QED
    BY <1>7, <1>11, <2>1, <2>2
<1>16. ResultsInv(t)'
  <2>1. /\ \A i \in DOMAIN found : found[i] \in hits /\ found[i] \in ToSet(found)
        /\ Len(found) \in Nat
    BY <1>6, ToSetFinite
  <2>2. \A i \in DOMAIN found : found[i].result_index \in DOMAIN index_texts
    BY <1>4, <2>1
  <2>3. left # {} => Len(found) >= FirstK
    BY <1>5, <1>6, <2>1, FirstBound
  <2>4. ASSUME Enough(found, k[t]), NEW g \in left, g.confidence = 100, ~rounds_below
        PROVE  Len(found) = MaxK
    <3>1. Len(found) = k[t]
      BY <1>6, <2>4
    <3>2. found # <<>>
      BY <1>5, <3>1, FirstBound
    <3>3. \A i \in DOMAIN found : found[i].confidence = 100
      <4>1. \A h \in Hit : h.confidence \in 0..100
        BY DEF Hit
      <4>2. \A i \in DOMAIN found : 100 <= found[i].confidence
        BY <1>6, <2>1, <2>4
      <4>3. \A i \in DOMAIN found : found[i].confidence \in 0..100
        BY <1>4, <2>1, <4>1
      <4> QED
        BY <4>2, <4>3
    <3>4. k[t] + FirstK > MaxK
      BY <1>5, <2>4, <3>1, <3>2, <3>3 DEF Enough
    <3>5. n = 0
      <4> SUFFICES ASSUME n # 0 PROVE FALSE
        OBVIOUS
      <4>1. n - 1 \in Nat /\ (n - 1) * FirstK \in Nat
        BY FirstBound
      <4>2. n * FirstK = (n - 1) * FirstK + FirstK
        BY FirstBound
      <4> QED
        BY <1>5, <1>14, <3>4, <4>1, <4>2, FirstBound
    <3> QED
      BY <1>5, <1>14, <3>1, <3>5, FirstBound
  <2>5. Hits(column[t])' = hits
    BY <1>11 DEF Hits
  <2>6. pc'[t] = "return" => HasBest(t)'
    <3> SUFFICES ASSUME pc'[t] = "return" PROVE HasBest(t)'
      OBVIOUS
    <3>1. Enough(found, k[t])
      BY <1>11
    <3>2. (\E g \in left : g.confidence = 100) /\ ~rounds_below => Len(found) = MaxK
      BY <2>4, <3>1
    <3> HIDE DEF hits
    <3> QED
      BY <1>6, <1>11, <2>3, <2>5, <3>2 DEF HasBest
  <2>7. pc'[t] = "return" => TextFound(t)'
    <3> DEFINE bound == IF rounds_below THEN FirstK ELSE MaxK
               alike == {h \in hits : h.confidence = 100}
    <3> SUFFICES ASSUME pc'[t] = "return", NEW m \in DOMAIN index_texts,
                        query[t] = index_texts[m], Cardinality(alike) <= bound
                 PROVE  \E i \in DOMAIN found : found[i] = IndexResult(m, 100)
      BY <1>11, <2>5 DEF TextFound
    <3>1. Enough(found, k[t])
      BY <1>11
    <3>2. IndexResult(m, 100) \in hits
      <4>1. PICK texts \in Contents : Indexed(texts)
        BY <1>1, SearchIndexed
      <4>2. index_texts = texts
        BY <4>1 DEF Indexed
      <4>3. /\ todo[t] = <<>> /\ column[t] \in [DOMAIN column[t] -> Nat]
            /\ Weighed(column[t], query[t], ToSet(todo[t]))
            /\ Placed(column[t], query[t], ToSet(todo[t]))
        BY <1>1 DEF ThreadInv, TodoInv, ColumnInv
      <4>4. ToSet(todo[t]) = {}
        BY <4>3 DEF ToSet
      <4> QED
        BY <4>1, <4>2, <4>3, <4>4, TextIsNear
    <3> DEFINE g == IndexResult(m, 100)
    <3>3. g.confidence = 100
      BY DEF IndexResult
    <3>4. bound \in Nat /\ g \in hits
      BY <3>2, FirstBound
    <3> HIDE DEF g, hits
    <3>5. g \notin ToSet(found) =>
             (\A h \in ToSet(found) : g.confidence <= h.confidence) /\ Len(found) >= bound
      <4>0. g \notin ToSet(found) => g \in left
        BY <3>3, <3>4, FuzzyIndexAssumption
      <4>1. g \in left /\ ~rounds_below => Len(found) = MaxK
        BY <2>4, <3>1, <3>3
      <4>2. MaxK \in Nat /\ FirstK \in Nat /\ Len(found) \in Nat
        BY <2>1, FirstBound
      <4> HIDE DEF left
      <4> QED
        BY <1>6, <2>3, <4>0, <4>1, <4>2
    <3> HIDE DEF bound, left
    <3>6. \E i \in DOMAIN found : found[i] = g
      BY <1>4, <1>6, <3>3, <3>4, <3>5, PerfectKept
    <3> QED
      BY <3>6 DEF g
  <2>8. pc'[t] = "return" => results'[t] \in Seq(Hits(column[t])')
    BY <1>6, <1>11, <2>5
  <2>9. pc'[t] # "done"
    BY <1>11
  <2> QED
    BY <1>11, <2>2, <2>6, <2>7, <2>8, <2>9 DEF ResultsInv
<1> QED
  BY <1>8, <1>9, <1>10, <1>12, <1>13, <1>15, <1>16 DEF IInv, ThreadInv

\* Rescoring results returns some of them, and one of the text searched for
\* with full confidence.
LEMMA RescoreFinds ==
  ASSUME NEW S, NEW found \in Seq(S), NEW q \in Seq(Nat)
  PROVE  /\ \A i \in DOMAIN Rescore(q, found) : \E j \in DOMAIN found :
               Rescore(q, found)[i].result_index = found[j].result_index
         /\ \A j \in DOMAIN found : index_texts[found[j].result_index] = q =>
               \E i \in DOMAIN Rescore(q, found) :
                  Rescore(q, found)[i] = IndexResult(found[j].result_index, 100)
<1> DEFINE distance(r) == LevEditDistance(q, index_texts[r.result_index], TRUE, 0)
           rescored(r) ==
             IndexResult(r.result_index, Confidence(Len(q), distance(r)))
           T == {i \in DOMAIN found : rescored(found[i]).confidence >= MinConfidence}
           kept == SetToSeq(T)
           inOrder == SortBy(kept, kept)
<1>1. Rescore(q, found) = [i \in DOMAIN kept |-> rescored(found[inOrder[i]])]
  BY DEF Rescore
<1>2. \A r : rescored(r).result_index = r.result_index
  BY DEF IndexResult
<1>3. ASSUME NEW r, index_texts[r.result_index] = q
      PROVE  rescored(r) = IndexResult(r.result_index, 100)
  <2>1. distance(r) = 0
    BY <1>3, DistanceSelf
  <2>2. Len(q) \in Nat /\ ~(0 > Len(q))
    OBVIOUS
  <2> HIDE DEF distance
  <2> QED
    BY <2>1, <2>2 DEF Confidence
<1> HIDE DEF rescored
<1>4. T \in SUBSET (1..Len(found)) /\ DOMAIN found = 1..Len(found) /\ Len(found) \in Nat
  OBVIOUS
<1>5. ASSUME NEW j \in DOMAIN found, index_texts[found[j].result_index] = q
      PROVE  j \in T
  <2>1. rescored(found[j]) = IndexResult(found[j].result_index, 100)
    BY <1>3, <1>5
  <2>2. 100 >= MinConfidence
    BY FuzzyIndexAssumption
  <2> QED
    BY <2>1, <2>2 DEF IndexResult
<1> HIDE DEF T
<1>6. IsFiniteSet(T)
  BY <1>4, LengthCardinality, FS_Subset
<1>7. kept \in Seq(T) /\ ToSet(kept) = T
  BY <1>6, SetToSeqLists
<1> HIDE DEF kept
<1>8. Len(kept) \in Nat /\ DOMAIN kept = 1..Len(kept) /\ kept \in [1..Len(kept) -> Int]
      /\ \A i \in 1..Len(kept) : kept[i] \in T
  <2>1. /\ Len(kept) \in Nat /\ DOMAIN kept = 1..Len(kept)
        /\ \A i \in 1..Len(kept) : kept[i] \in T
        /\ kept = [i \in 1..Len(kept) |-> kept[i]]
    BY <1>7
  <2>2. \A i \in 1..Len(kept) : kept[i] \in Int
    BY <1>4, <2>1
  <2> QED
    BY <2>1, <2>2
<1>9. PICK at \in [1..Len(kept) -> 1..Len(kept)] :
         /\ inOrder = [p \in 1..Len(kept) |-> kept[at[p]]]
         /\ \A i \in 1..Len(kept) : \E p \in 1..Len(kept) : at[p] = i
  <2>1. \E at \in [1..Len(kept) -> 1..Len(kept)] :
           /\ SortBy(kept, kept) = [p \in 1..Len(kept) |-> kept[at[p]]]
           /\ \A i \in 1..Len(kept) : \E p \in 1..Len(kept) : at[p] = i
           /\ \A p, l \in 1..Len(kept) : p < l => kept[at[p]] <= kept[at[l]]
    BY <1>7, <1>8, SortByCorrect, Zenon
  <2> QED
    BY <2>1
<1> HIDE DEF inOrder
<1>10. \A i \in DOMAIN kept : inOrder[i] \in T
  BY <1>8, <1>9
<1>11. \A j \in T : \E i \in DOMAIN kept : inOrder[i] = j
  <2>1. \A j \in T : \E i \in 1..Len(kept) : kept[i] = j
    BY <1>7, <1>8 DEF ToSet
  <2> QED
    BY <1>8, <1>9, <2>1
<1>12. ASSUME NEW j \in DOMAIN found, index_texts[found[j].result_index] = q
       PROVE  \E i \in DOMAIN Rescore(q, found) :
                 Rescore(q, found)[i] = IndexResult(found[j].result_index, 100)
  <2>1. PICK i \in DOMAIN kept : inOrder[i] = j
    BY <1>5, <1>11, <1>12
  <2>2. rescored(found[j]) = IndexResult(found[j].result_index, 100)
    BY <1>3, <1>12
  <2> QED
    BY <1>1, <2>1, <2>2
<1>13. \A i \in DOMAIN Rescore(q, found) : \E j \in DOMAIN found :
          Rescore(q, found)[i].result_index = found[j].result_index
  <2> SUFFICES ASSUME NEW i \in DOMAIN kept
               PROVE  \E j \in DOMAIN found :
                         Rescore(q, found)[i].result_index = found[j].result_index
    BY <1>1
  <2>1. inOrder[i] \in DOMAIN found
    BY <1>4, <1>10
  <2>2. Rescore(q, found)[i] = rescored(found[inOrder[i]])
    BY <1>1
  <2>3. rescored(found[inOrder[i]]).result_index = found[inOrder[i]].result_index
    BY <1>2
  <2> QED
    BY <2>1, <2>2, <2>3
<1> QED
  BY <1>12, <1>13

LEMMA FinishInv ==
  ASSUME IInv, NEW t \in Threads, Finish(t)
  PROVE  IInv'
<1>1. /\ ThreadsType /\ IndexInv /\ \A u \in Threads : ThreadInv(u)
      /\ pc[t] = "return" /\ pc' = [pc EXCEPT ![t] = "done"]
      /\ results' = [results EXCEPT ![t] =
                        IF IsLong(query[t]) \/ HasLong(@) THEN Rescore(query[t], @)
                        ELSE Reverse(@)]
      /\ UNCHANGED <<indexVars, mapVars, query, todo, access, column, k>>
  BY DEF IInv, Finish
<1>2. ThreadsType'
  BY <1>1 DEF ThreadsType, indexVars
<1>3. IndexInv'
  BY <1>1, SearchIndexed, SameIndex
<1>4. ASSUME NEW u \in Threads, u # t PROVE ThreadInv(u)'
  <2>1. /\ pc'[u] = pc[u] /\ query'[u] = query[u] /\ todo'[u] = todo[u]
        /\ access'[u] = access[u] /\ column'[u] = column[u] /\ k'[u] = k[u]
        /\ results'[u] = results[u]
    BY <1>1, <1>4 DEF ThreadsType
  <2> QED
    BY <1>1, <2>1, OtherThread
<1>5. ThreadInv(t)'
  <2> DEFINE found == results[t]
             answer == results'[t]
  <2>1. /\ pc'[t] = "done" /\ index_texts' = index_texts
        /\ answer = Rescore(query[t], found) \/ answer = Reverse(found)
    BY <1>1 DEF ThreadsType, indexVars
  <2>2. TodoInv(t)' /\ BoundInv(t)'
    BY <1>1, <2>1 DEF ThreadInv, TodoInv, BoundInv
  <2>3. ColumnInv(t)'
    BY <1>1, <2>1 DEF ThreadInv, ColumnInv
  <2>4. found \in Seq(Hits(column[t]))
    BY <1>1 DEF ThreadInv, ResultsInv
  <2>5. \A h \in Hits(column[t]) : h.result_index \in DOMAIN index_texts
    BY <1>1, IndexType, HitsType
  <2>6. \A j \in DOMAIN found : found[j].result_index \in DOMAIN index_texts
    BY <2>4, <2>5
  <2>7. query[t] \in Seq(Nat)
    BY <1>1, QueryType
  <2>8. \A i \in DOMAIN answer : \E j \in DOMAIN found :
           answer[i].result_index = found[j].result_index
    <3>1. CASE answer = Rescore(query[t], found)
      <4> HIDE DEF found, answer
      <4> QED
        BY <2>4, <2>7, <3>1, RescoreFinds
    <3>2. CASE answer = Reverse(found)
      <4> HIDE DEF found, answer
      <4>1. /\ DOMAIN found = 1..Len(found) /\ Len(found) \in Nat
            /\ answer = [i \in 1..Len(found) |-> found[(Len(found) - i) + 1]]
        BY <2>4, <3>2 DEF Reverse
      <4>2. \A i \in 1..Len(found) : (Len(found) - i) + 1 \in 1..Len(found)
        BY <4>1
      <4> QED
        BY <4>1, <4>2
    <3> QED
      BY <2>1, <3>1, <3>2
  <2>9. TextFound(t)'
    <3>1. /\ query'[t] = query[t] /\ rounds_below' = rounds_below
          /\ Hits(column[t])' = Hits(column[t])
      BY <1>1 DEF indexVars, Hits
    <3>2. TextFound(t)
      BY <1>1 DEF ThreadInv, ResultsInv
    <3> SUFFICES ASSUME NEW m \in DOMAIN index_texts, query[t] = index_texts[m],
                        NEW j \in DOMAIN found, found[j] = IndexResult(m, 100)
                 PROVE  \E i \in DOMAIN answer : answer[i] = IndexResult(m, 100)
      BY <2>1, <3>1, <3>2 DEF TextFound
    <3>3. found[j].result_index = m
      BY DEF IndexResult
    <3>4. CASE answer = Rescore(query[t], found)
      <4> HIDE DEF found, answer
      <4> QED
        BY <2>4, <2>7, <3>3, <3>4, RescoreFinds
    <3>5. CASE answer = Reverse(found)
      <4> HIDE DEF found, answer
      <4>1. /\ DOMAIN found = 1..Len(found) /\ Len(found) \in Nat
            /\ answer = [i \in 1..Len(found) |-> found[(Len(found) - i) + 1]]
        BY <2>4, <3>5 DEF Reverse
      <4> DEFINE i == (Len(found) - j) + 1
      <4>2. i \in 1..Len(found) /\ (Len(found) - i) + 1 = j
        BY <4>1
      <4> QED
        BY <4>1, <4>2
    <3> QED
      BY <2>1, <3>4, <3>5
  <2>10. ResultsInv(t)'
    <3>1. \A i \in DOMAIN answer : answer[i].result_index \in DOMAIN index_texts
      BY <2>6, <2>8
    <3>2. index_texts' # <<>> /\ pc'[t] = "done"
      BY <1>1, <2>1, SearchIndexed
    <3> QED
      BY <2>1, <2>9, <3>1, <3>2 DEF ResultsInv
  <2> QED
    BY <2>2, <2>3, <2>10 DEF ThreadInv
<1> QED
  BY <1>2, <1>3, <1>4, <1>5 DEF IInv

\* Setting an element of a column leaves the others.
LEMMA SetElementSets ==
  ASSUME NEW vector, NEW row, NEW value
  PROVE  \A r : Element(SetElement(vector, row, value), r)
                  = IF r = row THEN value ELSE Element(vector, r)
BY DEF Element, SetElement

\* The column that it makes.
LEMMA SetElementType ==
  ASSUME NEW vector, vector \in [DOMAIN vector -> Nat], NEW row, NEW value \in Nat
  PROVE  /\ DOMAIN SetElement(vector, row, value) = DOMAIN vector \cup {row}
         /\ SetElement(vector, row, value)
              \in [DOMAIN SetElement(vector, row, value) -> Nat]
BY DEF SetElement

\* A map that has more keys still extends what was fitted.
LEMMA InsertedExtends ==
  ASSUME NEW base, NEW map, Extends(map, base), NEW gram
  PROVE  /\ Extends(Inserted(map, gram, 0), base)
         /\ DOMAIN Inserted(map, gram, 0) = DOMAIN map \cup {gram}
         /\ (IF gram \in DOMAIN map THEN map[gram] ELSE 0)
               = IF gram \in DOMAIN base THEN base[gram] ELSE 0
BY DEF Extends, Inserted

\* Taking the first of a sequence of grams in their order leaves those after
\* it.
LEMMA TailLeaves ==
  ASSUME NEW q \in Seq(Nat), NEW s, InOrder(q, s), s # <<>>
  PROVE  /\ Head(s) \in Grams(q) \cap ToSet(s)
         /\ InOrder(q, Tail(s)) /\ ToSet(Tail(s)) = ToSet(s) \ {Head(s)}
         /\ \A g \in Grams(q) \ ToSet(s) : Before(g, Head(s))
<1> DEFINE G == Grams(q)
<1>0. /\ G \in SUBSET Gram /\ s \in Seq(G)
      /\ \A i, j \in DOMAIN s : i < j => Before(s[i], s[j])
      /\ \A g \in G \ ToSet(s) : \A i \in DOMAIN s : Before(g, s[i])
  BY GramsType DEF InOrder
<1> HIDE DEF G
<1> DEFINE n == Len(s)
           rest == Tail(s)
<1>1. /\ n \in Nat /\ n >= 1 /\ DOMAIN s = 1..n /\ \A i \in 1..n : s[i] \in G
      /\ Head(s) = s[1]
  BY <1>0
<1>2. /\ rest \in Seq(G) /\ DOMAIN rest = 1..(n - 1)
      /\ \A i \in 1..(n - 1) : rest[i] = s[i + 1]
  BY <1>0, <1>1
<1> HIDE DEF n, rest
<1>3. \A i \in 1..(n - 1) : i + 1 \in 1..n /\ 1 < i + 1
  BY <1>1
<1>4. \A i \in 2..n : i \in 1..n /\ i - 1 \in 1..(n - 1) /\ (i - 1) + 1 = i /\ 1 < i
  BY <1>1
<1>5. 1 \in 1..n /\ \A i \in 1..n : i = 1 \/ i \in 2..n
  BY <1>1
<1>6. \A i \in 2..n : s[i] # s[1]
  BY <1>0, <1>1, <1>4, <1>5, BeforeOrder
<1>7. ToSet(rest) = ToSet(s) \ {Head(s)}
  <2>1. ToSet(rest) = {rest[i] : i \in 1..(n - 1)}
    BY <1>2 DEF ToSet
  <2>2. ToSet(s) = {s[i] : i \in 1..n}
    BY <1>1 DEF ToSet
  <2>3. \A i \in 1..(n - 1) : rest[i] \in ToSet(s) /\ rest[i] # s[1]
    <3>1. \A i \in 1..(n - 1) : i + 1 \in 2..n
      BY <1>1
    <3> QED
      BY <1>2, <1>3, <1>6, <2>2, <3>1
  <2>4. \A i \in 1..n : s[i] # s[1] => s[i] \in ToSet(rest)
    BY <1>2, <1>4, <1>5, <2>1
  <2> QED
    BY <1>1, <2>1, <2>2, <2>3, <2>4
<1>8. ASSUME NEW i \in DOMAIN rest, NEW j \in DOMAIN rest, i < j
      PROVE  Before(rest[i], rest[j])
  <2>1. i + 1 \in 1..n /\ j + 1 \in 1..n /\ i + 1 < j + 1
    BY <1>1, <1>2, <1>8
  <2> QED
    BY <1>0, <1>1, <1>2, <2>1
<1>9. ASSUME NEW g \in G \ ToSet(rest), NEW i \in DOMAIN rest
      PROVE  Before(g, rest[i])
  <2>1. i + 1 \in 1..n /\ 1 < i + 1 /\ rest[i] = s[i + 1]
    BY <1>2, <1>3
  <2>2. g \notin ToSet(s) \/ g = s[1]
    BY <1>1, <1>7
  <2> QED
    BY <1>0, <1>1, <1>5, <2>1, <2>2
<1>10. Head(s) \in ToSet(s)
  BY <1>1, <1>5 DEF ToSet
<1>11. InOrder(q, rest)
  BY <1>2, <1>8, <1>9 DEF InOrder, G
<1>12. \A g \in G \ ToSet(s) : Before(g, Head(s))
  BY <1>0, <1>1, <1>5
<1> QED
  BY <1>1, <1>5, <1>7, <1>10, <1>11, <1>12 DEF rest, G

\* Looking up the first of the grams that are left sets its element, or that
\* of row 0 if no text has it.
LEMMA LookupWeighs ==
  ASSUME NEW texts \in Contents, Indexed(texts),
         NEW q \in Seq(Nat), NEW s, InOrder(q, s), s # <<>>,
         NEW vector, Weighed(vector, q, ToSet(s)),
         NEW row, row = RowOf(Head(s)), NEW weight, weight = WeightOf(Head(s))
  PROVE  Weighed(SetElement(vector, row, Tf(q, Head(s)) * weight), q, ToSet(Tail(s)))
<1> DEFINE known == DOMAIN archive.vocabulary
           rows == archive.vocabulary
           gram == Head(s)
           left == ToSet(s)
           rest == ToSet(Tail(s))
           value == Tf(q, gram) * weight
           column2 == SetElement(vector, row, value)
<1>1. Grams(q) \in SUBSET Gram /\ Tf(q, gram) \in Nat
  BY GramsType
<1>2. /\ gram \in Grams(q) /\ gram \in left /\ rest = left \ {gram}
      /\ \A g \in Grams(q) \ left : Before(g, gram)
  BY TailLeaves
<1>3. /\ known \in SUBSET Gram
      /\ \A g, h \in known : rows[g] = rows[h] => g = h
      /\ \A g \in known : archive.idf[g] \in Nat
  <2>1. /\ known \in SUBSET Gram /\ IsFiniteSet(known)
        /\ \A g \in known : rows[g] = Place(known, g) /\ archive.idf[g] \in Nat
    BY ArchiveType
  <2> HIDE DEF known, rows
  <2> QED
    BY <2>1, RowsDistinct
<1>4. \A r : Element(column2, r) = IF r = row THEN value ELSE Element(vector, r)
  BY SetElementSets
<1> SUFFICES ASSUME NEW g \in known
             PROVE  Element(column2, rows[g]) = PartWeight(q, rest, g)
  BY DEF Weighed
<1>5. Element(vector, rows[g]) = PartWeight(q, left, g)
  BY DEF Weighed
<1> DEFINE seen == Grams(q) \ left
           seen2 == Grams(q) \ rest
           lost == rows[g] = 0 /\ \E u \in seen \ known : Before(g, u)
           lost2 == rows[g] = 0 /\ \E u \in seen2 \ known : Before(g, u)
<1>6. /\ PartWeight(q, left, g)
           = IF g \in seen /\ ~lost THEN Tf(q, g) * archive.idf[g] ELSE 0
      /\ PartWeight(q, rest, g)
           = IF g \in seen2 /\ ~lost2 THEN Tf(q, g) * archive.idf[g] ELSE 0
  BY DEF PartWeight
<1>7. seen2 = seen \cup {gram} /\ gram \notin seen /\ g \in Gram /\ gram \in Gram
  BY <1>1, <1>2, <1>3
<1>8. \A u \in seen : Before(u, gram) /\ u \in Gram
  BY <1>1, <1>2
<1>9. row = (IF gram \in known THEN rows[gram] ELSE 0)
      /\ weight = (IF gram \in known THEN archive.idf[gram] ELSE 0)
  BY DEF RowOf, WeightOf
<1> HIDE DEF known, rows, gram, left, rest, value, column2, seen, seen2
<1>10. CASE gram \in known /\ g = gram
  <2>1. ~lost2
    <3>1. \A u \in seen2 \ known : u \in seen
      BY <1>7, <1>10
    <3>2. \A u \in seen : ~Before(gram, u)
      BY <1>7, <1>8, BeforeOrder
    <3> QED
      BY <1>10, <3>1, <3>2
  <2>2. g \in seen2
    BY <1>7, <1>10
  <2>3. value = Tf(q, g) * archive.idf[g]
    BY <1>9, <1>10 DEF value, gram
  <2>4. Element(column2, rows[g]) = value
    BY <1>4, <1>9, <1>10
  <2> HIDE DEF lost2
  <2> QED
    BY <1>6, <2>1, <2>2, <2>3, <2>4
<1>11. CASE gram \in known /\ g # gram
  <2>1. rows[g] # row
    BY <1>3, <1>9, <1>11
  <2>2. seen2 \ known = seen \ known /\ (g \in seen2 <=> g \in seen)
    BY <1>7, <1>11
  <2>3. lost <=> lost2
    BY <2>2
  <2>4. PartWeight(q, left, g) = PartWeight(q, rest, g)
    <3> HIDE DEF lost, lost2
    <3> QED
      BY <1>6, <2>2, <2>3
  <2>5. Element(column2, rows[g]) = Element(vector, rows[g])
    BY <1>4, <2>1
  <2> QED
    BY <1>5, <2>4, <2>5
<1>12. CASE gram \notin known /\ rows[g] = 0
  <2>1. value = 0
    BY <1>1, <1>9, <1>12 DEF value, gram
  <2>2. Element(column2, rows[g]) = 0
    BY <1>4, <1>9, <1>12, <2>1
  <2>3. g \in seen2 => lost2
    <3>1. g # gram /\ gram \in seen2 \ known
      BY <1>7, <1>12
    <3>2. g \in seen2 => Before(g, gram)
      BY <1>7, <1>8, <3>1
    <3> QED
      BY <1>12, <3>1, <3>2
  <2> HIDE DEF lost2
  <2> QED
    BY <1>6, <2>2, <2>3
<1>13. CASE gram \notin known /\ rows[g] # 0
  <2>1. ~lost /\ ~lost2
    BY <1>13
  <2>2. g \in seen2 <=> g \in seen
    BY <1>7, <1>13
  <2>3. PartWeight(q, left, g) = PartWeight(q, rest, g)
    <3> HIDE DEF lost, lost2
    <3> QED
      BY <1>6, <2>1, <2>2
  <2>4. Element(column2, rows[g]) = Element(vector, rows[g])
    BY <1>4, <1>9, <1>13
  <2> QED
    BY <1>5, <2>3, <2>4
<1> QED
  BY <1>10, <1>11, <1>12, <1>13

LEMMA EndLookupInv ==
  ASSUME IInv, NEW t \in Threads, EndLookup(t)
  PROVE  IInv'
<1> DEFINE gram == Head(todo[t])
           row == IF gram \in DOMAIN vocabulary THEN vocabulary[gram] ELSE 0
           weight == IF gram \in DOMAIN idf THEN idf[gram] ELSE 0
           vector == SetElement(column[t], row, Tf(query[t], gram) * weight)
<1>1. /\ ThreadsType /\ IndexInv /\ \A u \in Threads : ThreadInv(u)
      /\ pc[t] = "transform"
      /\ UNCHANGED <<indexVars, pc, query, k, results>>
      /\ access' = [access EXCEPT ![t] = "none"]
  BY DEF IInv, EndLookup
<1>2. /\ vocabulary' = Inserted(vocabulary, gram, 0)
      /\ idf' = Inserted(idf, gram, 0)
      /\ column' = [column EXCEPT ![t] = vector]
      /\ todo' = [todo EXCEPT ![t] = Tail(@)]
  BY DEF EndLookup
<1>3. PICK texts \in Contents \ {<<>>} : Indexed(texts)
  BY <1>1 DEF IndexInv, NotIndexed
<1>4. InOrder(query[t], todo[t]) /\ todo[t] # <<>>
  BY <1>1 DEF EndLookup, ThreadInv, TodoInv
<1>5. query[t] \in Seq(Nat)
  BY <1>1, QueryType
<1>6. /\ index_texts' = index_texts /\ vectorized_data' = vectorized_data
      /\ archive' = archive /\ rounds_below' = rounds_below
  BY <1>1 DEF indexVars
<1>7. ThreadsType'
  BY <1>1, <1>2, <1>6 DEF ThreadsType
<1> HIDE DEF vector
<1>8. IndexInv'
  <2>1. /\ Extends(vocabulary, archive.vocabulary) /\ Extends(idf, archive.idf)
    BY <1>3 DEF Indexed
  <2>2. /\ Extends(vocabulary', archive.vocabulary) /\ Extends(idf', archive.idf)
        /\ DOMAIN vocabulary' = DOMAIN vocabulary \cup {gram}
        /\ DOMAIN idf' = DOMAIN idf \cup {gram}
    BY <1>2, <2>1, InsertedExtends
  <2>3. Indexed(texts)'
    BY <1>3, <1>6, <2>2 DEF Indexed, IndexOf, Extends
  <2> QED
    BY <1>1, <1>3, <2>2, <2>3 DEF IndexInv
<1>9. ASSUME NEW u \in Threads, u # t PROVE ThreadInv(u)'
  <2>1. /\ pc'[u] = pc[u] /\ query'[u] = query[u] /\ todo'[u] = todo[u]
        /\ access'[u] = access[u] /\ column'[u] = column[u] /\ k'[u] = k[u]
        /\ results'[u] = results[u]
    BY <1>1, <1>2, <1>9 DEF ThreadsType
  <2> QED
    BY <1>1, <2>1, OtherThread
<1>10. /\ column'[t] = vector /\ todo'[t] = Tail(todo[t]) /\ access'[t] = "none"
       /\ pc'[t] = "transform" /\ query'[t] = query[t] /\ results'[t] = results[t]
  BY <1>1, <1>2 DEF ThreadsType
<1>11. InOrder(query[t], Tail(todo[t]))
  BY <1>4, <1>5, TailLeaves
<1>12. TodoInv(t)'
  BY <1>10, <1>11 DEF TodoInv
<1>13. BoundInv(t)' /\ ResultsInv(t)'
  BY <1>1, <1>6, <1>10 DEF ThreadInv, BoundInv, ResultsInv
<1>14. ColumnInv(t)'
  <2>1. row = RowOf(gram) /\ weight = WeightOf(gram)
    <3>1. /\ Extends(vocabulary, archive.vocabulary) /\ Extends(idf, archive.idf)
      BY <1>3 DEF Indexed
    <3>2. DOMAIN archive.idf = DOMAIN archive.vocabulary
      BY <1>3, ArchiveType
    <3> HIDE DEF gram
    <3> QED
      BY <3>1, <3>2, InsertedExtends DEF RowOf, WeightOf
  <2>2. /\ query[t] \in Queries /\ Weighed(column[t], query[t], ToSet(todo[t]))
        /\ Placed(column[t], query[t], ToSet(todo[t]))
        /\ column[t] \in [DOMAIN column[t] -> Nat]
    BY <1>1 DEF ThreadInv, ColumnInv
  <2> HIDE DEF row, weight
  <2>3. Weighed(vector, query[t], ToSet(Tail(todo[t])))
    BY <1>3, <1>4, <1>5, <2>1, <2>2, LookupWeighs DEF vector
  <2>4. Tf(query[t], gram) * weight \in Nat
    <3>1. Tf(query[t], gram) \in Nat
      BY <1>5, GramsType
    <3>2. weight \in Nat
      BY <1>3, <2>1, ArchiveType DEF WeightOf
    <3> HIDE DEF gram
    <3> QED
      BY <3>1, <3>2
  <2>5. vector \in [DOMAIN vector -> Nat] /\ DOMAIN vector = DOMAIN column[t] \cup {row}
    BY <2>2, <2>4, SetElementType DEF vector
  <2>6. Placed(vector, query[t], ToSet(Tail(todo[t])))
    <3>1. /\ gram \in Grams(query[t]) \cap ToSet(todo[t])
          /\ ToSet(Tail(todo[t])) = ToSet(todo[t]) \ {gram}
      BY <1>4, <1>5, TailLeaves
    <3>2. \A r \in DOMAIN column[t] : \E g \in Grams(query[t]) \ ToSet(todo[t]) :
             r = RowOf(g)
      BY <2>2 DEF Placed
    <3> HIDE DEF gram
    <3> QED
      BY <2>1, <2>5, <3>1, <3>2 DEF Placed
  <2>7. Weighed(column[t], query[t], ToSet(todo[t]))'
    BY <1>6, <1>10, <2>3 DEF Weighed, PartWeight
  <2>8. Placed(column[t], query[t], ToSet(todo[t]))'
    BY <1>6, <1>10, <2>6 DEF Placed, RowOf
  <2> QED
    BY <1>10, <2>2, <2>5, <2>7, <2>8 DEF ColumnInv
<1> QED
  BY <1>7, <1>8, <1>9, <1>12, <1>13, <1>14 DEF IInv, ThreadInv

LEMMA NextInv == IInv /\ [Next]_vars => IInv'
<1> SUFFICES ASSUME IInv, [Next]_vars PROVE IInv'
  OBVIOUS
<1>1. ASSUME NEW texts \in Contents, Build(texts) PROVE IInv'
  BY <1>1, BuildInv
<1>2. CASE Load
  BY <1>2, LoadInv
<1>3. ASSUME NEW t \in Threads, Step(t) PROVE IInv'
  BY <1>3, BeginLookupInv, EndLookupInv, TransformedInv, KNNQueryInv, FinishInv
  DEF Step
<1>4. ASSUME NEW t \in Threads, Take(t) PROVE IInv'
  BY <1>4, TakeInv
<1>5. ASSUME NEW t \in Threads, NEW q \in Queries, Search(t, q) PROVE IInv'
  BY <1>5, SearchInv
<1>6. CASE UNCHANGED vars
  <2>1. /\ ThreadsType /\ IndexInv /\ \A t \in Threads : ThreadInv(t)
        /\ UNCHANGED <<indexVars, mapVars, pc, query, todo, access, column, k, results>>
    BY <1>6 DEF IInv, vars
  <2>2. ThreadsType'
    BY <2>1 DEF ThreadsType, indexVars
  <2>3. IndexInv'
    BY <2>1, SameIndex DEF IndexInv, NotIndexed, Indexed
  <2>4. ASSUME NEW t \in Threads PROVE ThreadInv(t)'
    BY <2>1, OtherThread
  <2> QED
    BY <2>2, <2>3, <2>4 DEF IInv
<1> QED
  BY <1>1, <1>2, <1>3, <1>4, <1>5, <1>6 DEF Next

\* The invariant holds in every state.
THEOREM Invariant == Spec => []IInv
BY InitInv, NextInv, PTL DEF Spec

-----------------------------------------------------------------------------
(* What follows from it.                                                   *)

\* Every variable keeps its type, both maps of the vectorizer (tfidf_vectorizer
\* .cpp:200-201) have the same keys, the bound on the number of results never
\* passes max_k (fuzzy_index.hpp:137-178), and every result refers to a text of
\* the index.
THEOREM TypeCorrect == Spec => []TypeOK
<1>1. IInv => TypeOK
  <2> SUFFICES ASSUME IInv PROVE TypeOK
    OBVIOUS
  <2>1. /\ ThreadsType /\ IndexInv /\ \A t \in Threads : ThreadInv(t)
    BY DEF IInv
  <2>2. ASSUME NEW t \in Threads
        PROVE  /\ ToSet(todo[t]) \subseteq Grams(query[t])
               /\ \A r \in DOMAIN column[t] : column[t][r] \in Nat
               /\ results[t] = None \/ \A i \in DOMAIN results[t] :
                     results[t][i].result_index \in DOMAIN index_texts
    <3>1. todo[t] \in Seq(Grams(query[t]))
      BY <2>1 DEF ThreadInv, TodoInv, InOrder
    <3>2. ToSet(todo[t]) \subseteq Grams(query[t])
      BY <3>1, ToSetFinite
    <3> QED
      BY <2>1, <3>2 DEF ThreadInv, ColumnInv, ResultsInv
  <2> QED
    BY <2>1, <2>2, IndexType DEF TypeOK, ThreadsType
<1> QED
  BY <1>1, Invariant, PTL

\* The vector of a query depends on the query and on the texts only, whatever
\* the searches before it, and those of other threads, inserted into the maps
\* of the vectorizer (tfidf_vectorizer.cpp:200-201).
THEOREM SearchesIndependent == Spec => []VectorStable
<1>1. IInv => VectorStable
  <2> SUFFICES ASSUME IInv, NEW t \in Threads, pc[t] = "knn",
                      NEW g \in DOMAIN archive.vocabulary
               PROVE  Element(column[t], archive.vocabulary[g]) = Weight(query[t], g)
    BY DEF VectorStable
  <2> DEFINE known == DOMAIN archive.vocabulary
             seen == Grams(query[t])
             first == \A h \in known \ {g} : Before(g, h)
             after == \E u \in seen \ known : Before(g, u)
  <2>1. PICK texts \in Contents : Indexed(texts)
    BY SearchIndexed DEF IInv
  <2>2. todo[t] = <<>> /\ Weighed(column[t], query[t], ToSet(todo[t]))
    BY DEF IInv, ThreadInv, TodoInv, ColumnInv
  <2>3. ToSet(todo[t]) = {}
    BY <2>2 DEF ToSet
  <2>4. Element(column[t], archive.vocabulary[g]) = PartWeight(query[t], {}, g)
    BY <2>2, <2>3 DEF Weighed
  <2>5. archive.vocabulary[g] = 0 <=> first
    <3>1. /\ known \in SUBSET Gram /\ IsFiniteSet(known)
          /\ archive.vocabulary[g] = Place(known, g)
      BY <2>1, ArchiveType
    <3> HIDE DEF known
    <3>2. Place(known, g) = 0 <=> \A h \in known \ {g} : Before(g, h)
      BY <3>1, RowsDistinct DEF known
    <3> QED
      BY <3>1, <3>2
  <2>6. PartWeight(query[t], {}, g)
          = IF g \in seen /\ ~(archive.vocabulary[g] = 0 /\ after)
            THEN Tf(query[t], g) * archive.idf[g] ELSE 0
    BY DEF PartWeight
  <2>7. Weight(query[t], g) = IF g \in seen /\ ~(first /\ after)
                              THEN Tf(query[t], g) * archive.idf[g] ELSE 0
    BY DEF Weight
  <2> HIDE DEF seen, first, after
  <2> QED
    BY <2>4, <2>5, <2>6, <2>7
<1> QED
  BY <1>1, Invariant, PTL

\* The loop over k (fuzzy_index.hpp:142-178) ends with the best results, in
\* order, and leaves one above the threshold out only for the reasons that
\* BestKept names.
THEOREM BestReturned == Spec => []BestKept
<1>1. IInv => BestKept
  BY DEF IInv, ThreadInv, ResultsInv, BestKept
<1> QED
  BY <1>1, Invariant, PTL

\* A text of the index is found when it is searched for, with full confidence,
\* unless more texts are alike than the loop over k (fuzzy_index.hpp:142-178)
\* is bound to, whether the results are rescored (fuzzy_index.hpp:189-210)
\* or not.
THEOREM TextsFound == Spec => []ExactFound
<1>1. IInv => ExactFound
  BY DEF IInv, ThreadInv, ResultsInv, TextFound, ExactFound
<1> QED
  BY <1>1, Invariant, PTL
=============================================================================
