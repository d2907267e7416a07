------------------------------ MODULE DataLemmas ------------------------------
(***************************************************************************)
(* Facts about sets of naturals, sequences and sorting that the proofs     *)
(* about the components share.                                             *)
(*                                                                         *)
(* The library states induction for a predicate, which the provers cannot  *)
(* be given; the least counterexample of a set of naturals does the same.  *)
(***************************************************************************)
EXTENDS StableSort, SequencesExt, SequenceTheorems, FiniteSetTheorems,
        WellFoundedInduction, TLAPS

(* Naturals.                                                               *)

\* A set of naturals that is not empty has a least element.
THEOREM LeastNatural ==
  ASSUME NEW T \in SUBSET Nat, T # {}
  PROVE  \E x \in T : \A y \in T : x <= y
<1> DEFINE R == OpToRel(<, Nat)
<1>1. IsWellFoundedOn(R, Nat)
  BY NatLessThanWellFounded
<1>2. \A x, y \in Nat : y < x => <<y, x>> \in R
  BY DEF OpToRel
<1> HIDE DEF R
<1>3. PICK x \in T : \A y \in T : ~ (<<y, x>> \in R)
  <2>1. T \subseteq Nat
    OBVIOUS
  <2> QED
    BY <1>1, <2>1, WFMin
<1>4. x \in Nat
  OBVIOUS
<1>5. ASSUME NEW y \in T PROVE x <= y
  <2>1. y \in Nat
    OBVIOUS
  <2>2. ~ (y < x)
    BY <1>2, <1>3, <1>4, <2>1
  <2> QED
    BY <1>4, <2>1, <2>2
<1> QED
  BY <1>4, <1>5

\* A bounded set of naturals that is not empty has a greatest element.
THEOREM GreatestNatural ==
  ASSUME NEW n \in Nat, NEW T \in SUBSET (0..n), T # {}
  PROVE  \E x \in T : \A y \in T : y <= x
<1> DEFINE U == {m \in Nat : n - m \in T}
<1>1. U # {}
  <2>1. PICK t \in T : t \in 0..n
    OBVIOUS
  <2>2. n - t \in Nat /\ n - (n - t) = t
    BY <2>1
  <2> QED
    BY <2>1, <2>2
<1>2. PICK u \in U : \A v \in U : u <= v
  <2>1. U \in SUBSET Nat
    OBVIOUS
  <2> HIDE DEF U
  <2> QED
    BY <1>1, <2>1, LeastNatural
<1>3. ASSUME NEW y \in T PROVE y <= n - u
  <2>1. y \in 0..n
    OBVIOUS
  <2>2. n - y \in Nat /\ n - (n - y) = y
    BY <2>1
  <2>3. n - y \in U
    BY <2>1, <2>2
  <2> QED
    BY <1>2, <2>1, <2>3
<1> QED
  BY <1>2, <1>3

\* Induction: what holds at 0 and passes from each number to the next holds
\* for every natural. S is the set of numbers it holds for.
THEOREM SetInduction ==
  ASSUME NEW S, 0 \in S, \A n \in Nat : n \in S => n + 1 \in S
  PROVE  Nat \subseteq S
<1> SUFFICES ASSUME Nat \ S # {} PROVE FALSE
  OBVIOUS
<1>1. PICK x \in Nat \ S : \A y \in Nat \ S : x <= y
  <2>1. Nat \ S \in SUBSET Nat
    OBVIOUS
  <2> QED
    BY <2>1, LeastNatural
<1>2. x - 1 \in Nat
  BY <1>1
<1>3. x - 1 \in S
  BY <1>1, <1>2
<1> QED
  BY <1>1, <1>2, <1>3

-----------------------------------------------------------------------------
(* Sequences.                                                              *)

\* A function on 1..n is a sequence of length n.
LEMMA FunctionIsSeq ==
  ASSUME NEW S, NEW n \in Nat, NEW f \in [1..n -> S]
  PROVE  f \in Seq(S) /\ Len(f) = n
<1>1. f \in Seq(S)
  <2>1. f \in UNION {[1..m -> S] : m \in Nat}
    BY Zenon
  <2> QED
    BY <2>1, SeqDef, Zenon
<1>2. Len(f) = n
  <2>1. DOMAIN f = 1..Len(f) /\ Len(f) \in Nat
    BY <1>1, LenProperties
  <2>2. 1..Len(f) = 1..n
    BY <2>1, Zenon
  <2> QED
    BY <2>1, <2>2
<1> QED
  BY <1>1, <1>2

\* RemoveAt takes out the element at i and moves up those behind it.
LEMMA RemoveAtProperties ==
  ASSUME NEW S, NEW s \in Seq(S), NEW i \in 1..Len(s)
  PROVE  /\ RemoveAt(s, i) \in Seq(S)
         /\ Len(RemoveAt(s, i)) = Len(s) - 1
         /\ \A j \in 1..(Len(s) - 1) :
               RemoveAt(s, i)[j] = IF j < i THEN s[j] ELSE s[j + 1]
<1> DEFINE front == SubSeq(s, 1, i - 1)
           back  == SubSeq(s, i + 1, Len(s))
<1>1. /\ front \in Seq(S)
      /\ Len(front) = i - 1
      /\ \A j \in 1..(i - 1) : front[j] = s[j]
  <2>1. \A j \in 1..(i - 1) : s[j] \in S
    BY ElementOfSeq
  <2> QED
    BY <2>1, SubSeqProperties
<1>2. /\ back \in Seq(S)
      /\ Len(back) = Len(s) - i
      /\ \A j \in 1..(Len(s) - i) : back[j] = s[i + j]
  <2>1. \A j \in (i + 1)..Len(s) : s[j] \in S
    BY ElementOfSeq
  <2> QED
    BY <2>1, SubSeqProperties
<1>3. RemoveAt(s, i) = front \o back
  BY DEF RemoveAt
<1> HIDE DEF front, back
<1>4. /\ front \o back \in Seq(S)
      /\ Len(front \o back) = Len(front) + Len(back)
      /\ \A j \in 1..(Len(front) + Len(back)) :
            (front \o back)[j] = IF j <= Len(front) THEN front[j]
                                 ELSE back[j - Len(front)]
  BY <1>1, <1>2, ConcatProperties
<1>5. Len(front) + Len(back) = Len(s) - 1
  BY <1>1, <1>2
<1>6. ASSUME NEW j \in 1..(Len(s) - 1)
      PROVE  RemoveAt(s, i)[j] = IF j < i THEN s[j] ELSE s[j + 1]
  <2>1. CASE j < i
    BY <1>1, <1>3, <1>4, <1>5, <2>1
  <2>2. CASE j >= i
    <3>1. j - (i - 1) \in 1..(Len(s) - i) /\ i + (j - (i - 1)) = j + 1
      BY <2>2
    <3>2. RemoveAt(s, i)[j] = back[j - (i - 1)]
      BY <1>1, <1>3, <1>4, <1>5, <2>2
    <3>3. back[j - (i - 1)] = s[i + (j - (i - 1))]
      BY <1>2, <3>1
    <3>4. ~ (j < i)
      BY <2>2
    <3> QED
      BY <3>1, <3>2, <3>3, <3>4
  <2> QED
    BY <2>1, <2>2
<1> QED
  BY <1>3, <1>4, <1>5, <1>6

-----------------------------------------------------------------------------
(* Sorting.                                                                *)

\* Counted from 1 or from 0, n positions are n.
LEMMA LengthCardinality ==
  ASSUME NEW n \in Nat
  PROVE  /\ IsFiniteSet(1..n) /\ Cardinality(1..n) = n
         /\ IsFiniteSet(0..(n - 1)) /\ Cardinality(0..(n - 1)) = n
<1>1. /\ IsFiniteSet(1..n)
      /\ Cardinality(1..n) = IF 1 > n THEN 0 ELSE n - 1 + 1
  BY FS_Interval
<1>2. /\ IsFiniteSet(0..(n - 1))
      /\ Cardinality(0..(n - 1)) = IF 0 > n - 1 THEN 0 ELSE (n - 1) - 0 + 1
  <2>1. 0 \in Int /\ n - 1 \in Int
    OBVIOUS
  <2> QED
    BY <2>1, FS_Interval
<1> QED
  BY <1>1, <1>2

\* A sequence without repetitions that is as long as a finite set has members
\* has all of them.
LEMMA InjectiveCovers ==
  ASSUME NEW n \in Nat, NEW S, IsFiniteSet(S), Cardinality(S) = n,
         NEW f \in [1..n -> S], \A i, j \in 1..n : i # j => f[i] # f[j]
  PROVE  \A x \in S : \E i \in 1..n : f[i] = x
<1>1. f \in Injection(1..n, S)
  BY DEF Injection, IsInjective
<1>2. f \in Surjection(1..n, S)
  BY <1>1, LengthCardinality, FS_Injection
<1> QED
  BY <1>2 DEF Surjection

\* A position has fewer before it than one that it precedes.
LEMMA RankOrders ==
  ASSUME NEW n \in Nat, NEW key \in [1..n -> Int], NEW i \in 1..n, NEW j \in 1..n
  PROVE  /\ Rank(key, i) \in 0..(n - 1)
         /\ Precedes(key, i, j) => Rank(key, i) < Rank(key, j)
<1> DEFINE Before(k) == {l \in 1..n : Precedes(key, l, k)}
<1>1. IsFiniteSet(1..n) /\ Cardinality(1..n) = n
  BY LengthCardinality
<1>2. \A k \in 1..n : /\ Before(k) \in SUBSET (1..n)
                      /\ Rank(key, k) = Cardinality(Before(k))
                      /\ k \notin Before(k)
  BY DEF Rank, Precedes
<1>3. Precedes(key, i, j) => Before(i) \cup {i} \subseteq Before(j)
  BY DEF Precedes
<1> HIDE DEF Before
<1>4. ASSUME NEW k \in 1..n
      PROVE  /\ Rank(key, k) \in Nat
             /\ IsFiniteSet(Before(k) \cup {k})
             /\ Cardinality(Before(k) \cup {k}) = Rank(key, k) + 1
  <2>1. IsFiniteSet(Before(k))
    BY <1>1, <1>2, FS_Subset
  <2>2. Cardinality(Before(k)) \in Nat
    BY <2>1, FS_CardinalityType
  <2> QED
    BY <1>2, <2>1, <2>2, FS_AddElement
<1>5. ASSUME NEW T, IsFiniteSet(T), Before(i) \cup {i} \in SUBSET T
      PROVE  Rank(key, i) + 1 <= Cardinality(T)
  <2>1. Cardinality(Before(i) \cup {i}) <= Cardinality(T)
    BY <1>5, FS_Subset
  <2> QED
    BY <2>1, <1>4
<1>6. Rank(key, i) \in 0..(n - 1)
  <2>1. Before(i) \cup {i} \in SUBSET (1..n)
    BY <1>2
  <2>2. Rank(key, i) + 1 <= n
    BY <2>1, <1>1, <1>5
  <2>3. Rank(key, i) \in Nat
    BY <1>4
  <2> QED
    BY <2>2, <2>3
<1>7. ASSUME Precedes(key, i, j) PROVE Rank(key, i) < Rank(key, j)
  <2>1. IsFiniteSet(Before(j))
    BY <1>1, <1>2, FS_Subset
  <2>2. Rank(key, i) + 1 <= Cardinality(Before(j))
    BY <2>1, <1>3, <1>5, <1>7
  <2>3. /\ Rank(key, j) = Cardinality(Before(j))
        /\ Rank(key, i) \in Nat /\ Rank(key, j) \in Nat
    BY <1>2, <1>4
  <2> QED
    BY <2>2, <2>3
<1> QED
  BY <1>6, <1>7

\* Sorting returns the same elements, each of them, in ascending order of
\* their keys: none is lost and none is made up, whatever ties there are.
THEOREM SortByCorrect ==
  ASSUME NEW S, NEW s \in Seq(S), NEW key \in [1..Len(s) -> Int]
  PROVE  \E at \in [1..Len(s) -> 1..Len(s)] :
            /\ SortBy(s, key) = [k \in 1..Len(s) |-> s[at[k]]]
            /\ \A i \in 1..Len(s) : \E k \in 1..Len(s) : at[k] = i
            /\ \A k, l \in 1..Len(s) : k < l => key[at[k]] <= key[at[l]]
<1> DEFINE n    == Len(s)
           at   == [k \in 1..n |-> CHOOSE i \in 1..n : Rank(key, i) = k - 1]
           rank == [i \in 1..n |-> Rank(key, i)]
<1>1. DOMAIN s = 1..n /\ n \in Nat
  BY LenProperties
<1> HIDE DEF n
<1>2. rank \in [1..n -> 0..(n - 1)]
  BY <1>1, RankOrders DEF n
<1>3. \A i, j \in 1..n : i # j => rank[i] # rank[j]
  <2> SUFFICES ASSUME NEW i \in 1..n, NEW j \in 1..n, i # j
               PROVE  rank[i] # rank[j]
    OBVIOUS
  <2>1. Precedes(key, i, j) \/ Precedes(key, j, i)
    BY <1>1 DEF Precedes, n
  <2>2. rank[i] < rank[j] \/ rank[j] < rank[i]
    BY <1>1, <2>1, RankOrders DEF n
  <2> QED
    BY <2>2, <1>2
<1>4. \A r \in 0..(n - 1) : \E i \in 1..n : rank[i] = r
  <2> DEFINE R == 0..(n - 1)
  <2>1. IsFiniteSet(R) /\ Cardinality(R) = n
    BY <1>1, LengthCardinality
  <2>2. rank \in [1..n -> R] /\ n \in Nat
    BY <1>1, <1>2
  <2> HIDE DEF rank, R, at
  <2>3. \A r \in R : \E i \in 1..n : rank[i] = r
    BY <1>3, <2>1, <2>2, InjectiveCovers
  <2> QED
    BY <2>3 DEF R
<1>5. \A k \in 1..n : at[k] \in 1..n /\ Rank(key, at[k]) = k - 1
  <2> SUFFICES ASSUME NEW k \in 1..n
               PROVE  \E i \in 1..n : Rank(key, i) = k - 1
    OBVIOUS
  <2>1. k - 1 \in 0..(n - 1)
    BY <1>1
  <2> QED
    BY <2>1, <1>4
<1>6. at \in [1..n -> 1..n]
  BY <1>5
<1>7. SortBy(s, key) = [k \in 1..n |-> s[at[k]]]
  BY <1>1 DEF SortBy, n
<1> HIDE DEF at
<1>8. ASSUME NEW i \in 1..n PROVE \E k \in 1..n : at[k] = i
  <2>1. rank[i] + 1 \in 1..n /\ (rank[i] + 1) - 1 = rank[i]
    BY <1>1, <1>2
  <2>2. at[rank[i] + 1] \in 1..n /\ Rank(key, at[rank[i] + 1]) = rank[i]
    BY <1>5, <2>1
  <2>3. at[rank[i] + 1] = i
    BY <1>3, <2>2
  <2> QED
    BY <2>1, <2>3
<1>9. ASSUME NEW k \in 1..n, NEW l \in 1..n, k < l
      PROVE  key[at[k]] <= key[at[l]]
  <2> DEFINE i == at[k]
             j == at[l]
  <2>1. i \in 1..n /\ j \in 1..n /\ Rank(key, i) < Rank(key, j)
    BY <1>1, <1>5, <1>9
  <2> HIDE DEF i, j
  <2>2. ~ Precedes(key, j, i)
    <3>1. /\ Precedes(key, j, i) => Rank(key, j) < Rank(key, i)
          /\ Rank(key, i) \in Int /\ Rank(key, j) \in Int
      BY <1>1, <2>1, RankOrders DEF n
    <3> QED
      BY <2>1, <3>1
  <2>3. key[i] <= key[j]
    BY <2>1, <2>2 DEF Precedes, n
  <2> QED
    BY <2>3 DEF i, j
<1> QED
  BY <1>6, <1>7, <1>8, <1>9 DEF n
=============================================================================
