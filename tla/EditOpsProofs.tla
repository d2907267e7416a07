---------------------------- MODULE EditOpsProofs ----------------------------
(***************************************************************************)
(* The functions of levenshtein.cpp for all strings: the distances are the *)
(* edit distance, the way back through the cost matrix that                *)
(* lev_editops_find takes never gets stuck, the operations it finds turn   *)
(* one string into the other, and the opcodes and the blocks made of them  *)
(* agree.                                                                  *)
(*                                                                         *)
(* The first two rest on what a matrix of costs is, IsMatrix: each         *)
(* function computes such a matrix, or enough of one, and the last cell of *)
(* any such matrix is the least cost of all ways to line the strings up.   *)
(* The others rest on what a way through the strings is, Way: operations   *)
(* between each two of which the strings have the same letters.            *)
(***************************************************************************)
EXTENDS EditOps, DataLemmas

-----------------------------------------------------------------------------
(* Recursive functions.                                                    *)

\* The function has base at its first argument, and step leads from there.
Recurs(f, lo, hi, base, step) ==
    \A x \in lo..hi : f[x] = IF x = lo THEN base ELSE step[x][f[x - 1]]

\* A function that is defined by a value at its first argument and a step from
\* each argument to the next exists.
LEMMA RecursionExists ==
  ASSUME NEW lo \in Int, NEW hi \in Int, NEW S, NEW base \in S,
         NEW step \in [lo..hi -> [S -> S]]
  PROVE  \E f \in [lo..hi -> S] : Recurs(f, lo, hi, base, step)
<1> DEFINE Solves(f, n) ==
             \A x \in lo..(lo + n) : f[x] = IF x = lo THEN base ELSE step[x][f[x - 1]]
           T == {n \in Nat : lo + n <= hi => \E f \in [lo..(lo + n) -> S] : Solves(f, n)}
<1>1. 0 \in T
  <2>1. [x \in lo..(lo + 0) |-> base] \in [lo..(lo + 0) -> S]
    OBVIOUS
  <2>2. Solves([x \in lo..(lo + 0) |-> base], 0)
    OBVIOUS
  <2> QED
    BY <2>1, <2>2
<1>2. ASSUME NEW n \in Nat, n \in T PROVE n + 1 \in T
  <2> SUFFICES ASSUME lo + (n + 1) <= hi
               PROVE  \E f \in [lo..(lo + (n + 1)) -> S] : Solves(f, n + 1)
    OBVIOUS
  <2>1. PICK f \in [lo..(lo + n) -> S] : Solves(f, n)
    BY <1>2
  <2> DEFINE last == lo + (n + 1)
             g == [x \in lo..last |-> IF x = last THEN step[last][f[lo + n]] ELSE f[x]]
  <2>2. /\ last \in lo..hi /\ last # lo /\ last - 1 = lo + n
        /\ \A x \in lo..last : x # last => x \in lo..(lo + n) /\ x - 1 # last
        /\ \A x \in lo..last : x # lo => x - 1 \in lo..(lo + n)
        /\ lo + n \in lo..(lo + n)
    OBVIOUS
  <2>3. step[last][f[lo + n]] \in S
    BY <2>2
  <2>4. g \in [lo..last -> S]
    BY <2>2, <2>3
  <2>5. ASSUME NEW x \in lo..last
        PROVE  g[x] = IF x = lo THEN base ELSE step[x][g[x - 1]]
    <3>1. CASE x = last
      <4>1. g[x - 1] = f[lo + n]
        BY <2>2, <3>1
      <4> QED
        BY <2>2, <3>1, <4>1
    <3>2. CASE x # last /\ x # lo
      BY <2>1, <2>2, <3>2
    <3>3. CASE x = lo
      BY <2>1, <2>2, <3>3
    <3> QED
      BY <3>1, <3>2, <3>3
  <2>6. Solves(g, n + 1)
    BY <2>5
  <2> HIDE DEF g, Solves
  <2> QED
    BY <2>4, <2>6
<1>3. Nat \subseteq T
  <2> HIDE DEF T
  <2> QED
    BY <1>1, <1>2, SetInduction
<1>4. CASE lo <= hi
  <2>1. hi - lo \in Nat /\ lo + (hi - lo) = hi
    BY <1>4
  <2>2. hi - lo \in T
    <3> HIDE DEF T
    <3> QED
      BY <1>3, <2>1
  <2>3. PICK f \in [lo..hi -> S] : Solves(f, hi - lo)
    BY <2>1, <2>2
  <2> QED
    BY <2>1, <2>3 DEF Recurs
<1>5. CASE hi < lo
  <2>1. lo..hi = {}
    BY <1>5
  <2> QED
    BY <2>1 DEF Recurs
<1> QED
  BY <1>4, <1>5

\* The values of a function are in a set that its first value is in and that
\* each value leads back to.
LEMMA RecursionType ==
  ASSUME NEW lo \in Int, NEW hi \in Int, NEW S, NEW f,
         f = [x \in lo..hi |-> f[x]], lo <= hi => f[lo] \in S,
         \A x \in lo..hi : x # lo /\ f[x - 1] \in S => f[x] \in S
  PROVE  f \in [lo..hi -> S]
<1> DEFINE T == {n \in Nat : lo + n <= hi => f[lo + n] \in S}
<1>1. 0 \in T
  OBVIOUS
<1>2. ASSUME NEW n \in Nat, n \in T PROVE n + 1 \in T
  <2> SUFFICES ASSUME lo + (n + 1) <= hi PROVE f[lo + (n + 1)] \in S
    OBVIOUS
  <2>1. /\ lo + (n + 1) \in lo..hi /\ lo + (n + 1) # lo
        /\ (lo + (n + 1)) - 1 = lo + n /\ lo + n <= hi
    OBVIOUS
  <2> QED
    BY <1>2, <2>1
<1>3. Nat \subseteq T
  <2> HIDE DEF T
  <2> QED
    BY <1>1, <1>2, SetInduction
<1>4. ASSUME NEW x \in lo..hi PROVE f[x] \in S
  <2>1. x - lo \in Nat /\ lo + (x - lo) = x /\ x <= hi
    OBVIOUS
  <2>2. x - lo \in T
    <3> HIDE DEF T
    <3> QED
      BY <1>3, <2>1
  <2> QED
    BY <2>1, <2>2
<1> QED
  BY <1>4

-----------------------------------------------------------------------------
(* Cost matrices.                                                          *)

\* v is the least of three numbers.
Least(v, p, q, r) ==
    /\ v <= p /\ v <= q /\ v <= r
    /\ v = p \/ v = q \/ v = r

\* The least of a set of three numbers.
LEMMA MinLeast ==
  ASSUME NEW p \in Int, NEW q \in Int, NEW r \in Int
  PROVE  Min({p, q, r}) \in Int /\ Least(Min({p, q, r}), p, q, r)
<1>1. \E v \in {p, q, r} : \A w \in {p, q, r} : v =< w
  <2>1. CASE p <= q /\ p <= r
    BY <2>1
  <2>2. CASE q <= p /\ q <= r
    BY <2>2
  <2>3. CASE r <= p /\ r <= q
    BY <2>3
  <2> QED
    BY <2>1, <2>2, <2>3
<1>2. /\ Min({p, q, r}) \in {p, q, r}
      /\ \A w \in {p, q, r} : Min({p, q, r}) =< w
  BY <1>1 DEF Min
<1> QED
  BY <1>2 DEF Least

\* What a replacement may count as.
Weights == {1, 2}

\* What it costs to have letter d in the place of c.
Penalty(weight, c, d) == IF c = d THEN 0 ELSE weight

\* The costs of the first x letters of a and y letters of b, each with those of
\* the strings that are a letter shorter.
IsMatrix(D, a, b, weight) ==
    /\ D \in [0..Len(a) -> [0..Len(b) -> Nat]]
    /\ \A y \in 0..Len(b) : D[0][y] = y
    /\ \A x \in 0..Len(a) : D[x][0] = x
    /\ \A x \in 1..Len(a), y \in 1..Len(b) :
          Least(D[x][y], D[x - 1][y - 1] + Penalty(weight, a[x], b[y]),
                D[x][y - 1] + 1, D[x - 1][y] + 1)

\* Row x after another one.
IsRow(next, row, x, a, b, weight) ==
    /\ next \in [0..Len(b) -> Nat] /\ next[0] = x
    /\ \A y \in 1..Len(b) :
          Least(next[y], row[y - 1] + Penalty(weight, a[x], b[y]), next[y - 1] + 1,
                row[y] + 1)

\* CostRow returns the next row.
LEMMA CostRowCosts ==
  ASSUME NEW a, NEW b, Len(b) \in Nat, NEW row \in [0..Len(b) -> Nat], NEW x \in Nat
  PROVE  IsRow(CostRow(row, x, a, b), row, x, a, b, 1)
<1> DEFINE m == Len(b)
           cell(y, left) == Min({row[y - 1] + Differ(a[x], b[y]), left + 1, row[y] + 1})
           equation(f) == f = [y \in 0..m |-> IF y = 0 THEN x ELSE cell(y, f[y - 1])]
           next == CostRow(row, x, a, b)
           step == [y \in 0..m |-> [left \in Nat |-> IF y = 0 THEN x ELSE cell(y, left)]]
<1>1. next = CHOOSE f : equation(f)
  BY Zenon DEF CostRow
<1>2. m \in Nat /\ row \in [0..m -> Nat]
  OBVIOUS
<1> HIDE DEF m, next
<1>3. ASSUME NEW y \in 1..m, NEW left \in Nat
      PROVE  /\ cell(y, left) \in Nat
             /\ Least(cell(y, left), row[y - 1] + Penalty(1, a[x], b[y]), left + 1,
                      row[y] + 1)
  <2> DEFINE p == row[y - 1] + Differ(a[x], b[y])
             q == left + 1
             r == row[y] + 1
  <2>1. /\ p = row[y - 1] + Penalty(1, a[x], b[y])
        /\ p \in Nat /\ q \in Nat /\ r \in Nat
    BY <1>2 DEF Differ, Penalty
  <2>2. cell(y, left) = Min({p, q, r})
    OBVIOUS
  <2> HIDE DEF cell, p
  <2>3. cell(y, left) \in Int /\ Least(cell(y, left), p, q, r)
    <3> HIDE DEF q, r
    <3> QED
      BY <2>1, <2>2, MinLeast
  <2>4. cell(y, left) \in Nat
    BY <2>1, <2>3 DEF Least
  <2> QED
    BY <2>1, <2>3, <2>4
<1> HIDE DEF cell
<1>4. step \in [0..m -> [Nat -> Nat]]
  <2>1. ASSUME NEW y \in 0..m, NEW left \in Nat
        PROVE  (IF y = 0 THEN x ELSE cell(y, left)) \in Nat
    <3>1. CASE y = 0
      BY <3>1
    <3>2. CASE y # 0
      <4>1. y \in 1..m
        BY <1>2, <3>2
      <4> QED
        BY <1>3, <3>2, <4>1
    <3> QED
      BY <3>1, <3>2
  <2> QED
    BY <2>1
<1>5. PICK f \in [0..m -> Nat] : Recurs(f, 0, m, x, step)
  <2>1. 0 \in Int /\ m \in Int
    BY <1>2
  <2> HIDE DEF step
  <2> QED
    BY <1>4, <2>1, RecursionExists, Zenon
<1>6. equation(f)
  <2>1. ASSUME NEW y \in 0..m PROVE f[y] = IF y = 0 THEN x ELSE cell(y, f[y - 1])
    <3>1. f[y] = IF y = 0 THEN x ELSE step[y][f[y - 1]]
      BY <1>5 DEF Recurs
    <3>2. y # 0 => y - 1 \in 0..m /\ f[y - 1] \in Nat
      BY <1>2
    <3> QED
      BY <3>1, <3>2
  <2> QED
    BY <2>1
<1>7. equation(next)
  <2> HIDE DEF equation
  <2> QED
    BY <1>1, <1>6
<1>8. /\ next = [y \in 0..m |-> next[y]]
      /\ \A y \in 0..m : next[y] = IF y = 0 THEN x ELSE cell(y, next[y - 1])
  BY <1>7, Zenon
<1>9. next[0] = x /\ \A y \in 1..m : next[y] = cell(y, next[y - 1])
  <2>1. 0 \in 0..m /\ \A y \in 1..m : y \in 0..m /\ y # 0
    BY <1>2
  <2> QED
    BY <1>8, <2>1, Zenon
<1>10. next \in [0..m -> Nat]
  <2>1. \A y \in 0..m : y # 0 /\ next[y - 1] \in Nat => next[y] \in Nat
    <3> SUFFICES ASSUME NEW y \in 0..m, y # 0, next[y - 1] \in Nat PROVE next[y] \in Nat
      OBVIOUS
    <3>1. y \in 1..m
      BY <1>2
    <3> QED
      BY <1>3, <1>9, <3>1
  <2>2. 0 \in Int /\ m \in Int /\ next[0] \in Nat
    BY <1>2, <1>9
  <2> QED
    BY <1>8, <2>1, <2>2, RecursionType, Zenon
<1>11. ASSUME NEW y \in 1..m
       PROVE  Least(next[y], row[y - 1] + Penalty(1, a[x], b[y]), next[y - 1] + 1,
                    row[y] + 1)
  <2>1. y - 1 \in 0..m
    BY <1>2
  <2>2. next[y - 1] \in Nat
    BY <1>10, <2>1
  <2> QED
    BY <1>3, <1>9, <2>2
<1> QED
  BY <1>9, <1>10, <1>11 DEF next, m, IsRow

\* The matrix of lev_editops_find.
LEMMA CostMatrixCosts ==
  ASSUME NEW a, NEW b, Len(a) \in Nat, Len(b) \in Nat
  PROVE  IsMatrix(CostMatrix(a, b), a, b, 1)
<1> DEFINE m == Len(b)
           n == Len(a)
           Row == [0..m -> Nat]
           first == [y \in 0..m |-> y]
           equation(f) == f = [x \in 0..n |-> IF x = 0 THEN first
                                              ELSE CostRow(f[x - 1], x, a, b)]
           rows == CostMatrix(a, b)
           step == [x \in 0..n |-> [row \in Row |-> CostRow(row, x, a, b)]]
<1>1. rows = CHOOSE f : equation(f)
  BY Zenon DEF CostMatrix
<1>2. m \in Nat /\ n \in Nat /\ first \in Row
  OBVIOUS
<1>3. ASSUME NEW x \in 0..n, NEW row \in Row
      PROVE  IsRow(CostRow(row, x, a, b), row, x, a, b, 1)
  <2>1. x \in Nat
    BY <1>2
  <2> QED
    BY <1>2, <2>1, CostRowCosts, Zenon
<1>4. \A y \in 0..m : first[y] = y
  OBVIOUS
<1> HIDE DEF m, n, first, rows
<1>5. step \in [0..n -> [Row -> Row]]
  <2>1. \A x \in 0..n, row \in Row : CostRow(row, x, a, b) \in Row
    BY <1>3 DEF IsRow, m
  <2> HIDE DEF Row
  <2> QED
    BY <2>1
<1>6. PICK f \in [0..n -> Row] : Recurs(f, 0, n, first, step)
  <2>1. 0 \in Int /\ n \in Int
    BY <1>2
  <2> HIDE DEF step, Row
  <2> QED
    BY <1>2, <1>5, <2>1, RecursionExists, Zenon
<1>7. equation(f)
  <2>1. ASSUME NEW x \in 0..n
        PROVE  f[x] = IF x = 0 THEN first ELSE CostRow(f[x - 1], x, a, b)
    <3> HIDE DEF Row
    <3>1. f[x] = IF x = 0 THEN first ELSE step[x][f[x - 1]]
      BY <1>6 DEF Recurs
    <3>2. x # 0 => x - 1 \in 0..n /\ f[x - 1] \in Row
      BY <1>2
    <3> QED
      BY <3>1, <3>2
  <2> QED
    BY <2>1
<1>8. equation(rows)
  <2> HIDE DEF equation
  <2> QED
    BY <1>1, <1>7
<1>9. /\ rows = [x \in 0..n |-> rows[x]]
      /\ \A x \in 0..n : rows[x] = IF x = 0 THEN first ELSE CostRow(rows[x - 1], x, a, b)
  BY <1>8, Zenon
<1>10. rows[0] = first /\ \A x \in 1..n : rows[x] = CostRow(rows[x - 1], x, a, b)
  <2>1. 0 \in 0..n /\ \A x \in 1..n : x \in 0..n /\ x # 0
    BY <1>2
  <2> QED
    BY <1>9, <2>1, Zenon
<1>11. rows \in [0..n -> Row]
  <2> HIDE DEF Row
  <2>1. \A x \in 0..n : x # 0 /\ rows[x - 1] \in Row => rows[x] \in Row
    <3> SUFFICES ASSUME NEW x \in 0..n, x # 0, rows[x - 1] \in Row PROVE rows[x] \in Row
      OBVIOUS
    <3>1. IsRow(rows[x], rows[x - 1], x, a, b, 1)
      BY <1>3, <1>9
    <3> QED
      BY <3>1 DEF IsRow, Row, m
  <2>2. 0 \in Int /\ n \in Int /\ rows[0] \in Row
    BY <1>2, <1>10
  <2> QED
    BY <1>9, <2>1, <2>2, RecursionType, Zenon
<1>12. ASSUME NEW x \in 1..n
       PROVE  /\ rows[x][0] = x
              /\ \A y \in 1..m :
                    Least(rows[x][y], rows[x - 1][y - 1] + Penalty(1, a[x], b[y]),
                          rows[x][y - 1] + 1, rows[x - 1][y] + 1)
  <2>1. x \in 0..n /\ x - 1 \in 0..n
    BY <1>2
  <2>2. rows[x - 1] \in Row
    <3> HIDE DEF Row
    <3> QED
      BY <1>11, <2>1
  <2>3. rows[x] = CostRow(rows[x - 1], x, a, b)
    BY <1>10
  <2>4. IsRow(rows[x], rows[x - 1], x, a, b, 1)
    <3> HIDE DEF Row
    <3> QED
      BY <1>3, <2>1, <2>2, <2>3
  <2> QED
    BY <2>4 DEF IsRow, m
<1>13. /\ \A y \in 0..m : rows[0][y] = y
       /\ \A x \in 0..n : rows[x][0] = x
  <2>1. 0 \in 0..m
    BY <1>2
  <2>2. \A x \in 0..n : x # 0 => x \in 1..n
    BY <1>2
  <2> QED
    BY <1>4, <1>10, <1>12, <2>1, <2>2
<1> QED
  BY <1>11, <1>12, <1>13 DEF IsMatrix, rows, m, n

\* A cell costs at most one operation more than the one before it in its row
\* or in its column.
LEMMA CellsRise ==
  ASSUME NEW a, NEW b, Len(a) \in Nat, Len(b) \in Nat, NEW weight \in Weights,
         NEW D, IsMatrix(D, a, b, weight)
  PROVE  /\ \A x \in 0..Len(a), y \in 0..Len(b) : D[x][y] \in Nat
         /\ \A x \in 0..Len(a), y \in 1..Len(b) : D[x][y] <= D[x][y - 1] + 1
         /\ \A x \in 1..Len(a), y \in 0..Len(b) : D[x][y] <= D[x - 1][y] + 1
<1> DEFINE n == Len(a)
           m == Len(b)
<1>1. \A x \in 0..n, y \in 0..m : D[x][y] \in Nat
  BY DEF IsMatrix
<1>2. ASSUME NEW x \in 0..n, NEW y \in 1..m PROVE D[x][y] <= D[x][y - 1] + 1
  <2>1. CASE x = 0
    <3>1. y \in 0..m /\ y - 1 \in 0..m
      OBVIOUS
    <3>2. D[x][y] = y /\ D[x][y - 1] = y - 1
      BY <2>1, <3>1 DEF IsMatrix
    <3> QED
      BY <3>2
  <2>2. CASE x # 0
    <3>1. x \in 1..n
      BY <2>2
    <3> QED
      BY <3>1 DEF IsMatrix, Least
  <2> QED
    BY <2>1, <2>2
<1>3. ASSUME NEW x \in 1..n, NEW y \in 0..m PROVE D[x][y] <= D[x - 1][y] + 1
  <2>1. CASE y = 0
    <3>1. x \in 0..n /\ x - 1 \in 0..n
      OBVIOUS
    <3>2. D[x][y] = x /\ D[x - 1][y] = x - 1
      BY <2>1, <3>1 DEF IsMatrix
    <3> QED
      BY <3>2
  <2>2. CASE y # 0
    <3>1. y \in 1..m
      BY <2>2
    <3> QED
      BY <3>1 DEF IsMatrix, Least
  <2> QED
    BY <2>1, <2>2
<1> QED
  BY <1>1, <1>2, <1>3

\* The matrix of the strings the other way round.
LEMMA MatrixTransposes ==
  ASSUME NEW a, NEW b, Len(a) \in Nat, Len(b) \in Nat, NEW weight \in Weights,
         NEW D, IsMatrix(D, a, b, weight)
  PROVE  IsMatrix([y \in 0..Len(b) |-> [x \in 0..Len(a) |-> D[x][y]]], b, a, weight)
<1> DEFINE n == Len(a)
           m == Len(b)
           E == [y \in 0..m |-> [x \in 0..n |-> D[x][y]]]
<1>1. n \in Nat /\ m \in Nat
  OBVIOUS
<1>2. \A x \in 0..n, y \in 0..m : D[x][y] \in Nat /\ E[y][x] = D[x][y]
  BY DEF IsMatrix
<1>3. E \in [0..m -> [0..n -> Nat]]
  BY <1>2
<1>4. /\ \A x \in 0..n : E[0][x] = x
      /\ \A y \in 0..m : E[y][0] = y
  <2>1. 0 \in 0..n /\ 0 \in 0..m
    BY <1>1
  <2> HIDE DEF E
  <2> QED
    BY <1>2, <2>1 DEF IsMatrix
<1>5. ASSUME NEW y \in 1..m, NEW x \in 1..n
      PROVE  Least(E[y][x], E[y - 1][x - 1] + Penalty(weight, b[y], a[x]),
                   E[y][x - 1] + 1, E[y - 1][x] + 1)
  <2>1. /\ E[y][x] = D[x][y] /\ E[y - 1][x - 1] = D[x - 1][y - 1]
        /\ E[y][x - 1] = D[x - 1][y] /\ E[y - 1][x] = D[x][y - 1]
    <3>1. x \in 0..n /\ x - 1 \in 0..n /\ y \in 0..m /\ y - 1 \in 0..m
      BY <1>1
    <3> HIDE DEF E
    <3> QED
      BY <1>2, <3>1
  <2>2. Least(D[x][y], D[x - 1][y - 1] + Penalty(weight, a[x], b[y]), D[x][y - 1] + 1,
              D[x - 1][y] + 1)
    BY DEF IsMatrix
  <2>3. Penalty(weight, b[y], a[x]) = Penalty(weight, a[x], b[y])
    BY DEF Penalty
  <2> HIDE DEF E
  <2> QED
    BY <2>1, <2>2, <2>3 DEF Least
<1> HIDE DEF E
<1> QED
  BY <1>3, <1>4, <1>5 DEF IsMatrix, E

\* Nor does it cost more than one operation less.
LEMMA CellsFall ==
  ASSUME NEW a, NEW b, Len(a) \in Nat, Len(b) \in Nat, NEW weight \in Weights,
         NEW D, IsMatrix(D, a, b, weight)
  PROVE  \A x \in 1..Len(a), y \in 0..Len(b) : D[x - 1][y] <= D[x][y] + 1
<1> SUFFICES ASSUME NEW x \in 1..Len(a)
             PROVE  \A y \in 0..Len(b) : D[x - 1][y] <= D[x][y] + 1
  OBVIOUS
<1> DEFINE m == Len(b)
           T == {y \in Nat : y <= m => D[x - 1][y] <= D[x][y] + 1}
<1>1. x \in 0..Len(a) /\ x - 1 \in 0..Len(a) /\ m \in Nat
  OBVIOUS
<1>2. 0 \in T
  <2>1. D[x - 1][0] = x - 1 /\ D[x][0] = x
    BY <1>1 DEF IsMatrix
  <2> QED
    BY <2>1
<1>3. ASSUME NEW z \in Nat, z \in T PROVE z + 1 \in T
  <2> SUFFICES ASSUME z + 1 <= m PROVE D[x - 1][z + 1] <= D[x][z + 1] + 1
    OBVIOUS
  <2> DEFINE y == z + 1
  <2>1. y \in 1..m /\ y \in 0..m /\ z \in 0..m /\ z = y - 1
    BY <1>1
  <2>2. /\ D[x][y] \in Nat /\ D[x][z] \in Nat
        /\ D[x - 1][y] \in Nat /\ D[x - 1][z] \in Nat
        /\ D[x - 1][y] <= D[x - 1][z] + 1
    BY <1>1, <2>1, CellsRise
  <2>3. Least(D[x][y], D[x - 1][z] + Penalty(weight, a[x], b[y]), D[x][z] + 1,
              D[x - 1][y] + 1)
    BY <2>1 DEF IsMatrix
  <2>4. D[x - 1][z] <= D[x][z] + 1
    BY <1>3, <2>1
  <2> DEFINE p == Penalty(weight, a[x], b[y])
             diagonal == D[x - 1][z]
             left == D[x][z]
             up   == D[x - 1][y]
             cell == D[x][y]
  <2>5. p \in Nat
    BY DEF Penalty, Weights
  <2>6. up <= cell + 1
    <3>1. /\ cell \in Nat /\ left \in Nat /\ up \in Nat /\ diagonal \in Nat
          /\ up <= diagonal + 1 /\ diagonal <= left + 1
          /\ cell = diagonal + p \/ cell = left + 1 \/ cell = up + 1
      BY <2>2, <2>3, <2>4 DEF Least
    <3> HIDE DEF p, diagonal, left, up, cell
    <3> QED
      BY <2>5, <3>1
  <2> QED
    BY <2>6
<1>4. Nat \subseteq T
  <2> HIDE DEF T
  <2> QED
    BY <1>2, <1>3, SetInduction
<1>5. \A y \in 0..m : y \in T
  <2>1. \A y \in 0..m : y \in Nat
    BY <1>1
  <2> HIDE DEF T
  <2> QED
    BY <1>4, <2>1
<1> QED
  BY <1>1, <1>5

\* The same along a row.
LEMMA CellsFallInRow ==
  ASSUME NEW a, NEW b, Len(a) \in Nat, Len(b) \in Nat, NEW weight \in Weights,
         NEW D, IsMatrix(D, a, b, weight)
  PROVE  \A x \in 0..Len(a), y \in 1..Len(b) : D[x][y - 1] <= D[x][y] + 1
<1> SUFFICES ASSUME NEW x \in 0..Len(a), NEW y \in 1..Len(b)
             PROVE  D[x][y - 1] <= D[x][y] + 1
  OBVIOUS
<1> DEFINE E == [v \in 0..Len(b) |-> [u \in 0..Len(a) |-> D[u][v]]]
<1>1. IsMatrix(E, b, a, weight)
  BY MatrixTransposes
<1>2. E[y - 1][x] <= E[y][x] + 1
  <2> HIDE DEF E
  <2>1. \A v \in 1..Len(b), u \in 0..Len(a) : E[v - 1][u] <= E[v][u] + 1
    BY <1>1, CellsFall, Zenon
  <2> QED
    BY <2>1
<1>3. E[y - 1][x] = D[x][y - 1] /\ E[y][x] = D[x][y]
  OBVIOUS
<1> QED
  BY <1>2, <1>3

\* Letters that are equal cost nothing, and a diagonal never gets cheaper.
LEMMA DiagonalRises ==
  ASSUME NEW a, NEW b, Len(a) \in Nat, Len(b) \in Nat, NEW weight \in Weights,
         NEW D, IsMatrix(D, a, b, weight)
  PROVE  \A x \in 1..Len(a), y \in 1..Len(b) :
            /\ D[x - 1][y - 1] <= D[x][y]
            /\ a[x] = b[y] => D[x][y] = D[x - 1][y - 1]
<1> SUFFICES ASSUME NEW x \in 1..Len(a), NEW y \in 1..Len(b)
             PROVE  /\ D[x - 1][y - 1] <= D[x][y]
                    /\ a[x] = b[y] => D[x][y] = D[x - 1][y - 1]
  OBVIOUS
<1>1. x \in 0..Len(a) /\ x - 1 \in 0..Len(a) /\ y \in 0..Len(b) /\ y - 1 \in 0..Len(b)
  OBVIOUS
<1>2. /\ D[x][y] \in Nat /\ D[x][y - 1] \in Nat
      /\ D[x - 1][y] \in Nat /\ D[x - 1][y - 1] \in Nat
  BY <1>1, CellsRise
<1>3. D[x - 1][y - 1] <= D[x][y - 1] + 1 /\ D[x - 1][y - 1] <= D[x - 1][y] + 1
  <2>1. \A u \in 1..Len(a), v \in 0..Len(b) : D[u - 1][v] <= D[u][v] + 1
    BY CellsFall, Zenon
  <2>2. \A u \in 0..Len(a), v \in 1..Len(b) : D[u][v - 1] <= D[u][v] + 1
    BY CellsFallInRow, Zenon
  <2> QED
    BY <1>1, <2>1, <2>2
<1>4. Least(D[x][y], D[x - 1][y - 1] + Penalty(weight, a[x], b[y]), D[x][y - 1] + 1,
            D[x - 1][y] + 1)
  BY DEF IsMatrix
<1> DEFINE p == Penalty(weight, a[x], b[y])
           diagonal == D[x - 1][y - 1]
           left == D[x][y - 1]
           up   == D[x - 1][y]
           cell == D[x][y]
<1>5. p \in Nat /\ (a[x] = b[y] => p = 0)
  BY DEF Penalty, Weights
<1>6. diagonal <= cell /\ (p = 0 => cell = diagonal)
  <2>1. /\ cell \in Nat /\ left \in Nat /\ up \in Nat /\ diagonal \in Nat
        /\ diagonal <= left + 1 /\ diagonal <= up + 1 /\ cell <= diagonal + p
        /\ cell = diagonal + p \/ cell = left + 1 \/ cell = up + 1
    BY <1>2, <1>3, <1>4 DEF Least
  <2> HIDE DEF p, diagonal, left, up, cell
  <2> QED
    BY <1>5, <2>1
<1> HIDE DEF p
<1> QED
  BY <1>5, <1>6

\* A cell costs at least the difference of the lengths, at most both of them
\* and, where a replacement costs one, at most the longer.
LEMMA CellBounds ==
  ASSUME NEW a, NEW b, Len(a) \in Nat, Len(b) \in Nat, NEW weight \in Weights,
         NEW D, IsMatrix(D, a, b, weight)
  PROVE  \A x \in 0..Len(a), y \in 0..Len(b) :
            /\ x - y <= D[x][y] /\ y - x <= D[x][y] /\ D[x][y] <= x + y
            /\ weight = 1 => D[x][y] <= x \/ D[x][y] <= y
<1> DEFINE n == Len(a)
           m == Len(b)
           Bounds(x, y) ==
             /\ x - y <= D[x][y] /\ y - x <= D[x][y] /\ D[x][y] <= x + y
             /\ weight = 1 => D[x][y] <= x \/ D[x][y] <= y
           T == {x \in Nat : x <= n => \A y \in 0..m : Bounds(x, y)}
<1>1. n \in Nat /\ m \in Nat
  OBVIOUS
<1>2. 0 \in T
  <2>1. \A y \in 0..m : D[0][y] = y
    BY DEF IsMatrix
  <2> QED
    BY <2>1
<1>3. ASSUME NEW z \in Nat, z \in T PROVE z + 1 \in T
  <2> SUFFICES ASSUME z + 1 <= n, NEW y \in 0..m PROVE Bounds(z + 1, y)
    OBVIOUS
  <2> DEFINE x == z + 1
  <2>1. x \in 1..n /\ x \in 0..n /\ z \in 0..n /\ z = x - 1 /\ y \in Nat
    BY <1>1
  <2>2. \A v \in 0..m : Bounds(z, v)
    BY <1>3, <2>1
  <2>3. CASE y = 0
    BY <2>1, <2>3 DEF IsMatrix
  <2>4. CASE y # 0
    <3>1. y \in 1..m /\ y - 1 \in 0..m
      BY <1>1, <2>1, <2>4
    <3>2. /\ D[x][y] \in Nat /\ D[x][y - 1] \in Nat
          /\ D[z][y] \in Nat /\ D[z][y - 1] \in Nat
          /\ D[x][y] <= D[z][y] + 1 /\ D[z][y] <= D[x][y] + 1
          /\ D[z][y - 1] <= D[x][y]
      <4>1. \A u \in 1..n, v \in 0..m : D[u - 1][v] <= D[u][v] + 1
        BY CellsFall, Zenon
      <4>2. \A u \in 1..n, v \in 1..m : D[u - 1][v - 1] <= D[u][v]
        BY DiagonalRises, Zenon
      <4>3. D[z][y] <= D[x][y] + 1 /\ D[z][y - 1] <= D[x][y]
        BY <2>1, <3>1, <4>1, <4>2
      <4> QED
        BY <2>1, <3>1, <4>3, CellsRise
    <3>3. Bounds(z, y) /\ Bounds(z, y - 1)
      BY <2>2, <3>1
    <3>4. D[x][y] <= D[z][y - 1] + Penalty(weight, a[x], b[y])
      BY <2>1, <3>1 DEF IsMatrix, Least
    <3> DEFINE p == Penalty(weight, a[x], b[y])
               diagonal == D[z][y - 1]
               left == D[x][y - 1]
               up   == D[z][y]
               cell == D[x][y]
    <3>5. p \in Nat /\ (weight = 1 => p <= 1)
      BY DEF Penalty, Weights
    <3>6. /\ z - y <= up /\ y - z <= up /\ up <= z + y
          /\ z - (y - 1) <= diagonal /\ (y - 1) - z <= diagonal
          /\ diagonal <= z + (y - 1)
          /\ weight = 1 => diagonal <= z \/ diagonal <= y - 1
      BY <3>3
    <3>7. /\ cell \in Nat /\ left \in Nat /\ up \in Nat /\ diagonal \in Nat
          /\ cell <= up + 1 /\ up <= cell + 1 /\ diagonal <= cell
          /\ cell <= diagonal + p
      BY <3>2, <3>4
    <3>8. /\ x - y <= cell /\ y - x <= cell /\ cell <= x + y
          /\ weight = 1 => cell <= x \/ cell <= y
      <4> HIDE DEF Bounds, p, diagonal, left, up, cell
      <4>1. y - x <= cell
        BY <2>1, <3>6, <3>7
      <4>2. x - y <= cell
        BY <2>1, <3>6, <3>7
      <4>3. cell <= x + y
        BY <2>1, <3>6, <3>7
      <4>4. weight = 1 => cell <= x \/ cell <= y
        BY <2>1, <3>5, <3>6, <3>7
      <4> QED
        BY <4>1, <4>2, <4>3, <4>4
    <3> QED
      BY <3>8
  <2> QED
    BY <2>3, <2>4
<1>4. Nat \subseteq T
  <2> HIDE DEF T
  <2> QED
    BY <1>2, <1>3, SetInduction
<1>5. ASSUME NEW x \in 0..n PROVE \A y \in 0..m : Bounds(x, y)
  <2>1. x \in Nat /\ x <= n
    BY <1>1
  <2>2. x \in T
    <3> HIDE DEF T
    <3> QED
      BY <1>4, <2>1
  <2> QED
    BY <2>1, <2>2
<1> QED
  BY <1>5

-----------------------------------------------------------------------------
(* Cutting off what strings have in common.                                *)

\* Two sequences agree in their common prefix.
LEMMA CommonLengthAgrees ==
  ASSUME NEW S, NEW a \in Seq(S), NEW b \in Seq(S)
  PROVE  /\ CommonLength(a, b) \in Nat
         /\ CommonLength(a, b) <= Len(a) /\ CommonLength(a, b) <= Len(b)
         /\ \A p \in 1..CommonLength(a, b) : a[p] = b[p]
<1> DEFINE C == CommonPrefixes({a, b})
           T == {Len(c) : c \in C}
<1>1. Len(a) \in Nat /\ Len(b) \in Nat
  BY LenProperties
<1>2. ASSUME NEW c \in C
      PROVE  /\ Len(c) \in Nat /\ Len(c) <= Len(a) /\ Len(c) <= Len(b)
             /\ \A p \in 1..Len(c) : a[p] = b[p]
  <2>1. /\ Len(c) <= Len(a) /\ SubSeq(c, 1, Len(c)) = SubSeq(a, 1, Len(c))
        /\ Len(c) <= Len(b) /\ SubSeq(c, 1, Len(c)) = SubSeq(b, 1, Len(c))
    BY DEF CommonPrefixes, IsPrefix
  <2>2. c \in Prefixes(a) \/ c \in Prefixes(b)
    BY DEF CommonPrefixes
  <2>3. Len(c) \in Nat
    <3>1. ASSUME NEW s \in Seq(S), c \in Prefixes(s) PROVE Len(c) \in Nat
      <4>1. PICK l \in 0..Len(s) : c = SubSeq(s, 1, l)
        BY <3>1 DEF Prefixes
      <4>2. l \in Nat /\ \A p \in 1..l : s[p] \in S
        BY <4>1, LenProperties, ElementOfSeq
      <4> QED
        BY <4>1, <4>2, SubSeqProperties
    <3> QED
      BY <2>2, <3>1
  <2>4. ASSUME NEW p \in 1..Len(c) PROVE a[p] = b[p]
    <3> DEFINE k == Len(c)
    <3>1. /\ \A q \in 1..k : a[q] \in S /\ b[q] \in S
          /\ SubSeq(a, 1, k) = SubSeq(b, 1, k)
      BY <1>1, <2>1, <2>3, ElementOfSeq
    <3>2. k \in Nat /\ k - 1 + 1 = k /\ 1 + p - 1 = p
      BY <2>3
    <3> HIDE DEF k
    <3>3. SubSeq(a, 1, k)[p] = a[p] /\ SubSeq(b, 1, k)[p] = b[p]
      <4>1. p \in 1..(k - 1 + 1)
        BY <3>2 DEF k
      <4> QED
        BY <3>1, <3>2, <4>1, SubSeqProperties
    <3> QED
      BY <3>1, <3>3
  <2> QED
    BY <2>1, <2>3, <2>4
<1>3. T \in SUBSET (0..Len(a))
  <2> HIDE DEF C
  <2>1. \A c \in C : Len(c) \in 0..Len(a)
    BY <1>1, <1>2
  <2> QED
    BY <2>1
<1>4. T # {}
  <2> DEFINE e == SubSeq(a, 1, 0)
  <2>1. e = <<>> /\ SubSeq(b, 1, 0) = <<>> /\ Len(<<>>) = 0
    BY SubSeqEmpty
  <2>2. e \in Prefixes(a)
    BY <1>1 DEF Prefixes
  <2> HIDE DEF e
  <2>3. Len(e) = 0 /\ SubSeq(e, 1, Len(e)) = <<>>
    BY <2>1, SubSeqEmpty
  <2>4. SubSeq(a, 1, Len(e)) = <<>> /\ SubSeq(b, 1, Len(e)) = <<>>
    BY <2>1, <2>3 DEF e
  <2>5. IsPrefix(e, a) /\ IsPrefix(e, b)
    BY <1>1, <2>3, <2>4 DEF IsPrefix
  <2>6. e \in C
    BY <2>2, <2>5 DEF CommonPrefixes
  <2> QED
    BY <2>6
<1> HIDE DEF C
<1>5. \E c \in C : \A d \in C : Len(d) <= Len(c)
  <2>1. PICK l \in T : \A k \in T : k <= l
    <3> HIDE DEF T
    <3> QED
      BY <1>1, <1>3, <1>4, GreatestNatural
  <2> QED
    BY <2>1
<1>6. LongestCommonPrefix({a, b}) \in C
  BY <1>5 DEF LongestCommonPrefix, C
<1> QED
  BY <1>2, <1>6 DEF CommonLength

\* rest is what is left of two strings that agree in the letters cut off.
Stripped(rest, a, b, prefix, suffix) ==
    /\ prefix + suffix <= Len(a) /\ prefix + suffix <= Len(b)
    /\ \A p \in 1..prefix : a[p] = b[p]
    /\ \A p \in 1..suffix : a[Len(a) - suffix + p] = b[Len(b) - suffix + p]
    /\ rest.offset = prefix
    /\ Len(rest.first) = Len(a) - prefix - suffix
    /\ Len(rest.second) = Len(b) - prefix - suffix
    /\ \A p \in 1..(Len(a) - prefix - suffix) : rest.first[p] = a[prefix + p]
    /\ \A p \in 1..(Len(b) - prefix - suffix) : rest.second[p] = b[prefix + p]

\* The letters of a string from its end.
LEMMA ReverseReverses ==
  ASSUME NEW S, NEW s \in Seq(S)
  PROVE  /\ Reverse(s) \in Seq(S) /\ Len(Reverse(s)) = Len(s)
         /\ \A p \in 1..Len(s) : Reverse(s)[p] = s[Len(s) - p + 1]
<1>1. Len(s) \in Nat
  BY LenProperties
<1>2. \A p \in 1..Len(s) :
         Len(s) - p + 1 \in 1..Len(s) /\ (Len(s) - p) + 1 = Len(s) - p + 1
  BY <1>1
<1>3. \A p \in 1..Len(s) : s[Len(s) - p + 1] \in S
  BY <1>2, ElementOfSeq
<1>4. /\ Reverse(s) \in [1..Len(s) -> S]
      /\ \A p \in 1..Len(s) : Reverse(s)[p] = s[Len(s) - p + 1]
  BY <1>3 DEF Reverse
<1> QED
  BY <1>1, <1>4, FunctionIsSeq

\* Strip cuts off only what the strings have in common.
LEMMA StripStrips ==
  ASSUME NEW S, NEW a \in Seq(S), NEW b \in Seq(S)
  PROVE  /\ Strip(a, b).first \in Seq(S) /\ Strip(a, b).second \in Seq(S)
         /\ \E prefix, suffix \in Nat : Stripped(Strip(a, b), a, b, prefix, suffix)
<1> DEFINE rest == Strip(a, b)
           prefix == CommonLength(a, b)
           c == SubSeq(a, prefix + 1, Len(a))
           d == SubSeq(b, prefix + 1, Len(b))
           suffix == CommonLength(Reverse(c), Reverse(d))
           n == Len(a) - prefix - suffix
           m == Len(b) - prefix - suffix
<1>1. /\ rest.offset = prefix
      /\ rest.first = SubSeq(c, 1, Len(c) - suffix)
      /\ rest.second = SubSeq(d, 1, Len(d) - suffix)
  BY DEF Strip
<1>2. Len(a) \in Nat /\ Len(b) \in Nat
  BY LenProperties
<1>3. /\ prefix \in Nat /\ prefix <= Len(a) /\ prefix <= Len(b)
      /\ \A p \in 1..prefix : a[p] = b[p]
  BY CommonLengthAgrees
<1> HIDE DEF rest, prefix
<1>4. ASSUME NEW s \in Seq(S), NEW k \in Nat, k <= Len(s)
      PROVE  LET t == SubSeq(s, k + 1, Len(s))
             IN  /\ t \in Seq(S) /\ Len(t) = Len(s) - k
                 /\ \A p \in 1..(Len(s) - k) : t[p] = s[k + p]
  <2>1. Len(s) \in Nat
    BY LenProperties
  <2>2. \A p \in (k + 1)..Len(s) : s[p] \in S
    BY <2>1, ElementOfSeq
  <2> DEFINE t == SubSeq(s, k + 1, Len(s))
  <2>3. /\ t \in Seq(S)
        /\ Len(t) = IF k + 1 <= Len(s) THEN Len(s) - (k + 1) + 1 ELSE 0
        /\ \A p \in 1..(Len(s) - (k + 1) + 1) : t[p] = s[(k + 1) + p - 1]
    <3>1. k + 1 \in Int /\ Len(s) \in Int
      BY <2>1
    <3> HIDE DEF t
    <3> QED
      BY <2>2, <3>1, SubSeqProperties DEF t
  <2>4. Len(t) = Len(s) - k
    BY <1>4, <2>1, <2>3
  <2>5. \A p \in 1..(Len(s) - k) :
           p \in 1..(Len(s) - (k + 1) + 1) /\ (k + 1) + p - 1 = k + p
    BY <2>1
  <2>6. \A p \in 1..(Len(s) - k) : t[p] = s[k + p]
    BY <2>3, <2>5
  <2> QED
    BY <2>3, <2>4, <2>6
<1>5. /\ c \in Seq(S) /\ Len(c) = Len(a) - prefix
      /\ \A p \in 1..(Len(a) - prefix) : c[p] = a[prefix + p]
  BY <1>3, <1>4
<1>6. /\ d \in Seq(S) /\ Len(d) = Len(b) - prefix
      /\ \A p \in 1..(Len(b) - prefix) : d[p] = b[prefix + p]
  BY <1>3, <1>4
<1> HIDE DEF c, d
<1>7. /\ suffix \in Nat /\ suffix <= Len(c) /\ suffix <= Len(d)
      /\ \A p \in 1..suffix : c[Len(c) - p + 1] = d[Len(d) - p + 1]
  <2>1. /\ Reverse(c) \in Seq(S) /\ Len(Reverse(c)) = Len(c)
        /\ \A p \in 1..Len(c) : Reverse(c)[p] = c[Len(c) - p + 1]
    BY <1>5, ReverseReverses
  <2>2. /\ Reverse(d) \in Seq(S) /\ Len(Reverse(d)) = Len(d)
        /\ \A p \in 1..Len(d) : Reverse(d)[p] = d[Len(d) - p + 1]
    BY <1>6, ReverseReverses
  <2>3. /\ suffix \in Nat /\ suffix <= Len(Reverse(c)) /\ suffix <= Len(Reverse(d))
        /\ \A p \in 1..suffix : Reverse(c)[p] = Reverse(d)[p]
    BY <2>1, <2>2, CommonLengthAgrees
  <2> HIDE DEF suffix
  <2>4. \A p \in 1..suffix : p \in 1..Len(c) /\ p \in 1..Len(d)
    BY <1>2, <1>3, <1>5, <1>6, <2>1, <2>2, <2>3
  <2> QED
    BY <2>1, <2>2, <2>3, <2>4
<1> HIDE DEF suffix
<1>8. n \in Nat /\ m \in Nat /\ Len(c) - suffix = n /\ Len(d) - suffix = m
  BY <1>2, <1>3, <1>5, <1>6, <1>7
<1>9. ASSUME NEW s \in Seq(S), NEW k \in Nat, k <= Len(s)
      PROVE  /\ SubSeq(s, 1, k) \in Seq(S) /\ Len(SubSeq(s, 1, k)) = k
             /\ \A p \in 1..k : SubSeq(s, 1, k)[p] = s[p]
  <2>1. Len(s) \in Nat
    BY LenProperties
  <2>2. \A p \in 1..k : s[p] \in S
    BY <1>9, <2>1, ElementOfSeq
  <2>3. /\ SubSeq(s, 1, k) \in Seq(S)
        /\ Len(SubSeq(s, 1, k)) = IF 1 <= k THEN k - 1 + 1 ELSE 0
        /\ \A p \in 1..(k - 1 + 1) : SubSeq(s, 1, k)[p] = s[1 + p - 1]
    BY <2>2, SubSeqProperties
  <2>4. k - 1 + 1 = k /\ \A p \in 1..k : 1 + p - 1 = p
    OBVIOUS
  <2> QED
    BY <2>3, <2>4
<1>10. /\ rest.first \in Seq(S) /\ Len(rest.first) = n
       /\ \A p \in 1..n : rest.first[p] = a[prefix + p]
  <2>1. n <= Len(c) /\ \A p \in 1..n : p \in 1..(Len(a) - prefix)
    BY <1>2, <1>3, <1>5, <1>7, <1>8
  <2> HIDE DEF n
  <2>2. /\ SubSeq(c, 1, n) \in Seq(S) /\ Len(SubSeq(c, 1, n)) = n
        /\ \A p \in 1..n : SubSeq(c, 1, n)[p] = c[p]
    BY <1>5, <1>8, <1>9, <2>1
  <2> QED
    BY <1>1, <1>5, <1>8, <2>1, <2>2
<1>11. /\ rest.second \in Seq(S) /\ Len(rest.second) = m
       /\ \A p \in 1..m : rest.second[p] = b[prefix + p]
  <2>1. m <= Len(d) /\ \A p \in 1..m : p \in 1..(Len(b) - prefix)
    BY <1>2, <1>3, <1>6, <1>7, <1>8
  <2> HIDE DEF m
  <2>2. /\ SubSeq(d, 1, m) \in Seq(S) /\ Len(SubSeq(d, 1, m)) = m
        /\ \A p \in 1..m : SubSeq(d, 1, m)[p] = d[p]
    BY <1>6, <1>8, <1>9, <2>1
  <2> QED
    BY <1>1, <1>6, <1>8, <2>1, <2>2
<1>12. prefix + suffix <= Len(a) /\ prefix + suffix <= Len(b)
  BY <1>2, <1>3, <1>5, <1>6, <1>7
<1>13. ASSUME NEW p \in 1..suffix
       PROVE  a[Len(a) - suffix + p] = b[Len(b) - suffix + p]
  <2> DEFINE q == suffix - p + 1
  <2>1. /\ q \in 1..suffix
        /\ Len(c) - q + 1 \in 1..(Len(a) - prefix)
        /\ Len(d) - q + 1 \in 1..(Len(b) - prefix)
        /\ prefix + (Len(c) - q + 1) = Len(a) - suffix + p
        /\ prefix + (Len(d) - q + 1) = Len(b) - suffix + p
    BY <1>2, <1>3, <1>5, <1>6, <1>7
  <2> HIDE DEF q
  <2>2. c[Len(c) - q + 1] = d[Len(d) - q + 1]
    BY <1>7, <2>1
  <2>3. c[Len(c) - q + 1] = a[prefix + (Len(c) - q + 1)]
    BY <1>5, <2>1
  <2>4. d[Len(d) - q + 1] = b[prefix + (Len(d) - q + 1)]
    BY <1>6, <2>1
  <2> QED
    BY <2>1, <2>2, <2>3, <2>4
<1>14. Stripped(rest, a, b, prefix, suffix)
  BY <1>1, <1>3, <1>10, <1>11, <1>12, <1>13 DEF Stripped
<1> QED
  BY <1>3, <1>7, <1>10, <1>11, <1>14 DEF rest

-----------------------------------------------------------------------------
(* The way back through the cost matrix.                                   *)

Letters == UNION {ToSet(s) : s \in Strings}

\* The strings are sequences of letters.
LEMMA StringsType ==
  \A s \in Strings : s \in Seq(Letters) /\ Len(s) \in Nat
<1> SUFFICES ASSUME NEW s \in Strings PROVE s \in Seq(Letters) /\ Len(s) \in Nat
  OBVIOUS
<1>1. s \in Seq(ToSet(s))
  BY EditOpsAssumption
<1>2. ToSet(s) \subseteq Letters
  BY DEF Letters
<1> QED
  BY <1>1, <1>2, SeqMonotonic, LenProperties

Operation == [type : {"insert", "delete", "replace"}, spos : Nat, dpos : Nat]

\* What has been found on the way back costs what the matrix said it would.
\* After an insertion the cell to the right is dearer, after a deletion the one
\* below.
BackInv ==
    /\ matrix = CostMatrix(Rest.first, Rest.second)
    /\ i \in 0..Len(Rest.first) /\ j \in 0..Len(Rest.second)
    /\ dir \in {-1, 0, 1}
    /\ dir < 0 => j < Len(Rest.second) /\ matrix[i][j + 1] = matrix[i][j] + 1
    /\ dir > 0 => i < Len(Rest.first) /\ matrix[i + 1][j] = matrix[i][j] + 1
    /\ ops \in Seq(Operation)
    /\ Len(ops) + matrix[i][j] = Cost

EditInv ==
    /\ string1 \in Strings /\ string2 \in Strings
    /\ stage \in {"start", "measured"} => dir = 0 /\ ops = <<>>
    /\ stage = "back" => BackInv

\* The strings left to compare and the matrix of their costs.
LEMMA RestMatrix ==
  ASSUME string1 \in Strings, string2 \in Strings
  PROVE  /\ Rest.offset \in Nat
         /\ Len(Rest.first) \in Nat /\ Len(Rest.second) \in Nat
         /\ IsMatrix(CostMatrix(Rest.first, Rest.second), Rest.first, Rest.second, 1)
<1>1. string1 \in Seq(Letters) /\ string2 \in Seq(Letters)
  BY StringsType
<1>2. /\ Rest.first \in Seq(Letters) /\ Rest.second \in Seq(Letters)
      /\ \E prefix, suffix \in Nat : Stripped(Rest, string1, string2, prefix, suffix)
  BY <1>1, StripStrips DEF Rest
<1>3. Rest.offset \in Nat
  BY <1>2 DEF Stripped
<1>4. Len(Rest.first) \in Nat /\ Len(Rest.second) \in Nat
  BY <1>2, LenProperties
<1> QED
  BY <1>3, <1>4, CostMatrixCosts

\* Every way back from a cell goes to one of its neighbours.
LEMMA SomeStep ==
  ASSUME BackInv, string1 \in Strings, string2 \in Strings, i > 0 \/ j > 0
  PROVE  /\ Diagonal \/ Inserts \/ Deletes
         /\ dir < 0 => Diagonal \/ Inserts
         /\ dir > 0 => Diagonal \/ Deletes
<1> DEFINE a == Rest.first
           b == Rest.second
<1>1. Len(a) \in Nat /\ Len(b) \in Nat /\ IsMatrix(matrix, a, b, 1)
  BY RestMatrix DEF BackInv
<1>2. i \in 0..Len(a) /\ j \in 0..Len(b) /\ i \in Nat /\ j \in Nat
  BY <1>1 DEF BackInv
<1> HIDE DEF a, b
<1>3. CASE i = 0
  <2>1. j \in 1..Len(b) /\ j - 1 \in 0..Len(b) /\ 0 \in 0..Len(a)
    BY <1>1, <1>2, <1>3
  <2>2. matrix[i][j] = j /\ matrix[i][j - 1] = j - 1
    BY <1>1, <1>2, <1>3, <2>1 DEF IsMatrix
  <2>3. Inserts
    BY <1>2, <1>3, <2>1, <2>2 DEF Inserts
  <2>4. ~ (dir > 0)
    <3> SUFFICES ASSUME dir > 0 PROVE FALSE
      OBVIOUS
    <3>1. i + 1 = 1 /\ 1 \in 1..Len(a) /\ matrix[1][j] = j + 1
      BY <1>2, <1>3, <2>2 DEF BackInv, a
    <3>2. matrix[1][j] <= matrix[0][j - 1] + Penalty(1, a[1], b[j])
      BY <1>1, <2>1, <3>1 DEF IsMatrix, Least
    <3>3. Penalty(1, a[1], b[j]) \in {0, 1}
      BY DEF Penalty
    <3> QED
      BY <1>2, <1>3, <2>2, <3>1, <3>2, <3>3
  <2> QED
    BY <2>3, <2>4
<1>4. CASE j = 0
  <2>1. i \in 1..Len(a) /\ i - 1 \in 0..Len(a) /\ 0 \in 0..Len(b)
    BY <1>1, <1>2, <1>4
  <2>2. matrix[i][j] = i /\ matrix[i - 1][j] = i - 1
    BY <1>1, <1>2, <1>4, <2>1 DEF IsMatrix
  <2>3. Deletes
    BY <1>2, <1>4, <2>1, <2>2 DEF Deletes
  <2>4. ~ (dir < 0)
    <3> SUFFICES ASSUME dir < 0 PROVE FALSE
      OBVIOUS
    <3>1. j + 1 = 1 /\ 1 \in 1..Len(b) /\ matrix[i][1] = i + 1
      BY <1>2, <1>4, <2>2 DEF BackInv, b
    <3>2. matrix[i][1] <= matrix[i - 1][0] + Penalty(1, a[i], b[1])
      BY <1>1, <2>1, <3>1 DEF IsMatrix, Least
    <3>3. Penalty(1, a[i], b[1]) \in {0, 1}
      BY DEF Penalty
    <3> QED
      BY <1>2, <1>4, <2>2, <3>1, <3>2, <3>3
  <2> QED
    BY <2>3, <2>4
<1>5. CASE i > 0 /\ j > 0
  <2>1. i \in 1..Len(a) /\ j \in 1..Len(b)
    BY <1>2, <1>5
  <2>2. Least(matrix[i][j], matrix[i - 1][j - 1] + Penalty(1, a[i], b[j]),
              matrix[i][j - 1] + 1, matrix[i - 1][j] + 1)
    BY <1>1, <2>1 DEF IsMatrix
  <2>3. /\ matrix[i][j] \in Nat /\ matrix[i - 1][j - 1] \in Nat
        /\ matrix[i][j - 1] \in Nat /\ matrix[i - 1][j] \in Nat
    <3>1. i - 1 \in 0..Len(a) /\ j - 1 \in 0..Len(b)
      BY <1>1, <2>1
    <3> QED
      BY <1>1, <1>2, <3>1 DEF IsMatrix
  <2>4. matrix[i][j] = matrix[i - 1][j - 1] + Penalty(1, a[i], b[j]) => Diagonal
    <3>1. CASE a[i] = b[j]
      BY <1>5, <2>3, <3>1 DEF Diagonal, Keeps, Penalty, a, b
    <3>2. CASE a[i] # b[j]
      BY <1>5, <2>3, <3>2 DEF Diagonal, Replaces, Penalty
    <3> QED
      BY <3>1, <3>2
  <2>5. matrix[i][j] = matrix[i][j - 1] + 1 => Inserts
    BY <1>5 DEF Inserts
  <2>6. matrix[i][j] = matrix[i - 1][j] + 1 => Deletes
    BY <1>5 DEF Deletes
  <2>7. Diagonal \/ Inserts \/ Deletes
    BY <2>2, <2>4, <2>5, <2>6 DEF Least
  <2>8. dir < 0 => matrix[i][j] # matrix[i - 1][j] + 1
    <3> SUFFICES ASSUME dir < 0, matrix[i][j] = matrix[i - 1][j] + 1 PROVE FALSE
      OBVIOUS
    <3>1. j + 1 \in 1..Len(b) /\ matrix[i][j + 1] = matrix[i][j] + 1 /\ (j + 1) - 1 = j
      BY <1>2 DEF BackInv, b
    <3>2. matrix[i][j + 1] <= matrix[i - 1][j] + Penalty(1, a[i], b[j + 1])
      BY <1>1, <2>1, <3>1 DEF IsMatrix, Least
    <3>3. Penalty(1, a[i], b[j + 1]) \in {0, 1}
      BY DEF Penalty
    <3> QED
      BY <2>3, <3>1, <3>2, <3>3
  <2>9. dir > 0 => matrix[i][j] # matrix[i][j - 1] + 1
    <3> SUFFICES ASSUME dir > 0, matrix[i][j] = matrix[i][j - 1] + 1 PROVE FALSE
      OBVIOUS
    <3>1. i + 1 \in 1..Len(a) /\ matrix[i + 1][j] = matrix[i][j] + 1 /\ (i + 1) - 1 = i
      BY <1>2 DEF BackInv, a
    <3>2. matrix[i + 1][j] <= matrix[i][j - 1] + Penalty(1, a[i + 1], b[j])
      BY <1>1, <2>1, <3>1 DEF IsMatrix, Least
    <3>3. Penalty(1, a[i + 1], b[j]) \in {0, 1}
      BY DEF Penalty
    <3> QED
      BY <2>3, <3>1, <3>2, <3>3
  <2> QED
    BY <2>2, <2>4, <2>5, <2>6, <2>7, <2>8, <2>9 DEF Least
<1> QED
  BY <1>2, <1>3, <1>4, <1>5

\* Where the invariant holds, a step back is possible.
LEMMA NeverLostLocal == EditInv => NeverLost
<1> SUFFICES ASSUME EditInv, stage = "back", i > 0 \/ j > 0
             PROVE  Straight \/ Diagonal \/ (dir = 0 /\ (Inserts \/ Deletes))
  BY DEF NeverLost
<1>1. BackInv /\ dir \in {-1, 0, 1}
  BY DEF EditInv, BackInv
<1>2. /\ Diagonal \/ Inserts \/ Deletes
      /\ dir < 0 => Diagonal \/ Inserts
      /\ dir > 0 => Diagonal \/ Deletes
  BY <1>1, SomeStep DEF EditInv
<1>3. dir < 0 \/ dir = 0 \/ dir > 0
  BY <1>1
<1> QED
  BY <1>2, <1>3 DEF Straight

\* It holds at first.
LEMMA InitEditInv == Init => EditInv
  BY DEF Init, EditInv

\* The matrix is filled and the way starts at its last cell.
LEMMA FillMatrixInv ==
  ASSUME EditInv, FillMatrix
  PROVE  EditInv'
<1>1. /\ string1' = string1 /\ string2' = string2 /\ stage' = "back"
      /\ stage = "measured"
      /\ matrix' = CostMatrix(Rest.first, Rest.second)
      /\ i' = Len(Rest.first) /\ j' = Len(Rest.second) /\ dir' = dir /\ ops' = ops
  BY DEF FillMatrix, inputs
<1>2. Rest' = Rest
  BY <1>1 DEF Rest
<1>3. /\ string1 \in Strings /\ string2 \in Strings /\ dir = 0 /\ ops = <<>>
  BY <1>1 DEF EditInv
<1>4. /\ Len(Rest.first) \in Nat /\ Len(Rest.second) \in Nat
      /\ IsMatrix(CostMatrix(Rest.first, Rest.second), Rest.first, Rest.second, 1)
  BY <1>3, RestMatrix
<1>5. ops' \in Seq(Operation) /\ Len(ops') = 0
  BY <1>1, <1>3
<1>6. matrix'[i'][j'] \in Nat
  BY <1>1, <1>4 DEF IsMatrix
<1>7. BackInv'
  BY <1>1, <1>2, <1>3, <1>4, <1>5, <1>6 DEF BackInv, Cost
<1> QED
  BY <1>1, <1>3, <1>7 DEF EditInv

\* What a step back leaves alone, and where it leads.
LEMMA StepBack ==
  ASSUME EditInv, stage = "back", Insert \/ Delete \/ Keep \/ Replace
  PROVE  /\ UNCHANGED <<string1, string2, stage, matrix, Rest>>
         /\ string1 \in Strings /\ string2 \in Strings /\ BackInv
         /\ Len(Rest.first) \in Nat /\ Len(Rest.second) \in Nat
         /\ IsMatrix(matrix, Rest.first, Rest.second, 1)
         /\ Cost' = Cost
<1>1. UNCHANGED <<string1, string2, stage, matrix>>
  BY DEF Insert, Delete, Keep, Replace, Back, inputs
<1>2. Rest' = Rest
  BY <1>1 DEF Rest
<1>3. string1 \in Strings /\ string2 \in Strings /\ BackInv
  BY DEF EditInv
<1> QED
  BY <1>1, <1>2, <1>3, RestMatrix DEF BackInv, Cost

\* An operation more.
LEMMA PushType ==
  ASSUME NEW op \in Operation, ops \in Seq(Operation)
  PROVE  <<op>> \o ops \in Seq(Operation) /\ Len(<<op>> \o ops) = Len(ops) + 1
<1>1. <<op>> \in Seq(Operation) /\ Len(<<op>>) = 1
  OBVIOUS
<1>2. Len(ops) \in Nat
  BY LenProperties
<1> QED
  BY <1>1, <1>2, ConcatProperties

\* Each step back keeps the invariant, an insertion,
LEMMA InsertInv ==
  ASSUME EditInv, Insert
  PROVE  EditInv'
<1> DEFINE op == [type |-> "insert", spos |-> i - 0 + Rest.offset,
                  dpos |-> j - 1 + Rest.offset]
<1>1. /\ UNCHANGED <<string1, string2, stage, matrix, Rest>>
      /\ string1 \in Strings /\ string2 \in Strings /\ BackInv
      /\ Len(Rest.first) \in Nat /\ Len(Rest.second) \in Nat
      /\ IsMatrix(matrix, Rest.first, Rest.second, 1)
      /\ Cost' = Cost /\ stage = "back"
  BY StepBack DEF Insert
<1>2. /\ j > 0 /\ matrix[i][j] = matrix[i][j - 1] + 1
      /\ i' = i - 0 /\ j' = j - 1 /\ dir' = -1 /\ ops' = <<op>> \o ops
  BY DEF Insert, Inserts, Push, Back
<1>3. /\ i \in 0..Len(Rest.first) /\ j \in 1..Len(Rest.second)
      /\ j - 1 \in 0..Len(Rest.second) /\ i - 0 = i /\ (j - 1) + 1 = j
  BY <1>1, <1>2 DEF BackInv
<1>4. op \in Operation
  BY <1>1, <1>3, RestMatrix DEF Operation
<1> HIDE DEF op
<1>5. ops' \in Seq(Operation) /\ Len(ops') = Len(ops) + 1 /\ Len(ops) \in Nat
  BY <1>1, <1>2, <1>4, PushType, LenProperties DEF BackInv
<1>6. matrix[i][j - 1] \in Nat
  BY <1>1, <1>3 DEF IsMatrix
<1>7. matrix'[i'][j'] = matrix[i][j - 1] /\ matrix' = CostMatrix(Rest.first, Rest.second)
  BY <1>1, <1>2, <1>3 DEF BackInv
<1>8. Len(ops') + matrix'[i'][j'] = Cost'
  <2>1. Len(ops) + matrix[i][j] = Cost
    BY <1>1 DEF BackInv
  <2>2. Len(ops) + (matrix[i][j - 1] + 1) = Cost
    BY <1>2, <2>1
  <2> QED
    BY <1>1, <1>5, <1>6, <1>7, <2>2
<1>9. BackInv'
  BY <1>1, <1>2, <1>3, <1>5, <1>7, <1>8 DEF BackInv
<1> QED
  BY <1>1, <1>9 DEF EditInv

\* a deletion,
LEMMA DeleteInv ==
  ASSUME EditInv, Delete
  PROVE  EditInv'
<1> DEFINE op == [type |-> "delete", spos |-> i - 1 + Rest.offset,
                  dpos |-> j - 0 + Rest.offset]
<1>1. /\ UNCHANGED <<string1, string2, stage, matrix, Rest>>
      /\ string1 \in Strings /\ string2 \in Strings /\ BackInv
      /\ Len(Rest.first) \in Nat /\ Len(Rest.second) \in Nat
      /\ IsMatrix(matrix, Rest.first, Rest.second, 1)
      /\ Cost' = Cost /\ stage = "back"
  BY StepBack DEF Delete
<1>2. /\ i > 0 /\ matrix[i][j] = matrix[i - 1][j] + 1
      /\ i' = i - 1 /\ j' = j - 0 /\ dir' = 1 /\ ops' = <<op>> \o ops
  BY DEF Delete, Deletes, Push, Back
<1>3. /\ i \in 1..Len(Rest.first) /\ j \in 0..Len(Rest.second)
      /\ i - 1 \in 0..Len(Rest.first) /\ j - 0 = j /\ (i - 1) + 1 = i
  BY <1>1, <1>2 DEF BackInv
<1>4. op \in Operation
  BY <1>1, <1>3, RestMatrix DEF Operation
<1> HIDE DEF op
<1>5. ops' \in Seq(Operation) /\ Len(ops') = Len(ops) + 1 /\ Len(ops) \in Nat
  BY <1>1, <1>2, <1>4, PushType, LenProperties DEF BackInv
<1>6. matrix[i - 1][j] \in Nat
  BY <1>1, <1>3 DEF IsMatrix
<1>7. matrix'[i'][j'] = matrix[i - 1][j] /\ matrix' = CostMatrix(Rest.first, Rest.second)
  BY <1>1, <1>2, <1>3 DEF BackInv
<1>8. Len(ops') + matrix'[i'][j'] = Cost'
  <2>1. Len(ops) + matrix[i][j] = Cost
    BY <1>1 DEF BackInv
  <2>2. Len(ops) + (matrix[i - 1][j] + 1) = Cost
    BY <1>2, <2>1
  <2> QED
    BY <1>1, <1>5, <1>6, <1>7, <2>2
<1>9. BackInv'
  BY <1>1, <1>2, <1>3, <1>5, <1>7, <1>8 DEF BackInv
<1> QED
  BY <1>1, <1>9 DEF EditInv

\* a letter that is kept,
LEMMA KeepInv ==
  ASSUME EditInv, Keep
  PROVE  EditInv'
<1>1. /\ UNCHANGED <<string1, string2, stage, matrix, Rest>>
      /\ string1 \in Strings /\ string2 \in Strings /\ BackInv
      /\ Len(Rest.first) \in Nat /\ Len(Rest.second) \in Nat
      /\ Cost' = Cost /\ stage = "back"
  BY StepBack DEF Keep
<1>2. /\ i > 0 /\ j > 0 /\ matrix[i][j] = matrix[i - 1][j - 1]
      /\ i' = i - 1 /\ j' = j - 1 /\ dir' = 0 /\ ops' = ops
  BY DEF Keep, Keeps, Back
<1>3. i - 1 \in 0..Len(Rest.first) /\ j - 1 \in 0..Len(Rest.second)
  BY <1>1, <1>2 DEF BackInv
<1>4. BackInv'
  BY <1>1, <1>2, <1>3 DEF BackInv
<1> QED
  BY <1>1, <1>4 DEF EditInv

\* and a replacement.
LEMMA ReplaceInv ==
  ASSUME EditInv, Replace
  PROVE  EditInv'
<1> DEFINE op == [type |-> "replace", spos |-> i - 1 + Rest.offset,
                  dpos |-> j - 1 + Rest.offset]
<1>1. /\ UNCHANGED <<string1, string2, stage, matrix, Rest>>
      /\ string1 \in Strings /\ string2 \in Strings /\ BackInv
      /\ Len(Rest.first) \in Nat /\ Len(Rest.second) \in Nat
      /\ IsMatrix(matrix, Rest.first, Rest.second, 1)
      /\ Cost' = Cost /\ stage = "back"
  BY StepBack DEF Replace
<1>2. /\ i > 0 /\ j > 0 /\ matrix[i][j] = matrix[i - 1][j - 1] + 1
      /\ i' = i - 1 /\ j' = j - 1 /\ dir' = 0 /\ ops' = <<op>> \o ops
  BY DEF Replace, Replaces, Push, Back
<1>3. i - 1 \in 0..Len(Rest.first) /\ j - 1 \in 0..Len(Rest.second)
  BY <1>1, <1>2 DEF BackInv
<1>4. op \in Operation
  BY <1>1, <1>3, RestMatrix DEF Operation
<1> HIDE DEF op
<1>5. ops' \in Seq(Operation) /\ Len(ops') = Len(ops) + 1 /\ Len(ops) \in Nat
  BY <1>1, <1>2, <1>4, PushType, LenProperties DEF BackInv
<1>6. matrix[i - 1][j - 1] \in Nat
  BY <1>1, <1>3 DEF IsMatrix
<1>7. /\ matrix'[i'][j'] = matrix[i - 1][j - 1]
      /\ matrix' = CostMatrix(Rest.first, Rest.second)
  BY <1>1, <1>2, <1>3 DEF BackInv
<1>8. Len(ops') + matrix'[i'][j'] = Cost'
  <2>1. Len(ops) + matrix[i][j] = Cost
    BY <1>1 DEF BackInv
  <2>2. Len(ops) + (matrix[i - 1][j - 1] + 1) = Cost
    BY <1>2, <2>1
  <2> QED
    BY <1>1, <1>5, <1>6, <1>7, <2>2
<1>9. BackInv'
  BY <1>1, <1>2, <1>3, <1>5, <1>7, <1>8 DEF BackInv
<1> QED
  BY <1>1, <1>9 DEF EditInv

\* Every step keeps it.
LEMMA NextEditInv == EditInv /\ [Next]_vars => EditInv'
<1> SUFFICES ASSUME EditInv, [Next]_vars PROVE EditInv'
  OBVIOUS
<1>1. CASE Measure
  BY <1>1 DEF Measure, EditInv, inputs, pathVars
<1>2. CASE FillMatrix
  BY <1>2, FillMatrixInv
<1>3. CASE Insert
  BY <1>3, InsertInv
<1>4. CASE Delete
  BY <1>4, DeleteInv
<1>5. CASE Keep
  BY <1>5, KeepInv
<1>6. CASE Replace
  BY <1>6, ReplaceInv
<1>7. CASE Found \/ Count \/ CountRest \/ Convert \/ ConvertRest
  <2>1. /\ string1' = string1 /\ string2' = string2
        /\ stage' \in {"count", "convert", "done"}
    BY <1>7 DEF Found, Count, CountRest, Convert, ConvertRest, inputs
  <2> QED
    BY <2>1 DEF EditInv
<1>8. CASE UNCHANGED vars
  <2>1. /\ UNCHANGED <<string1, string2, stage, matrix, i, j, dir, ops>>
    BY <1>8 DEF vars, inputs, pathVars
  <2>2. Rest' = Rest
    BY <2>1 DEF Rest
  <2> QED
    BY <2>1, <2>2 DEF EditInv, BackInv, Cost
<1> QED
  BY <1>1, <1>2, <1>3, <1>4, <1>5, <1>6, <1>7, <1>8 DEF Next

\* In every state lev_editops_find has found operations of the cost it set out for.
THEOREM EditInvariant == Spec => []EditInv
  BY InitEditInv, NextEditInv, PTL DEF Spec

\* The way back always finds a step: the assertion "lost in the cost matrix" of
\* lev_editops_find never fails, for any strings.
THEOREM BackNeverLost == Spec => []NeverLost
  BY EditInvariant, NeverLostLocal, PTL

-----------------------------------------------------------------------------
(* The matrix holds the edit distances.                                    *)

\* The letters lined up with different ones.
Unequal(al, a, b) == {p \in DOMAIN al : a[p] # b[al[p]]}

\* What a way to line up the first x letters of a and y letters of b costs.
PrefixCost(al, a, b, weight, x, y) ==
    x + y - 2 * Cardinality(DOMAIN al) + weight * Cardinality(Unequal(al, a, b))

\* Letters x and y are lined up too.
Extended(al, x, y) ==
    [p \in DOMAIN al \cup {x} |-> IF p = x THEN y ELSE al[p]]

\* Alignments without the union.
LEMMA AlignmentType ==
  ASSUME NEW x \in Nat, NEW y \in Nat, NEW al
  PROVE  al \in Alignments(x, y) <=>
            /\ DOMAIN al \in SUBSET (1..x) /\ al \in [DOMAIN al -> 1..y]
            /\ \A p, q \in DOMAIN al : p < q => al[p] < al[q]
  BY DEF Alignments

\* Costs are integers.
LEMMA PrefixCostType ==
  ASSUME NEW x \in Nat, NEW y \in Nat, NEW al \in Alignments(x, y), NEW a, NEW b,
         NEW weight \in Weights
  PROVE  /\ IsFiniteSet(DOMAIN al) /\ Cardinality(DOMAIN al) \in Nat
         /\ IsFiniteSet(Unequal(al, a, b)) /\ Cardinality(Unequal(al, a, b)) \in Nat
         /\ PrefixCost(al, a, b, weight, x, y) \in Int
<1> DEFINE A == DOMAIN al
           B == Unequal(al, a, b)
<1>1. A \in SUBSET (1..x)
  BY AlignmentType
<1>2. IsFiniteSet(A)
  BY <1>1, LengthCardinality, FS_Subset
<1>3. IsFiniteSet(B)
  BY <1>2, FS_Subset DEF Unequal
<1>4. Cardinality(A) \in Nat /\ Cardinality(B) \in Nat
  BY <1>2, <1>3, FS_CardinalityType
<1>5. PrefixCost(al, a, b, weight, x, y)
        = x + y - 2 * Cardinality(A) + weight * Cardinality(B)
  BY DEF PrefixCost
<1> HIDE DEF A, B
<1>6. weight = 1 \/ weight = 2
  BY DEF Weights
<1>7. PrefixCost(al, a, b, weight, x, y) \in Int
  BY <1>4, <1>5, <1>6
<1> QED
  BY <1>2, <1>3, <1>4, <1>7 DEF A, B

\* Lining up one more letter of each costs what replacing one by the other does.
LEMMA ExtendedCosts ==
  ASSUME NEW x \in Nat \ {0}, NEW y \in Nat \ {0}, NEW al \in Alignments(x - 1, y - 1),
         NEW a, NEW b, NEW weight \in Weights
  PROVE  /\ Extended(al, x, y) \in Alignments(x, y)
         /\ PrefixCost(Extended(al, x, y), a, b, weight, x, y)
              = PrefixCost(al, a, b, weight, x - 1, y - 1) + Penalty(weight, a[x], b[y])
<1> DEFINE ext == Extended(al, x, y)
           A == DOMAIN al
           B == Unequal(al, a, b)
           E == DOMAIN ext
           F == Unequal(ext, a, b)
<1>1. x - 1 \in Nat /\ y - 1 \in Nat
  OBVIOUS
<1>2. /\ A \in SUBSET (1..(x - 1)) /\ al \in [A -> 1..(y - 1)]
      /\ \A p, q \in A : p < q => al[p] < al[q]
  BY <1>1, AlignmentType
<1>3. /\ E = A \cup {x} /\ x \notin A /\ ext[x] = y
      /\ \A p \in A : ext[p] = al[p]
  BY <1>2 DEF Extended
<1>4. ext \in Alignments(x, y)
  <2>1. E \in SUBSET (1..x)
    BY <1>2, <1>3
  <2>2. ext \in [E -> 1..y]
    BY <1>2 DEF Extended
  <2>3. ASSUME NEW p \in E, NEW q \in E, p < q PROVE ext[p] < ext[q]
    <3>1. p # x
      BY <1>2, <1>3, <2>3
    <3>2. p \in A /\ ext[p] = al[p] /\ al[p] \in 1..(y - 1)
      BY <1>2, <1>3, <3>1
    <3>3. CASE q = x
      BY <1>3, <3>2, <3>3
    <3>4. CASE q # x
      BY <1>2, <1>3, <2>3, <3>2, <3>4
    <3> QED
      BY <3>3, <3>4
  <2> HIDE DEF ext
  <2> QED
    BY <2>1, <2>2, <2>3, AlignmentType
<1>5. /\ IsFiniteSet(A) /\ Cardinality(A) \in Nat
      /\ IsFiniteSet(B) /\ Cardinality(B) \in Nat
  BY <1>1, PrefixCostType
<1> HIDE DEF ext
<1>6. Cardinality(E) = Cardinality(A) + 1
  BY <1>3, <1>5, FS_AddElement
<1>7. F = IF a[x] = b[y] THEN B ELSE B \cup {x}
  BY <1>3 DEF Unequal
<1>8. x \notin B
  BY <1>3 DEF Unequal
<1>9. Cardinality(F) = Cardinality(B) + (IF a[x] = b[y] THEN 0 ELSE 1)
  <2> HIDE DEF F, B
  <2>1. Cardinality(B \cup {x}) = Cardinality(B) + 1
    BY <1>5, <1>8, FS_AddElement
  <2> QED
    BY <1>5, <1>7, <2>1
<1>10. /\ PrefixCost(ext, a, b, weight, x, y)
            = x + y - 2 * Cardinality(E) + weight * Cardinality(F)
       /\ PrefixCost(al, a, b, weight, x - 1, y - 1)
            = (x - 1) + (y - 1) - 2 * Cardinality(A) + weight * Cardinality(B)
  BY DEF PrefixCost
<1> HIDE DEF A, B, E, F
<1>11. PrefixCost(ext, a, b, weight, x, y)
         = PrefixCost(al, a, b, weight, x - 1, y - 1) + Penalty(weight, a[x], b[y])
  <2>1. CASE a[x] = b[y]
    <3>1. Cardinality(F) = Cardinality(B) /\ Penalty(weight, a[x], b[y]) = 0
      BY <1>5, <1>9, <2>1 DEF Penalty
    <3>2. weight * Cardinality(B) \in Int
      BY <1>5 DEF Weights
    <3> QED
      BY <1>5, <1>6, <1>10, <3>1, <3>2
  <2>2. CASE a[x] # b[y]
    <3>1. Cardinality(F) = Cardinality(B) + 1 /\ Penalty(weight, a[x], b[y]) = weight
      BY <1>5, <1>9, <2>2 DEF Penalty
    <3>2. weight * (Cardinality(B) + 1) = weight * Cardinality(B) + weight
      BY <1>5 DEF Weights
    <3>3. weight * Cardinality(B) \in Int
      BY <1>5 DEF Weights
    <3> QED
      BY <1>5, <1>6, <1>10, <3>1, <3>2, <3>3 DEF Weights
  <2> QED
    BY <2>1, <2>2
<1> QED
  BY <1>4, <1>11 DEF ext

\* A letter more on one side only is left over.
LEMMA LongerCosts ==
  ASSUME NEW x \in Nat, NEW y \in Nat, NEW al, NEW a, NEW b, NEW weight \in Weights
  PROVE  /\ x # 0 /\ al \in Alignments(x - 1, y) =>
               /\ al \in Alignments(x, y)
               /\ PrefixCost(al, a, b, weight, x, y)
                    = PrefixCost(al, a, b, weight, x - 1, y) + 1
         /\ y # 0 /\ al \in Alignments(x, y - 1) =>
               /\ al \in Alignments(x, y)
               /\ PrefixCost(al, a, b, weight, x, y)
                    = PrefixCost(al, a, b, weight, x, y - 1) + 1
<1> DEFINE A == Cardinality(DOMAIN al)
           B == Cardinality(Unequal(al, a, b))
<1>1. \A u, v : PrefixCost(al, a, b, weight, u, v) = u + v - 2 * A + weight * B
  BY DEF PrefixCost
<1>2. ASSUME NEW u \in Nat, NEW v \in Nat, al \in Alignments(u, v)
      PROVE  A \in Nat /\ weight * B \in Int
  <2>1. A \in Nat /\ B \in Nat
    BY <1>2, PrefixCostType
  <2> HIDE DEF A, B
  <2> QED
    BY <2>1 DEF Weights
<1> HIDE DEF A, B
<1>3. ASSUME x # 0, al \in Alignments(x - 1, y)
      PROVE  /\ al \in Alignments(x, y)
             /\ PrefixCost(al, a, b, weight, x, y)
                  = PrefixCost(al, a, b, weight, x - 1, y) + 1
  <2>1. x - 1 \in Nat
    BY <1>3
  <2>2. al \in Alignments(x, y)
    <3>1. /\ DOMAIN al \in SUBSET (1..(x - 1)) /\ al \in [DOMAIN al -> 1..y]
          /\ \A p, q \in DOMAIN al : p < q => al[p] < al[q]
      BY <1>3, <2>1, AlignmentType
    <3>2. DOMAIN al \in SUBSET (1..x)
      BY <2>1, <3>1
    <3> QED
      BY <3>1, <3>2, AlignmentType
  <2> QED
    BY <1>1, <1>2, <1>3, <2>1, <2>2
<1>4. ASSUME y # 0, al \in Alignments(x, y - 1)
      PROVE  /\ al \in Alignments(x, y)
             /\ PrefixCost(al, a, b, weight, x, y)
                  = PrefixCost(al, a, b, weight, x, y - 1) + 1
  <2>1. y - 1 \in Nat
    BY <1>4
  <2>2. al \in Alignments(x, y)
    <3>1. /\ DOMAIN al \in SUBSET (1..x) /\ al \in [DOMAIN al -> 1..(y - 1)]
          /\ \A p, q \in DOMAIN al : p < q => al[p] < al[q]
      BY <1>4, <2>1, AlignmentType
    <3>2. al \in [DOMAIN al -> 1..y]
      BY <2>1, <3>1
    <3> QED
      BY <3>1, <3>2, AlignmentType
  <2> QED
    BY <1>1, <1>2, <1>4, <2>1, <2>2
<1> QED
  BY <1>3, <1>4

\* The last letters are lined up with each other, or one of them is left over.
LEMMA AlignmentCases ==
  ASSUME NEW x \in Nat \ {0}, NEW y \in Nat \ {0}, NEW al \in Alignments(x, y)
  PROVE  \/ al \in Alignments(x - 1, y)
         \/ al \in Alignments(x, y - 1)
         \/ \E am \in Alignments(x - 1, y - 1) : al = Extended(am, x, y)
<1> DEFINE A == DOMAIN al
<1>1. /\ A \in SUBSET (1..x) /\ al \in [A -> 1..y]
      /\ \A p, q \in A : p < q => al[p] < al[q]
  BY AlignmentType
<1>2. x - 1 \in Nat /\ y - 1 \in Nat
  OBVIOUS
<1>3. CASE x \notin A
  <2>1. A \in SUBSET (1..(x - 1))
    BY <1>1, <1>3
  <2> QED
    BY <1>1, <1>2, <2>1, AlignmentType
<1>4. CASE x \in A /\ al[x] # y
  <2>1. ASSUME NEW p \in A PROVE al[p] \in 1..(y - 1)
    <3>1. al[x] \in 1..(y - 1)
      BY <1>1, <1>4
    <3>2. p = x \/ p < x
      BY <1>1
    <3>3. p < x => al[p] < al[x]
      BY <1>1, <1>4
    <3>4. al[p] \in 1..y
      BY <1>1
    <3> QED
      BY <3>1, <3>2, <3>3, <3>4
  <2>2. al \in [A -> 1..(y - 1)]
    BY <1>1, <2>1
  <2> QED
    BY <1>1, <1>2, <2>2, AlignmentType
<1>5. CASE x \in A /\ al[x] = y
  <2> DEFINE C == A \ {x}
             am == [p \in C |-> al[p]]
  <2>1. C \in SUBSET (1..(x - 1))
    BY <1>1
  <2>2. ASSUME NEW p \in C PROVE al[p] \in 1..(y - 1)
    <3>1. p \in A /\ p < x /\ al[p] \in 1..y
      BY <1>1
    <3>2. al[p] < al[x]
      BY <1>1, <1>5, <3>1
    <3> QED
      BY <1>5, <3>1, <3>2
  <2>3. am \in [C -> 1..(y - 1)] /\ DOMAIN am = C
    BY <2>2
  <2>4. \A p, q \in C : p < q => am[p] < am[q]
    BY <1>1
  <2>5. am \in Alignments(x - 1, y - 1)
    <3> HIDE DEF am, C
    <3> QED
      BY <1>2, <2>1, <2>3, <2>4, AlignmentType
  <2>6. al = Extended(am, x, y)
    <3>1. DOMAIN am \cup {x} = A
      BY <1>5, <2>3
    <3>2. \A p \in A : al[p] = IF p = x THEN y ELSE am[p]
      BY <1>5
    <3>3. al = [p \in A |-> IF p = x THEN y ELSE am[p]]
      <4> HIDE DEF am
      <4> QED
        BY <1>1, <3>2
    <3> HIDE DEF am, C, A
    <3> QED
      BY <3>1, <3>3 DEF Extended
  <2> QED
    BY <2>5, <2>6
<1> QED
  BY <1>3, <1>4, <1>5

\* Where one side has no letters there is one way, and all are left over.
LEMMA EmptySideCosts ==
  ASSUME NEW x \in Nat, NEW y \in Nat, x = 0 \/ y = 0, NEW a, NEW b,
         NEW weight \in Weights
  PROVE  /\ <<>> \in Alignments(x, y)
         /\ \A al \in Alignments(x, y) : PrefixCost(al, a, b, weight, x, y) = x + y
<1>1. <<>> \in Alignments(x, y)
  <2>1. DOMAIN <<>> = {} /\ <<>> \in [{} -> 1..y]
    OBVIOUS
  <2> QED
    BY <2>1, AlignmentType
<1>2. ASSUME NEW al \in Alignments(x, y)
      PROVE  PrefixCost(al, a, b, weight, x, y) = x + y
  <2>1. DOMAIN al \in SUBSET (1..x) /\ al \in [DOMAIN al -> 1..y]
    BY AlignmentType
  <2>2. DOMAIN al = {}
    <3>1. CASE x = 0
      BY <2>1, <3>1 DEF Weights
    <3>2. CASE y = 0
      <4>1. 1..y = {}
        BY <3>2
      <4> QED
        BY <2>1, <4>1
    <3> QED
      BY <3>1, <3>2
  <2>3. Cardinality(DOMAIN al) = 0 /\ Cardinality(Unequal(al, a, b)) = 0
    BY <2>2, FS_EmptySet DEF Unequal
  <2> QED
    BY <2>3 DEF PrefixCost, Weights
<1> QED
  BY <1>1, <1>2

\* Each cell is the least cost of all ways to line up what it stands for.
THEOREM CellsAreDistances ==
  ASSUME NEW a, NEW b, Len(a) \in Nat, Len(b) \in Nat, NEW weight \in Weights,
         NEW D, IsMatrix(D, a, b, weight)
  PROVE  \A x \in 0..Len(a), y \in 0..Len(b) :
            /\ \A al \in Alignments(x, y) : D[x][y] <= PrefixCost(al, a, b, weight, x, y)
            /\ \E al \in Alignments(x, y) : D[x][y] = PrefixCost(al, a, b, weight, x, y)
<1> DEFINE n == Len(a)
           m == Len(b)
           Price(al, x, y) == PrefixCost(al, a, b, weight, x, y)
           Good(x, y) == /\ \A al \in Alignments(x, y) : D[x][y] <= Price(al, x, y)
                         /\ \E al \in Alignments(x, y) : D[x][y] = Price(al, x, y)
           T == {s \in Nat : \A x \in 0..n, y \in 0..m : x + y <= s => Good(x, y)}
<1>1. n \in Nat /\ m \in Nat
  OBVIOUS
<1>2. ASSUME NEW x \in 0..n, NEW y \in 0..m, x = 0 \/ y = 0
      PROVE  Good(x, y)
  <2>1. x \in Nat /\ y \in Nat /\ 0 \in 0..n /\ 0 \in 0..m
    BY <1>1
  <2>2. D[x][y] = x + y
    <3>1. CASE x = 0
      BY <2>1, <3>1 DEF IsMatrix
    <3>2. CASE y = 0
      BY <2>1, <3>2 DEF IsMatrix
    <3> QED
      BY <1>2, <3>1, <3>2
  <2>3. /\ <<>> \in Alignments(x, y)
        /\ \A al \in Alignments(x, y) : Price(al, x, y) = x + y
    <3>1. x \in Nat /\ y \in Nat
      BY <2>1
    <3>2. x = 0 \/ y = 0
      BY <1>2
    <3> HIDE DEF n, m
    <3>3. <<>> \in Alignments(x, y)
      BY <3>1, <3>2, EmptySideCosts, Zenon
    <3>4. \A al \in Alignments(x, y) : PrefixCost(al, a, b, weight, x, y) = x + y
      <4> SUFFICES ASSUME NEW al \in Alignments(x, y)
                   PROVE  PrefixCost(al, a, b, weight, x, y) = x + y
        OBVIOUS
      <4> QED
        BY <3>1, <3>2, EmptySideCosts
    <3> QED
      BY <3>3, <3>4
  <2> HIDE DEF Price
  <2>4. x + y <= x + y
    BY <2>1
  <2> QED
    BY <2>2, <2>3, <2>4
<1>3. ASSUME NEW x \in 1..n, NEW y \in 1..m, Good(x - 1, y - 1), Good(x - 1, y),
             Good(x, y - 1)
      PROVE  Good(x, y)
  <2>1. /\ x \in Nat \ {0} /\ y \in Nat \ {0} /\ x \in 0..n /\ y \in 0..m
        /\ x - 1 \in 0..n /\ y - 1 \in 0..m /\ x - 1 \in Nat /\ y - 1 \in Nat
    BY <1>1
  <2> DEFINE p == Penalty(weight, a[x], b[y])
             diagonal == D[x - 1][y - 1]
             left == D[x][y - 1]
             up   == D[x - 1][y]
             cell == D[x][y]
  <2>2. /\ cell \in Nat /\ left \in Nat /\ up \in Nat /\ diagonal \in Nat
        /\ cell <= diagonal + p /\ cell <= left + 1 /\ cell <= up + 1
        /\ cell = diagonal + p \/ cell = left + 1 \/ cell = up + 1
    <3>1. Least(cell, diagonal + p, left + 1, up + 1)
      <4>1. x \in 1..Len(a) /\ y \in 1..Len(b)
        OBVIOUS
      <4>2. \A u \in 1..Len(a), v \in 1..Len(b) :
               Least(D[u][v], D[u - 1][v - 1] + Penalty(weight, a[u], b[v]),
                     D[u][v - 1] + 1, D[u - 1][v] + 1)
        BY Zenon DEF IsMatrix
      <4> QED
        BY <4>1, <4>2, Zenon
    <3>2. cell \in Nat /\ left \in Nat /\ up \in Nat /\ diagonal \in Nat
      <4>1. \A u \in 0..Len(a), v \in 0..Len(b) : D[u][v] \in Nat
        BY DEF IsMatrix
      <4> QED
        BY <2>1, <4>1, Zenon
    <3> QED
      BY <3>1, <3>2 DEF Least
  <2>3. p \in Nat
    BY DEF Penalty, Weights
  <2>4. /\ \A al \in Alignments(x - 1, y - 1) : diagonal <= Price(al, x - 1, y - 1)
        /\ \A al \in Alignments(x - 1, y) : up <= Price(al, x - 1, y)
        /\ \A al \in Alignments(x, y - 1) : left <= Price(al, x, y - 1)
    BY <1>3
  <2>5. /\ \E al \in Alignments(x - 1, y - 1) : diagonal = Price(al, x - 1, y - 1)
        /\ \E al \in Alignments(x - 1, y) : up = Price(al, x - 1, y)
        /\ \E al \in Alignments(x, y - 1) : left = Price(al, x, y - 1)
    BY <1>3
  <2>6. \A al \in Alignments(x - 1, y - 1) :
           /\ Extended(al, x, y) \in Alignments(x, y)
           /\ Price(Extended(al, x, y), x, y) = Price(al, x - 1, y - 1) + p
    BY <2>1, ExtendedCosts
  <2>7. \A al :
           /\ al \in Alignments(x - 1, y) =>
                 al \in Alignments(x, y) /\ Price(al, x, y) = Price(al, x - 1, y) + 1
           /\ al \in Alignments(x, y - 1) =>
                 al \in Alignments(x, y) /\ Price(al, x, y) = Price(al, x, y - 1) + 1
    <3>1. x \in Nat /\ y \in Nat /\ x # 0 /\ y # 0
      BY <2>1
    <3> QED
      BY <3>1, LongerCosts
  <2>8. \A al \in Alignments(x, y) :
           \/ al \in Alignments(x - 1, y)
           \/ al \in Alignments(x, y - 1)
           \/ \E am \in Alignments(x - 1, y - 1) : al = Extended(am, x, y)
    BY <2>1, AlignmentCases, Zenon
  <2>9. /\ \A al \in Alignments(x - 1, y - 1) : Price(al, x - 1, y - 1) \in Int
        /\ \A al \in Alignments(x - 1, y) : Price(al, x - 1, y) \in Int
        /\ \A al \in Alignments(x, y - 1) : Price(al, x, y - 1) \in Int
    <3>1. x \in Nat /\ y \in Nat
      BY <2>1
    <3> QED
      BY <2>1, <3>1, PrefixCostType, Zenon
  <2> HIDE DEF Price, p, diagonal, left, up, cell
  <2>10. ASSUME NEW al \in Alignments(x, y) PROVE cell <= Price(al, x, y)
    <3>1. CASE al \in Alignments(x - 1, y)
      BY <2>2, <2>4, <2>7, <2>9, <3>1
    <3>2. CASE al \in Alignments(x, y - 1)
      BY <2>2, <2>4, <2>7, <2>9, <3>2
    <3>3. ASSUME NEW am \in Alignments(x - 1, y - 1), al = Extended(am, x, y)
          PROVE  cell <= Price(al, x, y)
      BY <2>2, <2>3, <2>4, <2>6, <2>9, <3>3
    <3> QED
      BY <2>8, <3>1, <3>2, <3>3
  <2>11. \E al \in Alignments(x, y) : cell = Price(al, x, y)
    <3>1. CASE cell = diagonal + p
      BY <2>5, <2>6, <3>1
    <3>2. CASE cell = left + 1
      BY <2>5, <2>7, <3>2
    <3>3. CASE cell = up + 1
      BY <2>5, <2>7, <3>3
    <3> QED
      BY <2>2, <3>1, <3>2, <3>3
  <2> QED
    BY <2>10, <2>11 DEF cell
<1> HIDE DEF Good
<1>4. 0 \in T
  <2> SUFFICES ASSUME NEW x \in 0..n, NEW y \in 0..m, x + y <= 0 PROVE Good(x, y)
    OBVIOUS
  <2> QED
    BY <1>1, <1>2
<1>5. ASSUME NEW s \in Nat, s \in T PROVE s + 1 \in T
  <2> SUFFICES ASSUME NEW x \in 0..n, NEW y \in 0..m, x + y <= s + 1 PROVE Good(x, y)
    OBVIOUS
  <2>1. CASE x = 0 \/ y = 0
    BY <1>2, <2>1
  <2>2. CASE x # 0 /\ y # 0
    <3>1. /\ x \in 1..n /\ y \in 1..m /\ x - 1 \in 0..n /\ y - 1 \in 0..m
          /\ (x - 1) + y <= s /\ x + (y - 1) <= s /\ (x - 1) + (y - 1) <= s
      BY <1>1, <2>2
    <3>2. Good(x - 1, y - 1) /\ Good(x - 1, y) /\ Good(x, y - 1)
      BY <1>5, <3>1
    <3> QED
      BY <1>3, <3>1, <3>2
  <2> QED
    BY <2>1, <2>2
<1>6. Nat \subseteq T
  <2> HIDE DEF T
  <2> QED
    BY <1>4, <1>5, SetInduction
<1>7. ASSUME NEW x \in 0..n, NEW y \in 0..m PROVE Good(x, y)
  <2>1. x + y \in Nat /\ x + y <= x + y
    BY <1>1
  <2>2. x + y \in T
    <3> HIDE DEF T
    <3> QED
      BY <1>6, <2>1
  <2> QED
    BY <2>1, <2>2
<1> QED
  BY <1>7 DEF Good

\* The last cell of a matrix of costs is the edit distance.
LEMMA CornerIsDistance ==
  ASSUME NEW a, NEW b, Len(a) \in 0..MaxLength, Len(b) \in 0..MaxLength,
         NEW weight \in Weights, NEW D, IsMatrix(D, a, b, weight)
  PROVE  EditDistance(a, b, weight) = D[Len(a)][Len(b)]
<1> DEFINE n == Len(a)
           m == Len(b)
           cost(al) == AlignmentCost(al, a, b, weight)
           Costs == {cost(al) : al \in Alignments(n, m)}
           corner == D[n][m]
<1>1. n \in Nat /\ m \in Nat /\ n \in 0..n /\ m \in 0..m
  BY EditOpsAssumption
<1>2. AllAlignments[n][m] = Alignments(n, m)
  BY DEF AllAlignments
<1>3. EditDistance(a, b, weight) = Min(Costs)
  BY <1>2 DEF EditDistance
<1>4. \A al : PrefixCost(al, a, b, weight, n, m) = cost(al)
  BY DEF PrefixCost, AlignmentCost, Unequal
<1>5. \A x \in 0..n, y \in 0..m :
         /\ \A al \in Alignments(x, y) : D[x][y] <= PrefixCost(al, a, b, weight, x, y)
         /\ \E al \in Alignments(x, y) : D[x][y] = PrefixCost(al, a, b, weight, x, y)
  <2>1. Len(a) \in Nat /\ Len(b) \in Nat
    BY <1>1
  <2> QED
    BY <2>1, CellsAreDistances
<1> HIDE DEF n, m, cost
<1>6. corner \in Costs /\ \A c \in Costs : corner <= c
  BY <1>1, <1>4, <1>5
<1>7. corner \in Int
  <2>1. Len(a) \in Nat /\ Len(b) \in Nat
    BY <1>1 DEF n, m
  <2>2. \A x \in 0..n, y \in 0..m : D[x][y] \in Nat
    BY <2>1, CellsRise DEF n, m
  <2> QED
    BY <1>1, <2>2
<1>8. Costs \subseteq Int
  <2>1. \A al \in Alignments(n, m) : PrefixCost(al, a, b, weight, n, m) \in Int
    BY <1>1, PrefixCostType
  <2> QED
    BY <1>4, <2>1
<1> HIDE DEF corner, Costs
<1>9. /\ Min(Costs) \in Costs
      /\ \A c \in Costs : Min(Costs) <= c
  BY <1>6 DEF Min
<1>10. Min(Costs) = corner
  <2> DEFINE least == Min(Costs)
  <2>1. least \in Int /\ least <= corner /\ corner <= least
    BY <1>6, <1>8, <1>9
  <2> HIDE DEF least
  <2>2. least = corner
    BY <1>7, <2>1
  <2> QED
    BY <2>2 DEF least
<1> QED
  BY <1>3, <1>10 DEF corner, Costs, n, m, cost

\* There is one such distance only.
LEMMA CornersAgree ==
  ASSUME NEW a, NEW b, Len(a) \in Nat, Len(b) \in Nat,
         NEW weight \in Weights, NEW D, IsMatrix(D, a, b, weight),
         NEW E, IsMatrix(E, a, b, weight)
  PROVE  D[Len(a)][Len(b)] = E[Len(a)][Len(b)]
<1> DEFINE n == Len(a)
           m == Len(b)
           Price(al) == PrefixCost(al, a, b, weight, n, m)
<1>1. n \in 0..n /\ m \in 0..m
  OBVIOUS
<1>2. /\ \A al \in Alignments(n, m) : D[n][m] <= Price(al)
      /\ \E al \in Alignments(n, m) : D[n][m] = Price(al)
  BY <1>1, CellsAreDistances
<1>3. /\ \A al \in Alignments(n, m) : E[n][m] <= Price(al)
      /\ \E al \in Alignments(n, m) : E[n][m] = Price(al)
  BY <1>1, CellsAreDistances
<1>4. D[n][m] \in Nat /\ E[n][m] \in Nat
  BY <1>1, CellsRise
<1> HIDE DEF Price
<1>5. D[n][m] <= E[n][m] /\ E[n][m] <= D[n][m]
  BY <1>2, <1>3
<1> HIDE DEF n, m
<1>6. D[n][m] = E[n][m]
  BY <1>4, <1>5
<1> QED
  BY <1>6 DEF n, m

-----------------------------------------------------------------------------
(* A replacement that counts as two operations.                            *)

\* What the cell y of the next row is compared with, but for the cell above it.
XBest(row, next, c, b, y) == IF c = b[y] THEN row[y - 1] ELSE next[y - 1] + 1

\* The cells of XRow.
LEMMA XRowCells ==
  ASSUME NEW c, NEW b, Len(b) \in Nat, NEW row \in [0..Len(b) -> Nat], NEW x \in Nat
  PROVE  /\ XRow(row, x, c, b) \in [0..Len(b) -> Nat]
         /\ XRow(row, x, c, b)[0] = x
         /\ \A y \in 1..Len(b) :
               Least(XRow(row, x, c, b)[y], XBest(row, XRow(row, x, c, b), c, b, y),
                     XBest(row, XRow(row, x, c, b), c, b, y), row[y] + 1)
<1> DEFINE m == Len(b)
           best(y, left) == IF c = b[y] THEN row[y - 1] ELSE left + 1
           cell(y, left) == Min({IF c = b[y] THEN row[y - 1] ELSE left + 1, row[y] + 1})
           equation(f) == f = [y \in 0..m |-> IF y = 0 THEN x ELSE cell(y, f[y - 1])]
           next == XRow(row, x, c, b)
           step == [y \in 0..m |-> [left \in Nat |-> IF y = 0 THEN x ELSE cell(y, left)]]
<1>1. next = CHOOSE f : equation(f)
  BY Zenon DEF XRow
<1>2. m \in Nat /\ row \in [0..m -> Nat]
  OBVIOUS
<1> HIDE DEF m, next
<1>3. ASSUME NEW y \in 1..m, NEW left \in Nat
      PROVE  /\ cell(y, left) \in Nat
             /\ Least(cell(y, left), best(y, left), best(y, left), row[y] + 1)
  <2> DEFINE p == best(y, left)
             r == row[y] + 1
  <2>1. p \in Nat /\ r \in Nat
    BY <1>2
  <2>2. cell(y, left) = Min({p, p, r})
    <3>1. {p, p, r} = {p, r}
      BY Zenon
    <3> QED
      BY <3>1, Zenon
  <2> HIDE DEF cell, p, best
  <2>3. cell(y, left) \in Int /\ Least(cell(y, left), p, p, r)
    <3> HIDE DEF r
    <3> QED
      BY <2>1, <2>2, MinLeast
  <2>4. cell(y, left) \in Nat
    BY <2>1, <2>3 DEF Least
  <2> QED
    BY <2>3, <2>4 DEF p
<1> HIDE DEF cell, best
<1>4. step \in [0..m -> [Nat -> Nat]]
  <2>1. ASSUME NEW y \in 0..m, NEW left \in Nat
        PROVE  (IF y = 0 THEN x ELSE cell(y, left)) \in Nat
    <3>1. CASE y = 0
      BY <3>1
    <3>2. CASE y # 0
      <4>1. y \in 1..m
        BY <1>2, <3>2
      <4> QED
        BY <1>3, <3>2, <4>1
    <3> QED
      BY <3>1, <3>2
  <2> QED
    BY <2>1
<1>5. PICK f \in [0..m -> Nat] : Recurs(f, 0, m, x, step)
  <2>1. 0 \in Int /\ m \in Int
    BY <1>2
  <2> HIDE DEF step
  <2> QED
    BY <1>4, <2>1, RecursionExists, Zenon
<1>6. equation(f)
  <2>1. ASSUME NEW y \in 0..m PROVE f[y] = IF y = 0 THEN x ELSE cell(y, f[y - 1])
    <3>1. f[y] = IF y = 0 THEN x ELSE step[y][f[y - 1]]
      BY <1>5 DEF Recurs
    <3>2. y # 0 => y - 1 \in 0..m /\ f[y - 1] \in Nat
      BY <1>2
    <3> QED
      BY <3>1, <3>2
  <2> QED
    BY <2>1
<1>7. equation(next)
  <2> HIDE DEF equation
  <2> QED
    BY <1>1, <1>6
<1>8. /\ next = [y \in 0..m |-> next[y]]
      /\ \A y \in 0..m : next[y] = IF y = 0 THEN x ELSE cell(y, next[y - 1])
  BY <1>7, Zenon
<1>9. next[0] = x /\ \A y \in 1..m : next[y] = cell(y, next[y - 1])
  <2>1. 0 \in 0..m /\ \A y \in 1..m : y \in 0..m /\ y # 0
    BY <1>2
  <2> QED
    BY <1>8, <2>1, Zenon
<1>10. next \in [0..m -> Nat]
  <2>1. \A y \in 0..m : y # 0 /\ next[y - 1] \in Nat => next[y] \in Nat
    <3> SUFFICES ASSUME NEW y \in 0..m, y # 0, next[y - 1] \in Nat PROVE next[y] \in Nat
      OBVIOUS
    <3>1. y \in 1..m
      BY <1>2
    <3> QED
      BY <1>3, <1>9, <3>1
  <2>2. 0 \in Int /\ m \in Int /\ next[0] \in Nat
    BY <1>2, <1>9
  <2> QED
    BY <1>8, <2>1, <2>2, RecursionType, Zenon
<1>11. ASSUME NEW y \in 1..m
       PROVE  Least(next[y], best(y, next[y - 1]), best(y, next[y - 1]), row[y] + 1)
  <2>1. y - 1 \in 0..m
    BY <1>2
  <2>2. next[y - 1] \in Nat
    BY <1>10, <2>1
  <2> QED
    BY <1>3, <1>9, <2>2
<1> QED
  BY <1>9, <1>10, <1>11 DEF next, m, best, XBest

\* A row in which a cell costs at most one more than the one before it is
\* followed by another one, and the cell to the left need not be looked at
\* where the letters are equal, nor a replacement where they differ.
LEMMA XRowCosts ==
  ASSUME NEW a, NEW b, Len(b) \in Nat, NEW row \in [0..Len(b) -> Nat],
         NEW x \in Nat \ {0}, row[0] = x - 1,
         \A y \in 1..Len(b) : row[y] <= row[y - 1] + 1
  PROVE  /\ IsRow(XRow(row, x, a[x], b), row, x, a, b, 2)
         /\ \A y \in 1..Len(b) :
               XRow(row, x, a[x], b)[y] <= XRow(row, x, a[x], b)[y - 1] + 1
<1> DEFINE m == Len(b)
           next == XRow(row, x, a[x], b)
           best(y) == XBest(row, next, a[x], b, y)
           T == {y \in Nat : y <= m => row[y] <= next[y] + 1}
<1>1. /\ next \in [0..m -> Nat] /\ next[0] = x
      /\ \A y \in 1..m : Least(next[y], best(y), best(y), row[y] + 1)
  <2>1. x \in Nat
    OBVIOUS
  <2>2. \A c : /\ XRow(row, x, c, b) \in [0..Len(b) -> Nat]
               /\ XRow(row, x, c, b)[0] = x
               /\ \A y \in 1..Len(b) :
                     Least(XRow(row, x, c, b)[y], XBest(row, XRow(row, x, c, b), c, b, y),
                           XBest(row, XRow(row, x, c, b), c, b, y), row[y] + 1)
    BY <2>1, XRowCells
  <2> QED
    BY <2>2, Zenon
<1>2. m \in Nat /\ row \in [0..m -> Nat]
  OBVIOUS
<1> HIDE DEF next, m
<1>3. \A y \in 1..m : /\ y \in 0..m /\ y - 1 \in 0..m
                      /\ row[y] \in Nat /\ row[y - 1] \in Nat
                      /\ next[y] \in Nat /\ next[y - 1] \in Nat
                      /\ row[y] <= row[y - 1] + 1
  <2>1. \A y \in 1..m : y \in 0..m /\ y - 1 \in 0..m
    BY <1>2
  <2> QED
    BY <1>1, <1>2, <2>1 DEF m
<1>4. 0 \in T
  <2>1. 0 <= m => row[0] <= next[0] + 1
    BY <1>1
  <2> QED
    BY <2>1
<1>5. ASSUME NEW y \in 1..m, row[y - 1] <= next[y - 1] + 1
      PROVE  /\ Least(next[y], row[y - 1] + Penalty(2, a[x], b[y]), next[y - 1] + 1,
                      row[y] + 1)
             /\ next[y] <= next[y - 1] + 1
             /\ row[y] <= next[y] + 1
  <2> DEFINE p == Penalty(2, a[x], b[y])
             diagonal == row[y - 1]
             left == next[y - 1]
             up   == row[y]
             cell == next[y]
  <2>1. /\ diagonal \in Nat /\ left \in Nat /\ up \in Nat /\ cell \in Nat
        /\ up <= diagonal + 1 /\ diagonal <= left + 1
    BY <1>3, <1>5
  <2>2. /\ p = 0 \/ p = 2
        /\ p = 0 => /\ cell <= diagonal /\ cell <= up + 1
                    /\ (cell = diagonal \/ cell = up + 1)
        /\ p = 2 => /\ cell <= left + 1 /\ cell <= up + 1
                    /\ (cell = left + 1 \/ cell = up + 1)
    <3>1. Least(cell, best(y), best(y), up + 1)
      BY <1>1
    <3>2. (p = 0 /\ best(y) = diagonal) \/ (p = 2 /\ best(y) = left + 1)
      BY DEF Penalty, XBest
    <3> HIDE DEF p, best, diagonal, left, up, cell
    <3> QED
      BY <3>1, <3>2 DEF Least
  <2> HIDE DEF p, diagonal, left, up, cell
  <2>3. left <= diagonal + 1 \/ p = 0
    <3>1. CASE y = 1
      BY <1>1, <3>1 DEF left, diagonal
    <3>2. CASE y # 1
      \* The cell before it is not dearer than the one above it.
      <4>1. y - 1 \in 1..m
        BY <1>2, <3>2
      <4>2. Least(next[y - 1], best(y - 1), best(y - 1), row[y - 1] + 1)
        BY <1>1, <4>1
      <4> QED
        BY <4>2 DEF Least, left, diagonal
    <3> QED
      BY <3>1, <3>2
  <2>4. Least(cell, diagonal + p, left + 1, up + 1)
    BY <2>1, <2>2, <2>3 DEF Least
  <2>5. cell <= left + 1 /\ up <= cell + 1
    BY <2>1, <2>2
  <2> QED
    BY <2>4, <2>5 DEF p, diagonal, left, up, cell
<1>6. ASSUME NEW z \in Nat, z \in T PROVE z + 1 \in T
  <2> SUFFICES ASSUME z + 1 <= m PROVE row[z + 1] <= next[z + 1] + 1
    OBVIOUS
  <2>1. z + 1 \in 1..m /\ (z + 1) - 1 = z /\ row[z] <= next[z] + 1
    BY <1>2, <1>6
  <2>2. row[(z + 1) - 1] <= next[(z + 1) - 1] + 1
    BY <2>1
  <2> QED
    BY <1>5, <2>1, <2>2
<1>7. Nat \subseteq T
  <2> HIDE DEF T
  <2> QED
    BY <1>4, <1>6, SetInduction
<1>8. \A y \in 1..m : row[y - 1] <= next[y - 1] + 1
  <2> SUFFICES ASSUME NEW y \in 1..m PROVE row[y - 1] <= next[y - 1] + 1
    OBVIOUS
  <2>1. y - 1 \in Nat /\ y - 1 <= m
    BY <1>2
  <2>2. y - 1 \in T
    <3> HIDE DEF T
    <3> QED
      BY <1>7, <2>1
  <2> QED
    BY <2>1, <2>2
<1>9. \A y \in 1..m :
         /\ Least(next[y], row[y - 1] + Penalty(2, a[x], b[y]), next[y - 1] + 1,
                  row[y] + 1)
         /\ next[y] <= next[y - 1] + 1
  BY <1>5, <1>8
<1> QED
  BY <1>1, <1>9 DEF IsRow, next, m

\* Its first cell.
LEMMA XRowStarts ==
  ASSUME NEW c, NEW b, Len(b) \in Nat, NEW row \in [0..Len(b) -> Nat], NEW x \in Nat
  PROVE  XRow(row, x, c, b) \in [0..Len(b) -> Nat] /\ XRow(row, x, c, b)[0] = x
  BY XRowCells

\* The rows of XDistance are those of a matrix in which a replacement costs two.
LEMMA XDistanceCorner ==
  ASSUME NEW a, NEW b, Len(a) \in Nat, Len(b) \in Nat
  PROVE  \E D : IsMatrix(D, a, b, 2) /\ XDistance(a, b) = D[Len(a)][Len(b)]
<1> DEFINE m == Len(b)
           n == Len(a)
           Row == [0..m -> Nat]
           first == [y \in 0..m |-> y]
           equation(f) == f = [x \in 0..n |-> IF x = 0 THEN first
                                              ELSE XRow(f[x - 1], x, a[x], b)]
           rows == CHOOSE f : equation(f)
           step == [x \in 0..n |-> [row \in Row |-> XRow(row, x, a[x], b)]]
           Rises(row) == \A y \in 1..m : row[y] <= row[y - 1] + 1
           T == {x \in Nat : x <= n => Rises(rows[x])}
<1>1. XDistance(a, b) = rows[n][m]
  BY Zenon DEF XDistance
<1>2. m \in Nat /\ n \in Nat /\ first \in Row
  OBVIOUS
<1>3. ASSUME NEW x \in 0..n, NEW row \in Row
      PROVE  XRow(row, x, a[x], b) \in Row
  <2>1. x \in Nat
    BY <1>2
  <2>2. \A c : XRow(row, x, c, b) \in Row
    BY <1>2, <2>1, XRowCells
  <2> QED
    BY <2>2, Zenon
<1>4. ASSUME NEW x \in Nat, NEW row \in Row, NEW c PROVE XRow(row, x, c, b)[0] = x
  BY <1>2, XRowStarts
<1>5. \A y \in 0..m : first[y] = y
  OBVIOUS
<1> HIDE DEF m, n, first, rows
<1>6. step \in [0..n -> [Row -> Row]]
  <2> HIDE DEF Row
  <2> QED
    BY <1>3
<1>7. PICK f \in [0..n -> Row] : Recurs(f, 0, n, first, step)
  <2>1. 0 \in Int /\ n \in Int
    BY <1>2
  <2> HIDE DEF step, Row
  <2> QED
    BY <1>2, <1>6, <2>1, RecursionExists, Zenon
<1>8. equation(f)
  <2>1. ASSUME NEW x \in 0..n
        PROVE  f[x] = IF x = 0 THEN first ELSE XRow(f[x - 1], x, a[x], b)
    <3> HIDE DEF Row
    <3>1. f[x] = IF x = 0 THEN first ELSE step[x][f[x - 1]]
      BY <1>7 DEF Recurs
    <3>2. x # 0 => x - 1 \in 0..n /\ f[x - 1] \in Row
      BY <1>2
    <3> QED
      BY <3>1, <3>2
  <2> QED
    BY <2>1
<1>9. equation(rows)
  <2> HIDE DEF equation
  <2> QED
    BY <1>8 DEF rows
<1>10. /\ rows = [x \in 0..n |-> rows[x]]
       /\ \A x \in 0..n : rows[x] = IF x = 0 THEN first ELSE XRow(rows[x - 1], x, a[x], b)
  BY <1>9, Zenon
<1>11. rows[0] = first /\ \A x \in 1..n : rows[x] = XRow(rows[x - 1], x, a[x], b)
  <2>1. 0 \in 0..n /\ \A x \in 1..n : x \in 0..n /\ x # 0
    BY <1>2
  <2> QED
    BY <1>10, <2>1, Zenon
<1>12. rows \in [0..n -> Row]
  <2> HIDE DEF Row
  <2>1. \A x \in 0..n : x # 0 /\ rows[x - 1] \in Row => rows[x] \in Row
    BY <1>3, <1>10
  <2>2. 0 \in Int /\ n \in Int /\ rows[0] \in Row
    BY <1>2, <1>11
  <2> QED
    BY <1>10, <2>1, <2>2, RecursionType, Zenon
<1>13. ASSUME NEW x \in 1..n PROVE rows[x][0] = x
  <2>1. x - 1 \in 0..n /\ x \in Nat
    BY <1>2
  <2>2. rows[x - 1] \in Row /\ rows[x] = XRow(rows[x - 1], x, a[x], b)
    <3> HIDE DEF Row
    <3> QED
      BY <1>11, <1>12, <2>1
  <2> HIDE DEF Row
  <2> QED
    BY <1>4, <2>1, <2>2
<1>14. ASSUME NEW x \in 1..n
       PROVE  x - 1 \in 0..n /\ rows[x - 1] \in Row /\ rows[x - 1][0] = x - 1
  <2>1. x - 1 \in 0..n /\ (x - 1 # 0 => x - 1 \in 1..n) /\ x - 1 \in Nat
    BY <1>2
  <2>2. rows[x - 1] \in Row
    <3> HIDE DEF Row
    <3> QED
      BY <1>12, <2>1
  <2>3. rows[x - 1][0] = x - 1
    <3>1. CASE x - 1 = 0
      <4>1. 0 \in 0..m
        BY <1>2
      <4> QED
        BY <1>5, <1>11, <3>1, <4>1
    <3>2. CASE x - 1 # 0
      BY <1>13, <2>1, <3>2
    <3> QED
      BY <3>1, <3>2
  <2> QED
    BY <2>1, <2>2, <2>3
<1>15. ASSUME NEW x \in 1..n, Rises(rows[x - 1])
       PROVE  IsRow(rows[x], rows[x - 1], x, a, b, 2) /\ Rises(rows[x])
  <2>1. x \in Nat \ {0}
    BY <1>2
  <2> DEFINE row == rows[x - 1]
  <2>2. row \in [0..Len(b) -> Nat] /\ row[0] = x - 1
    BY <1>14 DEF m
  <2>3. \A y \in 1..Len(b) : row[y] <= row[y - 1] + 1
    BY <1>15 DEF m
  <2>4. Len(b) \in Nat
    OBVIOUS
  <2> HIDE DEF row
  <2>5. /\ IsRow(XRow(row, x, a[x], b), row, x, a, b, 2)
        /\ \A y \in 1..Len(b) :
              XRow(row, x, a[x], b)[y] <= XRow(row, x, a[x], b)[y - 1] + 1
    BY <2>1, <2>2, <2>3, <2>4, XRowCosts
  <2>6. rows[x] = XRow(row, x, a[x], b)
    BY <1>11 DEF row
  <2> QED
    BY <2>5, <2>6 DEF row, m
<1>16. 0 \in T
  <2>1. ASSUME NEW y \in 1..m PROVE first[y] <= first[y - 1] + 1
    <3>1. y \in 0..m /\ y - 1 \in 0..m
      BY <1>2
    <3>2. first[y] = y /\ first[y - 1] = y - 1
      BY <1>5, <3>1
    <3> QED
      BY <3>2
  <2> QED
    BY <1>11, <2>1
<1>17. ASSUME NEW z \in Nat, z \in T PROVE z + 1 \in T
  <2> SUFFICES ASSUME z + 1 <= n PROVE Rises(rows[z + 1])
    OBVIOUS
  <2>1. z + 1 \in 1..n /\ (z + 1) - 1 = z /\ Rises(rows[z])
    BY <1>2, <1>17
  <2> HIDE DEF Rises
  <2>2. Rises(rows[(z + 1) - 1])
    BY <2>1
  <2> QED
    BY <1>15, <2>1, <2>2
<1>18. Nat \subseteq T
  <2> HIDE DEF T
  <2> QED
    BY <1>16, <1>17, SetInduction
<1>19. ASSUME NEW x \in 1..n PROVE IsRow(rows[x], rows[x - 1], x, a, b, 2)
  <2>1. x - 1 \in Nat /\ x - 1 <= n
    BY <1>2
  <2>2. x - 1 \in T
    <3> HIDE DEF T
    <3> QED
      BY <1>18, <2>1
  <2>3. Rises(rows[x - 1])
    <3> HIDE DEF Rises
    <3> QED
      BY <2>1, <2>2
  <2> HIDE DEF Rises
  <2> QED
    BY <1>15, <2>3
<1>20. IsMatrix(rows, a, b, 2)
  <2>1. /\ \A y \in 0..m : rows[0][y] = y
        /\ \A x \in 0..n : rows[x][0] = x
    <3>1. 0 \in 0..m
      BY <1>2
    <3>2. \A x \in 0..n : x # 0 => x \in 1..n
      BY <1>2
    <3> QED
      BY <1>5, <1>11, <1>19, <3>1, <3>2 DEF IsRow
  <2>2. ASSUME NEW x \in 1..n, NEW y \in 1..m
        PROVE  Least(rows[x][y], rows[x - 1][y - 1] + Penalty(2, a[x], b[y]),
                     rows[x][y - 1] + 1, rows[x - 1][y] + 1)
    BY <1>19 DEF IsRow, m
  <2> QED
    BY <1>12, <2>1, <2>2 DEF IsMatrix, m, n
<1> QED
  BY <1>1, <1>20 DEF m, n

-----------------------------------------------------------------------------
(* The matrix without its corners.                                         *)

\* The least of the numbers that are there: p, q if up, and r if left.
LeastOf(v, p, q, up, r, left) ==
    /\ v <= p /\ (up => v <= q) /\ (left => v <= r)
    /\ v = p \/ (up /\ v = q) \/ (left /\ v = r)

\* Min returns it.
LEMMA MinLeastOf ==
  ASSUME NEW p \in Nat, NEW q, NEW r, NEW up \in BOOLEAN, NEW left \in BOOLEAN,
         up => q \in Nat, left => r \in Nat
  PROVE  LET v == Min(({p} \cup (IF up THEN {q} ELSE {})) \cup (IF left THEN {r} ELSE {}))
         IN  v \in Nat /\ LeastOf(v, p, q, up, r, left)
<1> DEFINE S == ({p} \cup (IF up THEN {q} ELSE {})) \cup (IF left THEN {r} ELSE {})
           q1 == IF up THEN q ELSE p
           r1 == IF left THEN r ELSE p
           v == Min({p, q1, r1})
<1>1. S = {p, q1, r1}
  <2>1. CASE up /\ left
    BY <2>1
  <2>2. CASE up /\ ~left
    BY <2>2
  <2>3. CASE ~up /\ left
    BY <2>3
  <2>4. CASE ~up /\ ~left
    BY <2>4
  <2> QED
    BY <2>1, <2>2, <2>3, <2>4
<1>2. q1 \in Nat /\ r1 \in Nat
  OBVIOUS
<1>3. v \in Int /\ Least(v, p, q1, r1)
  <2> HIDE DEF q1, r1
  <2> QED
    BY <1>2, MinLeast
<1> HIDE DEF v
<1>4. v \in Nat /\ LeastOf(v, p, q, up, r, left)
  BY <1>3, <1>2 DEF Least, LeastOf
<1> HIDE DEF S, q1, r1
<1>5. Min(S) = v
  BY <1>1 DEF v
<1> QED
  BY <1>4, <1>5 DEF S

\* The cells that BandDistance computes.
InBand(x, y, n, m) ==
    LET half == (n + 1) \div 2
    IN  x - y <= n - half /\ y - x <= m - half

\* A cell from which an alignment of no more than m operations may lead to the
\* last one.
OnTheWay(d, x, y, n, m) ==
    /\ d + ((m - y) - (n - x)) <= m
    /\ d + ((n - x) - (m - y)) <= m

\* The value c of a cell is not below the cost d, and is the cost where it
\* matters.
Enough(c, d, x, y, n, m) ==
    /\ c \in Nat /\ d <= c
    /\ OnTheWay(d, x, y, n, m) => c = d

\* A cell of the band is good enough if its neighbours in the band are: the
\* way to the last cell never leaves the band.
LEMMA BandCell ==
  ASSUME NEW n \in Nat, NEW m \in Nat, n <= m, NEW x \in 1..n, NEW y \in 1..m,
         InBand(x, y, n, m),
         NEW p \in Nat, NEW c \in Nat, NEW diagonal, NEW up, NEW left,
         NEW d \in Nat, NEW dd \in Nat, NEW du \in Nat, NEW dl \in Nat,
         Least(d, dd + p, dl + 1, du + 1),
         LeastOf(c, diagonal + p, up + 1, InBand(x - 1, y, n, m),
                 left + 1, InBand(x, y - 1, n, m)),
         Enough(diagonal, dd, x - 1, y - 1, n, m),
         InBand(x - 1, y, n, m) => Enough(up, du, x - 1, y, n, m),
         InBand(x, y - 1, n, m) => Enough(left, dl, x, y - 1, n, m),
         y - (x - 1) <= du, x - (y - 1) <= dl
  PROVE  Enough(c, d, x, y, n, m)
<1> DEFINE half == (n + 1) \div 2
           hasUp == InBand(x - 1, y, n, m)
           hasLeft == InBand(x, y - 1, n, m)
<1>1. half \in Nat /\ 2 * half <= n + 1
  OBVIOUS
<1>2. /\ x - y <= n - half /\ y - x <= m - half
      /\ hasUp <=> (x - 1) - y <= n - half /\ y - (x - 1) <= m - half
      /\ hasLeft <=> x - (y - 1) <= n - half /\ (y - 1) - x <= m - half
  BY DEF InBand
<1>3. x \in Nat /\ y \in Nat /\ x <= n /\ y <= m
  OBVIOUS
<1>4. hasUp \/ ~OnTheWay(du, x - 1, y, n, m)
  <2>1. CASE hasUp
    BY <2>1
  <2>2. CASE ~hasUp
    <3> HIDE DEF half, hasUp, hasLeft
    <3>1. y - (x - 1) >= m - half + 1
      BY <1>1, <1>2, <1>3, <2>2
    <3>2. du + ((n - (x - 1)) - (m - y)) >= m + 1
      BY <1>1, <1>3, <3>1
    <3> QED
      BY <1>3, <3>2 DEF OnTheWay
  <2> QED
    BY <2>1, <2>2
<1>5. hasLeft \/ ~OnTheWay(dl, x, y - 1, n, m)
  <2>1. CASE hasLeft
    BY <2>1
  <2>2. CASE ~hasLeft
    <3> HIDE DEF half, hasUp, hasLeft
    <3>1. x - (y - 1) >= n - half + 1
      BY <1>1, <1>2, <1>3, <2>2
    <3>2. dl + ((m - (y - 1)) - (n - x)) >= m + 1
      BY <1>1, <1>3, <3>1
    <3> QED
      BY <1>3, <3>2 DEF OnTheWay
  <2> QED
    BY <2>1, <2>2
<1>6. /\ diagonal \in Nat /\ dd <= diagonal
      /\ hasUp => up \in Nat /\ du <= up
      /\ hasLeft => left \in Nat /\ dl <= left
  BY DEF Enough
<1>7. /\ c <= diagonal + p
      /\ hasUp => c <= up + 1
      /\ hasLeft => c <= left + 1
      /\ c = diagonal + p \/ (hasUp /\ c = up + 1) \/ (hasLeft /\ c = left + 1)
  BY DEF LeastOf
<1>8. /\ d <= dd + p /\ d <= dl + 1 /\ d <= du + 1
      /\ d = dd + p \/ d = dl + 1 \/ d = du + 1
  BY DEF Least
<1>9. d <= c
  <2> HIDE DEF hasUp, hasLeft
  <2> QED
    BY <1>6, <1>7, <1>8
<1>10. ASSUME OnTheWay(d, x, y, n, m) PROVE c <= d
  <2>1. CASE d = dd + p
    <3>1. OnTheWay(dd, x - 1, y - 1, n, m)
      BY <1>3, <1>10, <2>1 DEF OnTheWay
    <3>2. diagonal = dd
      BY <3>1 DEF Enough
    <3> QED
      BY <1>6, <1>7, <2>1, <3>2
  <2>2. CASE d = du + 1
    <3>1. OnTheWay(du, x - 1, y, n, m)
      BY <1>3, <1>10, <2>2 DEF OnTheWay
    <3>2. hasUp /\ up = du
      BY <1>4, <3>1 DEF Enough
    <3> QED
      BY <1>6, <1>7, <2>2, <3>2
  <2>3. CASE d = dl + 1
    <3>1. OnTheWay(dl, x, y - 1, n, m)
      BY <1>3, <1>10, <2>3 DEF OnTheWay
    <3>2. hasLeft /\ left = dl
      BY <1>5, <3>1 DEF Enough
    <3> QED
      BY <1>6, <1>7, <2>3, <3>2
  <2> QED
    BY <1>8, <2>1, <2>2, <2>3
<1> QED
  BY <1>9, <1>10 DEF Enough

\* The row for x of the band is from low to high.
BandRange(x, n, m, half, low, high) ==
    /\ low \in Int /\ high \in Int /\ 1 <= low /\ high <= m
    /\ \A y \in 1..m : InBand(x, y, n, m) <=> y \in low..high
    /\ \A y \in low..high :
          /\ InBand(x - 1, y, n, m) <=> ~ (y = high /\ x <= half)
          /\ InBand(x, y - 1, n, m) <=> (y > low \/ x < n + 1 - half)
    /\ x >= n + 1 - half /\ low = 1 => x - 1 = n - half
    /\ x < n + 1 - half => low = 1

\* The bounds of a row in the code are those of the band.
LEMMA BandBounds ==
  ASSUME NEW n \in Nat, NEW m \in Nat, 2 <= n, n <= m, NEW x \in 1..n,
         NEW half, half = (n + 1) \div 2,
         NEW low, low = IF x >= n + 1 - half THEN x - (n + 1 - half) + 1 ELSE 1,
         NEW high, high = IF x <= half THEN m + x - half ELSE m
  PROVE  BandRange(x, n, m, half, low, high)
<1>1. half \in Nat /\ 2 * half <= n + 1 /\ half >= 1
  OBVIOUS
<1>2. \A u, v : InBand(u, v, n, m) <=> (u - v <= n - half /\ v - u <= m - half)
  BY DEF InBand
<1>3. x \in Nat /\ 1 <= x /\ x <= n /\ half <= n
  BY <1>1
<1>4. /\ low \in Int /\ high \in Int /\ 1 <= low /\ high <= m
      /\ x >= n + 1 - half /\ low = 1 => x - 1 = n - half
      /\ x < n + 1 - half => low = 1
  BY <1>1, <1>3
<1>5. ASSUME NEW y \in 1..m PROVE InBand(x, y, n, m) <=> y \in low..high
  <2>1. x - y <= n - half <=> low <= y
    BY <1>1, <1>3
  <2>2. y - x <= m - half <=> y <= high
    BY <1>1, <1>3
  <2> QED
    BY <1>2, <1>4, <2>1, <2>2
<1>6. ASSUME NEW y \in low..high
      PROVE  /\ InBand(x - 1, y, n, m) <=> ~ (y = high /\ x <= half)
             /\ InBand(x, y - 1, n, m) <=> (y > low \/ x < n + 1 - half)
  <2>1. y \in Int /\ low <= y /\ y <= high
    BY <1>4
  <2>2. (x - 1) - y <= n - half
    BY <1>1, <1>3, <2>1
  <2>3. y - (x - 1) <= m - half <=> ~ (y = high /\ x <= half)
    BY <1>1, <1>3, <2>1
  <2>4. (y - 1) - x <= m - half
    BY <1>1, <1>3, <2>1
  <2>5. x - (y - 1) <= n - half <=> (y > low \/ x < n + 1 - half)
    BY <1>1, <1>3, <2>1
  <2> QED
    BY <1>2, <2>2, <2>3, <2>4, <2>5
<1> QED
  BY <1>4, <1>5, <1>6 DEF BandRange

\* The cells that cell y of the row for x is compared with.
BandDiagonal(row, x, y) == IF y = 1 THEN x - 1 ELSE row[y - 1]
BandLeft(next, x, y)    == IF y = 1 THEN x ELSE next[y - 1]

\* A row of the band. Its first cell is never written.
LEMMA BandRowCells ==
  ASSUME NEW a, NEW b, Len(a) \in Nat, Len(b) \in Nat, 2 <= Len(a), Len(a) <= Len(b),
         NEW x \in 1..Len(a), NEW row \in [0..Len(b) -> Nat],
         row[0] = Len(a) - ((Len(a) + 1) \div 2)
  PROVE  /\ BandRow(row, x, a, b) \in [0..Len(b) -> Nat]
         /\ BandRow(row, x, a, b)[0] = row[0]
         /\ \A y \in 1..Len(b) : InBand(x, y, Len(a), Len(b)) =>
               LeastOf(BandRow(row, x, a, b)[y],
                       BandDiagonal(row, x, y) + Penalty(1, a[x], b[y]),
                       row[y] + 1, InBand(x - 1, y, Len(a), Len(b)),
                       BandLeft(BandRow(row, x, a, b), x, y) + 1,
                       InBand(x, y - 1, Len(a), Len(b)))
<1> DEFINE n == Len(a)
           m == Len(b)
           half == (n + 1) \div 2
           skip == x >= n + 1 - half
           low  == IF skip THEN x - (n + 1 - half) + 1 ELSE 1
           high == IF x <= half THEN m + x - half ELSE m
           diagonal(y) == IF y = 1 /\ ~skip THEN x - 1 ELSE row[y - 1]
           above(y)    == IF y = high /\ x <= half THEN {} ELSE {row[y] + 1}
           cell(y, left) ==
              Min(({diagonal(y) + Differ(a[x], b[y])} \cup above(y))
                    \cup (IF y > low THEN {left + 1} ELSE IF skip THEN {} ELSE {x + 1}))
           equation(f) == f = [y \in low..high |-> cell(y, f[y - 1])]
           next == CHOOSE f : equation(f)
           new == BandRow(row, x, a, b)
           step == [y \in low..high |-> [left \in Nat |-> cell(y, left)]]
<1>1. new = [y \in DOMAIN row |-> IF y \in low..high THEN next[y] ELSE row[y]]
  BY Zenon DEF BandRow
<1>2. /\ n \in Nat /\ m \in Nat /\ 2 <= n /\ n <= m /\ x \in 1..n
      /\ row \in [0..m -> Nat] /\ row[0] = n - half
  OBVIOUS
<1>3. /\ low \in Int /\ high \in Int /\ 1 <= low /\ high <= m
      /\ \A y \in 1..m : InBand(x, y, n, m) <=> y \in low..high
      /\ \A y \in low..high :
            /\ InBand(x - 1, y, n, m) <=> ~ (y = high /\ x <= half)
            /\ InBand(x, y - 1, n, m) <=> (y > low \/ ~skip)
      /\ skip /\ low = 1 => x - 1 = n - half
      /\ ~skip => low = 1
  <2>1. /\ half = (n + 1) \div 2
        /\ low = (IF x >= n + 1 - half THEN x - (n + 1 - half) + 1 ELSE 1)
        /\ high = (IF x <= half THEN m + x - half ELSE m)
    OBVIOUS
  <2>2. half \in Nat
    OBVIOUS
  <2> HIDE DEF n, m, half, low, high
  <2>3. BandRange(x, n, m, half, low, high)
    BY <1>2, <2>1, BandBounds
  <2>4. ~skip <=> x < n + 1 - half
    BY <1>2, <2>2
  <2> QED
    BY <2>3, <2>4 DEF BandRange
<1> HIDE DEF new, next, n, m, half, skip, low, high
<1>4. \A y \in low..high : y \in 1..m /\ y \in 0..m /\ y - 1 \in 0..m /\ y \in Int
  BY <1>2, <1>3
<1>5. ASSUME NEW y \in low..high
      PROVE  diagonal(y) = BandDiagonal(row, x, y) /\ diagonal(y) \in Nat
  <2>1. y \in 1..m /\ y - 1 \in 0..m /\ low <= y
    BY <1>3, <1>4
  <2>2. row[y - 1] \in Nat /\ x - 1 \in Nat
    BY <1>2, <2>1, SMTT(30)
  <2>3. CASE y = 1
    <3>1. low = 1
      BY <1>3, <2>1, <2>3
    <3>2. skip => row[0] = x - 1
      BY <1>2, <1>3, <3>1
    <3>3. y - 1 = 0
      BY <2>3
    <3> QED
      BY <2>2, <2>3, <3>2, <3>3 DEF BandDiagonal
  <2>4. CASE y # 1
    BY <2>2, <2>4 DEF BandDiagonal
  <2> QED
    BY <2>3, <2>4
<1>6. ASSUME NEW y \in low..high, NEW left \in Nat
      PROVE  /\ cell(y, left) \in Nat
             /\ LeastOf(cell(y, left), BandDiagonal(row, x, y) + Penalty(1, a[x], b[y]),
                        row[y] + 1, InBand(x - 1, y, n, m),
                        (IF y > low THEN left + 1 ELSE x + 1), InBand(x, y - 1, n, m))
  <2> DEFINE p == BandDiagonal(row, x, y) + Penalty(1, a[x], b[y])
             q == row[y] + 1
             r == IF y > low THEN left + 1 ELSE x + 1
             hasUp == ~ (y = high /\ x <= half)
             hasLeft == y > low \/ ~skip
  <2>1. Differ(a[x], b[y]) = Penalty(1, a[x], b[y]) /\ Penalty(1, a[x], b[y]) \in Nat
    BY DEF Differ, Penalty
  <2>2. p = diagonal(y) + Differ(a[x], b[y]) /\ p \in Nat
    <3> HIDE DEF diagonal
    <3> QED
      BY <1>5, <2>1
  <2>3. q \in Nat /\ r \in Nat
    <3>1. row[y] \in Nat
      BY <1>2, <1>4
    <3>2. x \in Nat
      BY <1>2
    <3> QED
      BY <3>1, <3>2
  <2>4. above(y) = IF hasUp THEN {q} ELSE {}
    OBVIOUS
  <2>5. (IF y > low THEN {left + 1} ELSE IF skip THEN {} ELSE {x + 1})
          = IF hasLeft THEN {r} ELSE {}
    OBVIOUS
  <2> HIDE DEF diagonal, above
  <2>6. cell(y, left) = Min(({p} \cup (IF hasUp THEN {q} ELSE {}))
                              \cup (IF hasLeft THEN {r} ELSE {}))
    <3> HIDE DEF p, q, r, hasUp, hasLeft
    <3> QED
      BY <2>2, <2>4, <2>5
  <2>7. hasUp = InBand(x - 1, y, n, m) /\ hasLeft = InBand(x, y - 1, n, m)
    BY <1>3 DEF InBand
  <2>8. hasUp \in BOOLEAN /\ hasLeft \in BOOLEAN
    OBVIOUS
  <2> HIDE DEF cell, p, q, r, hasUp, hasLeft
  <2>9. /\ cell(y, left) \in Nat
        /\ LeastOf(cell(y, left), p, q, hasUp, r, hasLeft)
    BY <2>2, <2>3, <2>6, <2>8, MinLeastOf, SMTT(30)
  <2> QED
    BY <2>7, <2>9 DEF p, q, r
<1> HIDE DEF cell
<1>7. step \in [low..high -> [Nat -> Nat]]
  BY <1>6
<1>8. ~ (low <= high) \/ low \in low..high
  BY <1>3
<1>9. \E f : equation(f)
  <2>1. CASE low <= high
    <3> DEFINE base == cell(low, 0)
    <3>1. base \in Nat
      BY <1>6, <1>8, <2>1
    <3> HIDE DEF step, base
    <3>2. PICK f \in [low..high -> Nat] : Recurs(f, low, high, base, step)
      BY <1>3, <1>7, <3>1, RecursionExists
    <3>3. ASSUME NEW y \in low..high PROVE f[y] = cell(y, f[y - 1])
      <4>1. f[y] = IF y = low THEN base ELSE step[y][f[y - 1]]
        BY <3>2 DEF Recurs
      <4>2. CASE y = low
        <5>1. cell(low, 0) = cell(low, f[low - 1])
          <6>1. ~ (low > low)
            BY <1>3
          <6> QED
            BY <6>1 DEF cell
        <5> QED
          BY <4>1, <4>2, <5>1 DEF base
      <4>3. CASE y # low
        <5>1. y - 1 \in low..high
          BY <1>3, <4>3
        <5>2. f[y - 1] \in Nat
          BY <5>1
        <5> QED
          BY <4>1, <4>3, <5>2 DEF step
      <4> QED
        BY <4>2, <4>3
    <3> QED
      BY <3>2, <3>3
  <2>2. CASE ~ (low <= high)
    <3>1. low..high = {}
      BY <1>3, <2>2
    <3>2. equation([y \in low..high |-> 0])
      BY <3>1
    <3> QED
      BY <3>2
  <2> QED
    BY <2>1, <2>2
<1>10. equation(next)
  <2> HIDE DEF equation
  <2> QED
    BY <1>9 DEF next
<1>11. /\ next = [y \in low..high |-> next[y]]
       /\ \A y \in low..high : next[y] = cell(y, next[y - 1])
  BY <1>10, Zenon
<1>12. next \in [low..high -> Nat]
  <2>1. \A y \in low..high : y # low /\ next[y - 1] \in Nat => next[y] \in Nat
    BY <1>6, <1>11
  <2>2. low <= high => next[low] \in Nat
    <3> SUFFICES ASSUME low <= high PROVE next[low] \in Nat
      OBVIOUS
    <3>1. low \in low..high
      BY <1>8
    <3>2. cell(low, next[low - 1]) = cell(low, 0)
      <4>1. ~ (low > low)
        BY <1>3
      <4> QED
        BY <4>1 DEF cell
    <3>3. cell(low, 0) \in Nat
      BY <1>6, <3>1
    <3> QED
      BY <1>11, <3>1, <3>2, <3>3
  <2> QED
    BY <1>3, <1>11, <2>1, <2>2, RecursionType
<1>13. /\ new \in [0..m -> Nat]
       /\ \A y \in low..high : new[y] = next[y]
       /\ \A y \in 0..m : y \notin low..high => new[y] = row[y]
  <2>1. DOMAIN row = 0..m
    BY <1>2
  <2>2. \A y \in low..high : next[y] \in Nat
    BY <1>12
  <2> QED
    BY <1>1, <1>2, <1>4, <2>1, <2>2
<1>14. new[0] = row[0]
  <2>1. 0 \in 0..m /\ 0 \notin low..high
    BY <1>2, <1>3
  <2> QED
    BY <1>13, <2>1
<1>15. ASSUME NEW y \in 1..m, InBand(x, y, n, m)
       PROVE  LeastOf(new[y], BandDiagonal(row, x, y) + Penalty(1, a[x], b[y]),
                      row[y] + 1, InBand(x - 1, y, n, m),
                      BandLeft(new, x, y) + 1, InBand(x, y - 1, n, m))
  <2>1. y \in low..high
    BY <1>3, <1>15
  <2> DEFINE p == BandDiagonal(row, x, y) + Penalty(1, a[x], b[y])
             q == row[y] + 1
             hasUp == InBand(x - 1, y, n, m)
             hasLeft == InBand(x, y - 1, n, m)
  <2>2. CASE y > low
    <3>1. y - 1 \in low..high /\ y # 1
      BY <1>3, <2>1, <2>2
    <3>2. next[y - 1] \in Nat /\ new[y - 1] = next[y - 1]
      BY <1>12, <1>13, <3>1
    <3>3. LeastOf(cell(y, next[y - 1]), p, q, hasUp, next[y - 1] + 1, hasLeft)
      BY <1>6, <2>1, <2>2, <3>2
    <3>4. new[y] = cell(y, next[y - 1])
      BY <1>11, <1>13, <2>1
    <3>5. BandLeft(new, x, y) = next[y - 1]
      BY <3>1, <3>2 DEF BandLeft
    <3> HIDE DEF p, q, hasUp, hasLeft
    <3>6. LeastOf(new[y], p, q, hasUp, BandLeft(new, x, y) + 1, hasLeft)
      BY <3>3, <3>4, <3>5
    <3> QED
      BY <3>6 DEF p, q, hasUp, hasLeft
  <2>3. CASE ~ (y > low)
    <3>1. y = low
      BY <1>3, <2>1, <2>3
    <3>2. cell(y, next[y - 1]) = cell(y, 0)
      BY <2>3 DEF cell
    <3>3. LeastOf(cell(y, 0), p, q, hasUp, x + 1, hasLeft)
      <4>1. 0 \in Nat
        OBVIOUS
      <4> HIDE DEF p, q, hasUp, hasLeft
      <4>2. LeastOf(cell(y, 0), p, q, hasUp, (IF y > low THEN 0 + 1 ELSE x + 1), hasLeft)
        BY <1>6, <2>1, <4>1 DEF p, q, hasUp, hasLeft
      <4> QED
        BY <2>3, <4>2
    <3>4. new[y] = cell(y, 0)
      BY <1>11, <1>13, <2>1, <3>2
    <3>5. hasLeft => y = 1
      BY <1>3, <2>1, <2>3, <3>1
    <3>6. hasLeft => BandLeft(new, x, y) + 1 = x + 1
      BY <3>5 DEF BandLeft
    <3> HIDE DEF p, q, hasUp, hasLeft
    <3>7. LeastOf(new[y], p, q, hasUp, BandLeft(new, x, y) + 1, hasLeft)
      BY <3>3, <3>4, <3>6 DEF LeastOf
    <3> QED
      BY <3>7 DEF p, q, hasUp, hasLeft
  <2> QED
    BY <2>2, <2>3
<1> QED
  BY <1>13, <1>14, <1>15 DEF new, m, n

\* What is known of the row for x while BandDistance runs.
RowGood(row, x, a, b, D) ==
    /\ row \in [0..Len(b) -> Nat]
    /\ row[0] = Len(a) - ((Len(a) + 1) \div 2)
    /\ \A y \in 1..Len(b) : InBand(x, y, Len(a), Len(b)) =>
          Enough(row[y], D[x][y], x, y, Len(a), Len(b))

\* The next row is as good.
LEMMA BandRowGood ==
  ASSUME NEW a, NEW b, Len(a) \in Nat, Len(b) \in Nat, 2 <= Len(a), Len(a) <= Len(b),
         NEW D, IsMatrix(D, a, b, 1), NEW x \in 1..Len(a), NEW row,
         RowGood(row, x - 1, a, b, D)
  PROVE  RowGood(BandRow(row, x, a, b), x, a, b, D)
<1> DEFINE n == Len(a)
           m == Len(b)
           new == BandRow(row, x, a, b)
           T == {y \in Nat : y \in 1..m /\ InBand(x, y, n, m) =>
                                Enough(new[y], D[x][y], x, y, n, m)}
<1>1. /\ n \in Nat /\ m \in Nat /\ n <= m /\ row \in [0..m -> Nat]
      /\ x \in 0..n /\ x - 1 \in 0..n /\ x \in Nat
  BY DEF RowGood
<1>2. /\ new \in [0..m -> Nat] /\ new[0] = row[0]
      /\ \A y \in 1..m : InBand(x, y, n, m) =>
            LeastOf(new[y], BandDiagonal(row, x, y) + Penalty(1, a[x], b[y]),
                    row[y] + 1, InBand(x - 1, y, n, m),
                    BandLeft(new, x, y) + 1, InBand(x, y - 1, n, m))
  <2>1. row \in [0..Len(b) -> Nat] /\ row[0] = Len(a) - ((Len(a) + 1) \div 2)
    BY DEF RowGood
  <2> QED
    BY <2>1, BandRowCells
<1>3. \A y \in 1..m : InBand(x - 1, y, n, m) =>
         Enough(row[y], D[x - 1][y], x - 1, y, n, m)
  BY DEF RowGood
<1>4. /\ \A u \in 0..n, v \in 0..m :
            /\ u - v <= D[u][v] /\ v - u <= D[u][v]
            /\ D[u][v] \in Nat
      /\ D[x - 1][0] = x - 1 /\ D[x][0] = x
  <2>1. \A u \in 0..n, v \in 0..m : u - v <= D[u][v] /\ v - u <= D[u][v]
    BY CellBounds DEF Weights
  <2>2. \A u \in 0..n, v \in 0..m : D[u][v] \in Nat
    BY CellsRise DEF Weights
  <2>3. D[x - 1][0] = x - 1 /\ D[x][0] = x
    BY <1>1 DEF IsMatrix
  <2> QED
    BY <2>1, <2>2, <2>3
<1>5. \A y \in 1..m :
         Least(D[x][y], D[x - 1][y - 1] + Penalty(1, a[x], b[y]), D[x][y - 1] + 1,
               D[x - 1][y] + 1)
  BY DEF IsMatrix
<1>6. x \in 1..n
  OBVIOUS
<1> HIDE DEF new, n, m
<1>7. ASSUME NEW y \in 1..m, InBand(x, y, n, m), y # 1 => y - 1 \in T
      PROVE  Enough(new[y], D[x][y], x, y, n, m)
  <2> DEFINE p == Penalty(1, a[x], b[y])
             c == new[y]
             diagonal == BandDiagonal(row, x, y)
             up == row[y]
             left == BandLeft(new, x, y)
             d == D[x][y]
             dd == D[x - 1][y - 1]
             du == D[x - 1][y]
             dl == D[x][y - 1]
  <2>1. y \in 0..m /\ y - 1 \in 0..m /\ (y # 1 => y - 1 \in 1..m) /\ y \in Nat
    BY <1>1
  <2>2. p \in Nat /\ c \in Nat /\ d \in Nat /\ dd \in Nat /\ du \in Nat /\ dl \in Nat
    BY <1>1, <1>2, <1>4, <2>1 DEF Penalty
  <2>3. Least(d, dd + p, dl + 1, du + 1)
    BY <1>5
  <2>4. LeastOf(c, diagonal + p, up + 1, InBand(x - 1, y, n, m),
                left + 1, InBand(x, y - 1, n, m))
    BY <1>2, <1>7
  <2>5. Enough(diagonal, dd, x - 1, y - 1, n, m)
    <3>1. CASE y = 1
      <4>1. diagonal = x - 1 /\ dd = x - 1 /\ x - 1 \in Nat
        BY <1>1, <1>4, <3>1 DEF BandDiagonal
      <4> HIDE DEF diagonal, dd
      <4> QED
        BY <4>1 DEF Enough
    <3>2. CASE y # 1
      <4>1. InBand(x - 1, y - 1, n, m)
        <5>1. (x - 1) - (y - 1) = x - y /\ (y - 1) - (x - 1) = y - x
          BY <1>1, <2>1
        <5> QED
          BY <1>7, <5>1 DEF InBand
      <4> QED
        BY <1>3, <2>1, <3>2, <4>1 DEF BandDiagonal
    <3> QED
      BY <3>1, <3>2
  <2>6. InBand(x - 1, y, n, m) => Enough(up, du, x - 1, y, n, m)
    BY <1>3
  <2>7. InBand(x, y - 1, n, m) => Enough(left, dl, x, y - 1, n, m)
    <3>1. CASE y = 1
      <4>1. left = x /\ dl = x
        BY <1>1, <1>4, <3>1 DEF BandLeft
      <4> HIDE DEF left, dl
      <4> QED
        BY <1>1, <4>1 DEF Enough
    <3>2. CASE y # 1
      BY <1>7, <2>1, <3>2 DEF BandLeft
    <3> QED
      BY <3>1, <3>2
  <2>8. y - (x - 1) <= du /\ x - (y - 1) <= dl
    BY <1>1, <1>4, <2>1
  <2> HIDE DEF p, c, diagonal, up, left, d, dd, du, dl
  <2>9. Enough(c, d, x, y, n, m)
    BY <1>1, <1>6, <1>7, <2>2, <2>3, <2>4, <2>5, <2>6, <2>7, <2>8, BandCell
  <2> QED
    BY <2>9 DEF c, d
<1>8. 0 \in T
  OBVIOUS
<1>9. ASSUME NEW z \in Nat, z \in T PROVE z + 1 \in T
  <2> SUFFICES ASSUME z + 1 \in 1..m, InBand(x, z + 1, n, m)
               PROVE  Enough(new[z + 1], D[x][z + 1], x, z + 1, n, m)
    OBVIOUS
  <2>1. (z + 1) - 1 \in T
    <3>1. (z + 1) - 1 = z
      OBVIOUS
    <3> HIDE DEF T
    <3> QED
      BY <1>9, <3>1
  <2> HIDE DEF T
  <2> QED
    BY <1>7, <2>1
<1>10. Nat \subseteq T
  <2> HIDE DEF T
  <2> QED
    BY <1>8, <1>9, SetInduction
<1>11. \A y \in 1..m : InBand(x, y, n, m) => Enough(new[y], D[x][y], x, y, n, m)
  <2> SUFFICES ASSUME NEW y \in 1..m
               PROVE  InBand(x, y, n, m) => Enough(new[y], D[x][y], x, y, n, m)
    OBVIOUS
  <2>1. y \in T
    <3>1. y \in Nat
      BY <1>1
    <3> HIDE DEF T
    <3> QED
      BY <1>10, <3>1
  <2> QED
    BY <2>1
<1> QED
  BY <1>2, <1>11 DEF RowGood, new, m, n

\* BandDistance returns the last cell of the whole matrix.
LEMMA BandDistanceCorner ==
  ASSUME NEW a, NEW b, Len(a) \in Nat, Len(b) \in Nat, 2 <= Len(a), Len(a) <= Len(b),
         NEW D, IsMatrix(D, a, b, 1), NEW g \in Nat
  PROVE  BandDistance(a, b, g) = D[Len(a)][Len(b)]
<1> DEFINE n == Len(a)
           m == Len(b)
           half == (n + 1) \div 2
           Row == {row \in [0..m -> Nat] : row[0] = n - half}
           first == [y \in 0..m |-> IF y = 0 THEN n - half
                                    ELSE IF y <= m - half THEN y ELSE g]
           equation(f) == f = [x \in 0..n |-> IF x = 0 THEN first
                                              ELSE BandRow(f[x - 1], x, a, b)]
           rows == CHOOSE f : equation(f)
           step == [x \in 0..n |-> [row \in Row |-> IF x = 0 THEN row
                                                    ELSE BandRow(row, x, a, b)]]
           T == {x \in Nat : x <= n => RowGood(rows[x], x, a, b, D)}
<1>1. BandDistance(a, b, g) = rows[n][m]
  BY Zenon DEF BandDistance
<1>2. /\ n \in Nat /\ m \in Nat /\ 2 <= n /\ n <= m
      /\ half \in Nat /\ half <= n /\ 2 * half <= n + 1
  OBVIOUS
<1>3. first \in Row /\ \A y \in 1..m : y <= m - half => first[y] = y
  <2>1. 0 \in 0..m /\ n - half \in Nat
    BY <1>2
  <2> HIDE DEF n, m, half
  <2>2. \A y \in 0..m : y \in Nat
    BY <1>2
  <2>3. first \in [0..m -> Nat] /\ first[0] = n - half
    BY <2>1, <2>2
  <2>4. \A y \in 1..m : y \in 0..m /\ y # 0
    BY <1>2
  <2> QED
    BY <2>3, <2>4
<1>4. ASSUME NEW x \in 1..n, NEW row \in Row PROVE BandRow(row, x, a, b) \in Row
  <2>1. row \in [0..Len(b) -> Nat] /\ row[0] = Len(a) - ((Len(a) + 1) \div 2)
    OBVIOUS
  <2>2. /\ BandRow(row, x, a, b) \in [0..Len(b) -> Nat]
        /\ BandRow(row, x, a, b)[0] = row[0]
    BY <2>1, BandRowCells
  <2> QED
    BY <2>1, <2>2
<1> HIDE DEF m, n, half, first, rows, Row
<1>5. step \in [0..n -> [Row -> Row]]
  <2>1. \A x \in 0..n : x # 0 => x \in 1..n
    BY <1>2
  <2> QED
    BY <1>4, <2>1
<1>6. PICK f \in [0..n -> Row] : Recurs(f, 0, n, first, step)
  <2>1. 0 \in Int /\ n \in Int
    BY <1>2
  <2> HIDE DEF step
  <2> QED
    BY <1>3, <1>5, <2>1, RecursionExists
<1>7. equation(f)
  <2>1. ASSUME NEW x \in 0..n
        PROVE  f[x] = IF x = 0 THEN first ELSE BandRow(f[x - 1], x, a, b)
    <3>1. f[x] = IF x = 0 THEN first ELSE step[x][f[x - 1]]
      BY <1>6 DEF Recurs
    <3>2. x # 0 => x - 1 \in 0..n /\ f[x - 1] \in Row
      BY <1>2
    <3> QED
      BY <3>1, <3>2
  <2> QED
    BY <2>1
<1>8. equation(rows)
  <2> HIDE DEF equation
  <2> QED
    BY <1>7 DEF rows
<1>9. /\ rows = [x \in 0..n |-> rows[x]]
      /\ \A x \in 0..n : rows[x] = IF x = 0 THEN first ELSE BandRow(rows[x - 1], x, a, b)
  BY <1>8, Zenon
<1>10. rows[0] = first /\ \A x \in 1..n : rows[x] = BandRow(rows[x - 1], x, a, b)
  <2>1. 0 \in 0..n /\ \A x \in 1..n : x \in 0..n /\ x # 0
    BY <1>2
  <2> QED
    BY <1>9, <2>1, Zenon
<1>11. \A x \in 0..n, y \in 0..m : D[x][y] \in Nat
  BY CellsRise DEF n, m, Weights
<1>12. 0 \in T
  <2>1. ASSUME NEW y \in 1..m, InBand(0, y, n, m)
        PROVE  Enough(first[y], D[0][y], 0, y, n, m)
    <3>1. y \in 0..m /\ y \in Nat /\ y - 0 = y
      BY <1>2
    <3>2. y <= m - half
      BY <2>1, <3>1 DEF InBand, half
    <3>3. first[y] = y
      BY <1>3, <3>2
    <3>4. D[0][y] = y
      BY <3>1 DEF IsMatrix, m
    <3> QED
      BY <3>1, <3>3, <3>4 DEF Enough
  <2>2. RowGood(first, 0, a, b, D)
    BY <1>3, <2>1 DEF RowGood, Row, m, n, half
  <2> QED
    BY <1>10, <2>2
<1>13. ASSUME NEW z \in Nat, z \in T PROVE z + 1 \in T
  <2> SUFFICES ASSUME z + 1 <= n PROVE RowGood(rows[z + 1], z + 1, a, b, D)
    OBVIOUS
  <2> DEFINE x == z + 1
  <2>1. x \in 1..n /\ x - 1 = z /\ RowGood(rows[z], z, a, b, D)
    BY <1>2, <1>13
  <2>2. x \in 1..Len(a) /\ RowGood(rows[x - 1], x - 1, a, b, D)
    BY <2>1 DEF n
  <2> HIDE DEF x
  <2>3. RowGood(BandRow(rows[x - 1], x, a, b), x, a, b, D)
    BY <2>2, BandRowGood
  <2> QED
    BY <1>10, <2>1, <2>3 DEF x
<1>14. Nat \subseteq T
  <2> HIDE DEF T
  <2> QED
    BY <1>12, <1>13, SetInduction
<1>15. RowGood(rows[n], n, a, b, D)
  <2>1. n \in T
    <3> HIDE DEF T
    <3> QED
      BY <1>2, <1>14
  <2> QED
    BY <1>2, <2>1
<1>16. m \in 1..m /\ m \in 0..m /\ n \in 0..n
  BY <1>2
<1>17. InBand(n, m, n, m)
  <2>1. n - m <= n - half /\ m - n <= m - half
    BY <1>2
  <2> QED
    BY <2>1 DEF InBand, half
<1>18. OnTheWay(D[n][m], n, m, n, m)
  <2>1. D[n][m] <= n \/ D[n][m] <= m
    BY <1>16, CellBounds DEF n, m, Weights
  <2> QED
    BY <1>2, <1>11, <1>16, <2>1 DEF OnTheWay
<1>19. rows[n][m] = D[n][m]
  BY <1>15, <1>16, <1>17, <1>18 DEF RowGood, Enough, n, m
<1> QED
  BY <1>1, <1>19 DEF n, m

-----------------------------------------------------------------------------
(* One letter.                                                             *)

\* A letter is either found in the other string, which leaves the rest over,
\* or takes the place of one of its letters.
LEMMA SingleLetter ==
  ASSUME NEW a, NEW b, Len(a) = 1, Len(b) \in Nat \ {0}, NEW weight \in Weights,
         NEW D, IsMatrix(D, a, b, weight)
  PROVE  D[1][Len(b)] = IF \E z \in 1..Len(b) : b[z] = a[1]
                        THEN Len(b) - 1 ELSE Len(b) + weight - 1
<1> DEFINE m == Len(b)
           found(y) == \E z \in 1..y : b[z] = a[1]
           Right(y) == D[1][y] = IF found(y) THEN y - 1 ELSE y + weight - 1
           T == {y \in Nat : y \in 1..m => Right(y)}
<1>1. /\ 1 \in 0..Len(a) /\ 0 \in 0..Len(a) /\ 1 \in 1..Len(a) /\ m \in Nat /\ m # 0
      /\ 0 \in 0..m
  OBVIOUS
<1>2. /\ \A y \in 0..m : D[1][y] \in Nat /\ D[0][y] = y
      /\ D[1][0] = 1
  BY <1>1 DEF IsMatrix
<1>3. \A y \in 1..m :
         Least(D[1][y], D[1 - 1][y - 1] + Penalty(weight, a[1], b[y]), D[1][y - 1] + 1,
               D[1 - 1][y] + 1)
  BY <1>1 DEF IsMatrix
<1>4. ASSUME NEW y \in 1..m, y # 1 => Right(y - 1) PROVE Right(y)
  <2> DEFINE p == Penalty(weight, a[1], b[y])
             left == D[1][y - 1]
             cell == D[1][y]
  <2>1. y \in Nat /\ y \in 0..m /\ y - 1 \in 0..m /\ 1 <= y
    BY <1>1
  <2>2. cell \in Nat /\ left \in Nat /\ D[0][y - 1] = y - 1 /\ D[0][y] = y
    BY <1>2, <2>1
  <2>3. Least(cell, (y - 1) + p, left + 1, y + 1)
    <3>1. 1 - 1 = 0
      OBVIOUS
    <3> QED
      BY <1>3, <2>2, <3>1
  <2>4. found(y) <=> b[y] = a[1] \/ (y # 1 /\ found(y - 1))
    <3>1. \A z : z \in 1..y <=> z = y \/ z \in 1..(y - 1)
      BY <2>1
    <3>2. y = 1 => 1..(y - 1) = {}
      OBVIOUS
    <3> QED
      BY <3>1, <3>2
  <2>5. p = IF a[1] = b[y] THEN 0 ELSE weight
    BY DEF Penalty
  <2>6. y = 1 => left = 1
    BY <1>2
  <2>7. y # 1 => left = IF found(y - 1) THEN y - 2 ELSE y - 1 + weight - 1
    BY <1>4, <2>1
  <2>8. weight = 1 \/ weight = 2
    BY DEF Weights
  <2> HIDE DEF p, left, cell, found
  <2>9. CASE b[y] = a[1]
    <3>1. p = 0 /\ found(y) /\ left + 1 >= y - 1
      BY <2>1, <2>4, <2>5, <2>6, <2>7, <2>8, <2>9
    <3>2. cell = y - 1
      BY <2>1, <2>2, <2>3, <3>1 DEF Least
    <3> QED
      BY <3>1, <3>2 DEF cell
  <2>10. CASE b[y] # a[1] /\ y # 1 /\ found(y - 1)
    <3>1. p = weight /\ found(y) /\ left + 1 = y - 1
      BY <2>1, <2>4, <2>5, <2>7, <2>10
    <3>2. cell = y - 1
      BY <2>1, <2>2, <2>3, <2>8, <3>1 DEF Least
    <3> QED
      BY <3>1, <3>2 DEF cell
  <2>11. CASE b[y] # a[1] /\ (y = 1 \/ ~found(y - 1))
    <3>1. p = weight /\ ~found(y)
      BY <2>4, <2>5, <2>11
    <3>2. left + 1 >= y + weight - 1 \/ (y = 1 /\ left + 1 = 2)
      BY <2>1, <2>6, <2>7, <2>8, <2>11
    <3>3. cell = y + weight - 1
      BY <2>1, <2>2, <2>3, <2>8, <3>1, <3>2 DEF Least
    <3> QED
      BY <3>1, <3>3 DEF cell
  <2> QED
    BY <2>9, <2>10, <2>11
<1> HIDE DEF Right, m
<1>5. 0 \in T
  OBVIOUS
<1>6. ASSUME NEW z \in Nat, z \in T PROVE z + 1 \in T
  <2> SUFFICES ASSUME z + 1 \in 1..m PROVE Right(z + 1)
    OBVIOUS
  <2>1. z + 1 # 1 => Right((z + 1) - 1)
    <3>1. (z + 1) - 1 = z /\ (z + 1 # 1 => z \in 1..m)
      BY <1>1
    <3> QED
      BY <1>6, <3>1
  <2> HIDE DEF T
  <2> QED
    BY <1>4, <2>1
<1>7. Nat \subseteq T
  <2> HIDE DEF T
  <2> QED
    BY <1>5, <1>6, SetInduction
<1>8. Right(m)
  <2>1. m \in T
    <3> HIDE DEF T
    <3> QED
      BY <1>1, <1>7
  <2> QED
    BY <1>1, <2>1
<1> QED
  BY <1>8 DEF Right, m

-----------------------------------------------------------------------------
(* What the strings have in common costs nothing.                          *)

\* k letters of a after the first u are those of b after the first v.
Agree(a, b, u, v, k) == \A p \in 1..k : a[u + p] = b[v + p]

\* Along letters that are equal a diagonal costs the same.
LEMMA EqualDiagonal ==
  ASSUME NEW a, NEW b, Len(a) \in Nat, Len(b) \in Nat, NEW weight \in Weights,
         NEW D, IsMatrix(D, a, b, weight), NEW u \in Nat, NEW v \in Nat,
         NEW k \in Nat, u + k <= Len(a), v + k <= Len(b),
         Agree(a, b, u, v, k)
  PROVE  D[u + k][v + k] = D[u][v]
<1> DEFINE T == {p \in Nat : p <= k => D[u + p][v + p] = D[u][v]}
<1>1. \A x \in 1..Len(a), y \in 1..Len(b) :
         /\ D[x - 1][y - 1] <= D[x][y]
         /\ a[x] = b[y] => D[x][y] = D[x - 1][y - 1]
  BY DiagonalRises
<1>2. 0 \in T
  <2>1. u + 0 = u /\ v + 0 = v
    OBVIOUS
  <2> QED
    BY <2>1
<1>3. ASSUME NEW p \in Nat, p \in T PROVE p + 1 \in T
  <2> SUFFICES ASSUME p + 1 <= k PROVE D[u + (p + 1)][v + (p + 1)] = D[u][v]
    OBVIOUS
  <2> DEFINE x == u + (p + 1)
             y == v + (p + 1)
  <2>1. /\ x \in 1..Len(a) /\ y \in 1..Len(b) /\ x - 1 = u + p /\ y - 1 = v + p
        /\ p + 1 \in 1..k
    OBVIOUS
  <2>2. a[x] = b[y]
    BY <2>1 DEF Agree
  <2>3. D[u + p][v + p] = D[u][v]
    BY <1>3, <2>1
  <2> HIDE DEF x, y
  <2>4. D[x][y] = D[x - 1][y - 1]
    BY <1>1, <2>1, <2>2
  <2> QED
    BY <2>1, <2>3, <2>4 DEF x, y
<1>4. Nat \subseteq T
  <2> HIDE DEF T
  <2> QED
    BY <1>2, <1>3, SetInduction
<1>5. k \in T
  <2> HIDE DEF T
  <2> QED
    BY <1>4
<1> QED
  BY <1>5

\* From a cell of the diagonal that costs nothing, its row and its column cost
\* what is left over.
LEMMA BordersCount ==
  ASSUME NEW a, NEW b, Len(a) \in Nat, Len(b) \in Nat, NEW weight \in Weights,
         NEW D, IsMatrix(D, a, b, weight), NEW k \in Nat, k <= Len(a), k <= Len(b),
         D[k][k] = 0
  PROVE  \A y \in Nat : k + y <= Len(b) => D[k][k + y] = y
<1> DEFINE T == {y \in Nat : k + y <= Len(b) => D[k][k + y] = y}
<1>1. 0 \in T
  <2>1. k + 0 = k
    OBVIOUS
  <2> QED
    BY <2>1
<1>2. ASSUME NEW z \in Nat, z \in T PROVE z + 1 \in T
  <2> SUFFICES ASSUME k + (z + 1) <= Len(b) PROVE D[k][k + (z + 1)] = z + 1
    OBVIOUS
  <2> DEFINE y == k + (z + 1)
  <2>1. /\ k \in 0..Len(a) /\ y \in 1..Len(b) /\ y \in 0..Len(b) /\ y - 1 = k + z
        /\ k + z <= Len(b) /\ y - k = z + 1
    OBVIOUS
  <2>2. D[k][y - 1] = z
    BY <1>2, <2>1
  <2> HIDE DEF y
  <2>3. D[k][y] \in Nat /\ D[k][y] <= D[k][y - 1] + 1
    BY <2>1, CellsRise
  <2>4. y - k <= D[k][y]
    BY <2>1, CellBounds
  <2>5. D[k][y] = z + 1
    BY <2>1, <2>2, <2>3, <2>4
  <2> QED
    BY <2>5 DEF y
<1>3. Nat \subseteq T
  <2> HIDE DEF T
  <2> QED
    BY <1>1, <1>2, SetInduction
<1> QED
  BY <1>3

\* The matrix of the stripped strings ends in the same cost.
LEMMA StrippedCorner ==
  ASSUME NEW a, NEW b, Len(a) \in Nat, Len(b) \in Nat, NEW weight \in Weights,
         NEW D, IsMatrix(D, a, b, weight), NEW prefix \in Nat, NEW suffix \in Nat,
         NEW rest, Stripped(rest, a, b, prefix, suffix)
  PROVE  \E E : /\ IsMatrix(E, rest.first, rest.second, weight)
                /\ E[Len(rest.first)][Len(rest.second)] = D[Len(a)][Len(b)]
<1> DEFINE n == Len(rest.first)
           m == Len(rest.second)
           E == [x \in 0..n |-> [y \in 0..m |-> D[prefix + x][prefix + y]]]
<1>1. /\ n \in Nat /\ m \in Nat
      /\ prefix + n + suffix = Len(a) /\ prefix + m + suffix = Len(b)
      /\ prefix + n = Len(a) - suffix /\ prefix + m = Len(b) - suffix
  <2>1. /\ prefix + suffix <= Len(a) /\ prefix + suffix <= Len(b)
        /\ n = Len(a) - prefix - suffix /\ m = Len(b) - prefix - suffix
    BY DEF Stripped
  <2> HIDE DEF n, m
  <2> QED
    BY <2>1
<1>2. /\ \A p \in 1..n : rest.first[p] = a[prefix + p]
      /\ \A p \in 1..m : rest.second[p] = b[prefix + p]
  BY DEF Stripped
<1>3. Agree(a, b, 0, 0, prefix)
  <2>1. \A p \in 1..prefix : a[p] = b[p]
    BY DEF Stripped
  <2>2. \A p \in 1..prefix : 0 + p = p
    OBVIOUS
  <2> HIDE DEF n, m, E
  <2> QED
    BY <2>1, <2>2 DEF Agree
<1>4. Agree(a, b, prefix + n, prefix + m, suffix)
  <2>1. \A p \in 1..suffix : a[Len(a) - suffix + p] = b[Len(b) - suffix + p]
    BY DEF Stripped
  <2> HIDE DEF n, m, E
  <2> QED
    BY <1>1, <2>1 DEF Agree
<1> HIDE DEF n, m
<1>5. /\ \A x \in 0..n : prefix + x \in 0..Len(a)
      /\ \A y \in 0..m : prefix + y \in 0..Len(b)
  BY <1>1
<1>6. \A x \in 0..Len(a), y \in 0..Len(b) : D[x][y] \in Nat
  BY CellsRise
<1>7. \A x \in 0..n, y \in 0..m : E[x][y] = D[prefix + x][prefix + y]
  OBVIOUS
<1>8. E \in [0..n -> [0..m -> Nat]]
  BY <1>5, <1>6
<1>9. D[prefix][prefix] = 0
  <2>1. 0 + prefix = prefix /\ prefix <= Len(a) /\ prefix <= Len(b) /\ 0 \in Nat
    BY <1>1
  <2>2. D[0][0] = 0
    BY DEF IsMatrix
  <2>3. 0 + prefix <= Len(a) /\ 0 + prefix <= Len(b)
    BY <2>1
  <2>4. D[0 + prefix][0 + prefix] = D[0][0]
    BY <1>3, <2>1, <2>3, EqualDiagonal
  <2> QED
    BY <2>1, <2>2, <2>4
<1>10. ASSUME NEW u \in Nat, NEW v \in Nat, u + suffix <= Len(a), v + suffix <= Len(b),
              Agree(a, b, u, v, suffix)
       PROVE  D[u + suffix][v + suffix] = D[u][v]
  BY <1>10, EqualDiagonal
<1>11. \A y \in 0..m : D[prefix][prefix + y] = y
  <2>1. /\ prefix <= Len(a) /\ prefix <= Len(b)
        /\ \A y \in 0..m : y \in Nat /\ prefix + y <= Len(b)
    BY <1>1
  <2>2. \A y \in Nat : prefix + y <= Len(b) => D[prefix][prefix + y] = y
    BY <1>9, <2>1, BordersCount
  <2> QED
    BY <2>1, <2>2
<1>12. \A x \in 0..n : D[prefix + x][prefix] = x
  <2> DEFINE F == [y \in 0..Len(b) |-> [x \in 0..Len(a) |-> D[x][y]]]
  <2>1. /\ prefix <= Len(a) /\ prefix <= Len(b)
        /\ \A x \in 0..n : x \in Nat /\ prefix + x <= Len(a)
    BY <1>1
  <2>2. IsMatrix(F, b, a, weight)
    BY MatrixTransposes
  <2>3. \A x \in 0..Len(a), y \in 0..Len(b) : F[y][x] = D[x][y]
    OBVIOUS
  <2>4. prefix \in 0..Len(a) /\ prefix \in 0..Len(b)
    BY <2>1
  <2> HIDE DEF F
  <2>5. F[prefix][prefix] = 0
    BY <1>9, <2>3, <2>4
  <2>6. \A x \in Nat : prefix + x <= Len(a) => F[prefix][prefix + x] = x
    BY <2>1, <2>2, <2>5, BordersCount
  <2> QED
    BY <1>5, <2>1, <2>3, <2>4, <2>6
<1>13. /\ \A y \in 0..m : E[0][y] = y
       /\ \A x \in 0..n : E[x][0] = x
  <2>1. 0 \in 0..n /\ 0 \in 0..m /\ prefix + 0 = prefix
    BY <1>1
  <2> HIDE DEF E
  <2> QED
    BY <1>7, <1>11, <1>12, <2>1
<1>14. ASSUME NEW x \in 1..n, NEW y \in 1..m
       PROVE  Least(E[x][y],
                    E[x - 1][y - 1] + Penalty(weight, rest.first[x], rest.second[y]),
                    E[x][y - 1] + 1, E[x - 1][y] + 1)
  <2> DEFINE u == prefix + x
             v == prefix + y
  <2>1. /\ x \in 0..n /\ x - 1 \in 0..n /\ y \in 0..m /\ y - 1 \in 0..m
        /\ u \in 1..Len(a) /\ v \in 1..Len(b)
        /\ prefix + (x - 1) = u - 1 /\ prefix + (y - 1) = v - 1
    BY <1>1
  <2>2. /\ E[x][y] = D[u][v] /\ E[x - 1][y - 1] = D[u - 1][v - 1]
        /\ E[x][y - 1] = D[u][v - 1] /\ E[x - 1][y] = D[u - 1][v]
        /\ rest.first[x] = a[u] /\ rest.second[y] = b[v]
    <3> HIDE DEF E
    <3> QED
      BY <1>7, <1>2, <2>1
  <2> HIDE DEF E, u, v
  <2>3. Least(D[u][v], D[u - 1][v - 1] + Penalty(weight, a[u], b[v]), D[u][v - 1] + 1,
              D[u - 1][v] + 1)
    BY <2>1 DEF IsMatrix
  <2> QED
    BY <2>2, <2>3
<1>15. IsMatrix(E, rest.first, rest.second, weight)
  <2> HIDE DEF E
  <2> QED
    BY <1>8, <1>13, <1>14 DEF IsMatrix, n, m
<1>16. E[n][m] = D[Len(a)][Len(b)]
  <2> DEFINE u == prefix + n
             v == prefix + m
  <2>1. /\ u \in Nat /\ v \in Nat /\ u + suffix = Len(a) /\ v + suffix = Len(b)
        /\ n \in 0..n /\ m \in 0..m /\ u + suffix <= Len(a) /\ v + suffix <= Len(b)
    BY <1>1
  <2> HIDE DEF E
  <2>2. E[n][m] = D[u][v]
    BY <1>7, <2>1
  <2>3. Agree(a, b, u, v, suffix)
    BY <1>4
  <2> HIDE DEF u, v
  <2>4. D[u + suffix][v + suffix] = D[u][v]
    BY <1>10, <2>1, <2>3
  <2> QED
    BY <2>1, <2>2, <2>4
<1> HIDE DEF E
<1> QED
  BY <1>15, <1>16 DEF n, m

-----------------------------------------------------------------------------
(* The distance functions.                                                 *)

\* After Strip the last cell of a matrix is the distance of the whole strings.
LEMMA RestCorner ==
  ASSUME NEW S, NEW s \in Seq(S), NEW t \in Seq(S), Len(s) \in 0..MaxLength,
         Len(t) \in 0..MaxLength, NEW weight \in Weights
  PROVE  \E E : /\ IsMatrix(E, Strip(s, t).first, Strip(s, t).second, weight)
                /\ E[Len(Strip(s, t).first)][Len(Strip(s, t).second)]
                     = EditDistance(s, t, weight)
<1>1. Len(s) \in Nat /\ Len(t) \in Nat
  BY LenProperties
<1>2. \E D : IsMatrix(D, s, t, weight)
  <2>1. CASE weight = 1
    BY <1>1, <2>1, CostMatrixCosts
  <2>2. CASE weight = 2
    BY <1>1, <2>2, XDistanceCorner
  <2> QED
    BY <2>1, <2>2 DEF Weights
<1>3. PICK D : IsMatrix(D, s, t, weight)
  BY <1>2
<1>4. EditDistance(s, t, weight) = D[Len(s)][Len(t)]
  BY <1>3, CornerIsDistance
<1>5. PICK prefix \in Nat, suffix \in Nat : Stripped(Strip(s, t), s, t, prefix, suffix)
  BY StripStrips
<1>6. \E E : /\ IsMatrix(E, Strip(s, t).first, Strip(s, t).second, weight)
             /\ E[Len(Strip(s, t).first)][Len(Strip(s, t).second)] = D[Len(s)][Len(t)]
  <2> DEFINE rest == Strip(s, t)
  <2>1. Stripped(rest, s, t, prefix, suffix)
    BY <1>5
  <2> HIDE DEF rest
  <2>2. \E E : /\ IsMatrix(E, rest.first, rest.second, weight)
               /\ E[Len(rest.first)][Len(rest.second)] = D[Len(s)][Len(t)]
    BY <1>1, <1>3, <2>1, StrippedCorner
  <2> QED
    BY <2>2 DEF rest
<1> QED
  BY <1>4, <1>6

\* The order of the strings does not matter.
LEMMA TransposedCorner ==
  ASSUME NEW a, NEW b, Len(a) \in Nat, Len(b) \in Nat, NEW weight \in Weights,
         NEW D, IsMatrix(D, a, b, weight)
  PROVE  \E E : IsMatrix(E, b, a, weight) /\ E[Len(b)][Len(a)] = D[Len(a)][Len(b)]
<1> DEFINE E == [y \in 0..Len(b) |-> [x \in 0..Len(a) |-> D[x][y]]]
<1>1. IsMatrix(E, b, a, weight)
  BY MatrixTransposes
<1>2. E[Len(b)][Len(a)] = D[Len(a)][Len(b)]
  <2>1. Len(a) \in 0..Len(a) /\ Len(b) \in 0..Len(b)
    OBVIOUS
  <2> QED
    BY <2>1
<1> HIDE DEF E
<1> QED
  BY <1>1, <1>2

\* The same with the shorter string first.
LEMMA OrderedCorner ==
  ASSUME NEW S, NEW s \in Seq(S), NEW t \in Seq(S), Len(s) \in 0..MaxLength,
         Len(t) \in 0..MaxLength, NEW weight \in Weights
  PROVE  /\ Ordered(s, t)[1] \in Seq(S) /\ Ordered(s, t)[2] \in Seq(S)
         /\ Len(Ordered(s, t)[1]) <= Len(Ordered(s, t)[2])
         /\ \E E : /\ IsMatrix(E, Ordered(s, t)[1], Ordered(s, t)[2], weight)
                   /\ E[Len(Ordered(s, t)[1])][Len(Ordered(s, t)[2])]
                        = EditDistance(s, t, weight)
<1> DEFINE a == Strip(s, t).first
           b == Strip(s, t).second
           first == Ordered(s, t)[1]
           second == Ordered(s, t)[2]
           d == EditDistance(s, t, weight)
<1>1. a \in Seq(S) /\ b \in Seq(S)
  BY StripStrips
<1>2. Len(a) \in Nat /\ Len(b) \in Nat
  BY <1>1, LenProperties
<1>3. PICK E : IsMatrix(E, a, b, weight) /\ E[Len(a)][Len(b)] = d
  BY RestCorner
<1>4. /\ Len(a) <= Len(b) => first = a /\ second = b
      /\ ~ (Len(a) <= Len(b)) => first = b /\ second = a
  BY DEF Ordered
<1> HIDE DEF a, b, first, second, d
<1>5. CASE Len(a) <= Len(b)
  <2>1. first = a /\ second = b
    BY <1>4, <1>5
  <2>2. \E F : IsMatrix(F, first, second, weight) /\ F[Len(first)][Len(second)] = d
    BY <1>3, <2>1
  <2> QED
    BY <1>1, <1>5, <2>1, <2>2 DEF first, second, d
<1>6. CASE ~ (Len(a) <= Len(b))
  <2>1. first = b /\ second = a /\ Len(b) <= Len(a)
    BY <1>2, <1>4, <1>6
  <2>2. PICK F : IsMatrix(F, b, a, weight) /\ F[Len(b)][Len(a)] = E[Len(a)][Len(b)]
    BY <1>2, <1>3, TransposedCorner
  <2>3. \E G : IsMatrix(G, first, second, weight) /\ G[Len(first)][Len(second)] = d
    BY <1>3, <2>1, <2>2
  <2> QED
    BY <1>1, <2>1, <2>3 DEF first, second, d
<1> QED
  BY <1>5, <1>6

\* What is computed from the stripped strings, the shorter one first, is the
\* last cell of their matrix.
LEMMA ManyLettersCorner ==
  ASSUME NEW a, NEW b, Len(a) \in Nat, Len(b) \in Nat, 2 <= Len(a), Len(a) <= Len(b),
         NEW xcost \in BOOLEAN, NEW E, IsMatrix(E, a, b, IF xcost THEN 2 ELSE 1),
         NEW g \in Nat
  PROVE  ManyLetters(a, b, xcost, g) = E[Len(a)][Len(b)]
<1>1. CASE xcost
  <2>1. IsMatrix(E, a, b, 2) /\ 2 \in Weights
    BY <1>1 DEF Weights
  <2>2. PICK D : IsMatrix(D, a, b, 2) /\ XDistance(a, b) = D[Len(a)][Len(b)]
    BY XDistanceCorner
  <2>3. D[Len(a)][Len(b)] = E[Len(a)][Len(b)]
    BY <2>1, <2>2, CornersAgree
  <2> QED
    BY <1>1, <2>2, <2>3 DEF ManyLetters
<1>2. CASE ~xcost
  <2>1. IsMatrix(E, a, b, 1)
    BY <1>2
  <2>2. BandDistance(a, b, g) = E[Len(a)][Len(b)]
    BY <2>1, BandDistanceCorner
  <2> QED
    BY <1>2, <2>2 DEF ManyLetters
<1> QED
  BY <1>1, <1>2

\* Both functions return the edit distance.
LEMMA FunctionsMeasure ==
  ASSUME NEW S, NEW s \in Seq(S), NEW t \in Seq(S), Len(s) \in 0..MaxLength,
         Len(t) \in 0..MaxLength, NEW xcost \in BOOLEAN, NEW g \in Nat
  PROVE  /\ LevEditDistance(s, t, xcost, g) = EditDistance(s, t, IF xcost THEN 2 ELSE 1)
         /\ LevUEditDistance(s, t, xcost, g) = EditDistance(s, t, IF xcost THEN 2 ELSE 1)
<1> DEFINE a == Ordered(s, t)[1]
           b == Ordered(s, t)[2]
           weight == IF xcost THEN 2 ELSE 1
           d == EditDistance(s, t, weight)
           isIn == a[1] \in ToSet(b)
<1>1. weight \in Weights
  BY DEF Weights
<1>2. /\ a \in Seq(S) /\ b \in Seq(S) /\ Len(a) <= Len(b)
      /\ \E E : IsMatrix(E, a, b, weight) /\ E[Len(a)][Len(b)] = d
  <2> HIDE DEF weight
  <2> QED
    BY <1>1, OrderedCorner
<1>3. PICK E : IsMatrix(E, a, b, weight) /\ E[Len(a)][Len(b)] = d
  BY <1>2
<1>4. Len(a) \in Nat /\ Len(b) \in Nat
  BY <1>2, LenProperties
<1>5. /\ LevEditDistance(s, t, xcost, g)
           = CASE Len(a) = 0 -> Len(b)
               [] Len(a) = 1 -> IF xcost THEN Len(b) + 1 - 2 * (IF isIn THEN 1 ELSE 0)
                                ELSE Len(b) - (IF isIn THEN 1 ELSE 0)
               [] OTHER      -> ManyLetters(a, b, xcost, g)
      /\ LevUEditDistance(s, t, xcost, g)
           = CASE Len(a) = 0 -> Len(b)
               [] Len(a) = 1 -> IF isIn THEN Len(b) - 1
                                ELSE Len(b) + (IF xcost THEN 1 ELSE 0)
               [] OTHER      -> ManyLetters(a, b, xcost, g)
  BY Zenon DEF LevEditDistance, LevUEditDistance
<1>6. isIn <=> \E z \in 1..Len(b) : b[z] = a[1]
  <2>1. DOMAIN b = 1..Len(b)
    BY <1>2, LenProperties
  <2> HIDE DEF a, b
  <2> QED
    BY <2>1 DEF ToSet
<1> HIDE DEF a, b, d, isIn
<1>7. CASE Len(a) = 0
  <2>1. E[0][Len(b)] = Len(b)
    <3>1. Len(b) \in 0..Len(b)
      BY <1>4
    <3> QED
      BY <1>3, <3>1 DEF IsMatrix
  <2>2. /\ LevEditDistance(s, t, xcost, g) = Len(b)
        /\ LevUEditDistance(s, t, xcost, g) = Len(b)
    BY <1>5, <1>7
  <2> QED
    BY <1>3, <1>7, <2>1, <2>2 DEF d
<1>8. CASE Len(a) = 1
  <2>1. Len(b) \in Nat \ {0}
    BY <1>2, <1>4, <1>8
  <2>2. E[1][Len(b)] = IF \E z \in 1..Len(b) : b[z] = a[1]
                       THEN Len(b) - 1 ELSE Len(b) + weight - 1
    <3> HIDE DEF weight
    <3> QED
      BY <1>1, <1>3, <1>8, <2>1, SingleLetter
  <2>3. E[1][Len(b)] = IF isIn THEN Len(b) - 1 ELSE Len(b) + weight - 1
    BY <1>6, <2>2
  <2>4. /\ LevEditDistance(s, t, xcost, g)
             = IF xcost THEN Len(b) + 1 - 2 * (IF isIn THEN 1 ELSE 0)
               ELSE Len(b) - (IF isIn THEN 1 ELSE 0)
        /\ LevUEditDistance(s, t, xcost, g)
             = IF isIn THEN Len(b) - 1 ELSE Len(b) + (IF xcost THEN 1 ELSE 0)
    BY <1>5, <1>8
  <2>5. E[1][Len(b)] = d
    BY <1>3, <1>8
  <2>6. /\ LevEditDistance(s, t, xcost, g) = d
        /\ LevUEditDistance(s, t, xcost, g) = d
    <3>1. CASE xcost /\ isIn
      BY <2>1, <2>3, <2>4, <2>5, <3>1
    <3>2. CASE xcost /\ ~isIn
      BY <2>1, <2>3, <2>4, <2>5, <3>2
    <3>3. CASE ~xcost /\ isIn
      BY <2>1, <2>3, <2>4, <2>5, <3>3
    <3>4. CASE ~xcost /\ ~isIn
      BY <2>1, <2>3, <2>4, <2>5, <3>4
    <3> QED
      BY <3>1, <3>2, <3>3, <3>4
  <2> QED
    BY <2>6 DEF d
<1>9. CASE Len(a) # 0 /\ Len(a) # 1
  <2>1. 2 <= Len(a)
    <3> DEFINE n == Len(a)
    <3>1. n \in Nat /\ n # 0 /\ n # 1
      BY <1>4, <1>9
    <3> HIDE DEF n
    <3>2. 2 <= n
      BY <3>1
    <3> QED
      BY <3>2 DEF n
  <2>2. ManyLetters(a, b, xcost, g) = d
    BY <1>2, <1>3, <1>4, <2>1, ManyLettersCorner
  <2>3. /\ LevEditDistance(s, t, xcost, g) = ManyLetters(a, b, xcost, g)
        /\ LevUEditDistance(s, t, xcost, g) = ManyLetters(a, b, xcost, g)
    BY <1>5, <1>9
  <2> QED
    BY <2>2, <2>3 DEF d
<1> QED
  BY <1>7, <1>8, <1>9

\* Once Measure has run the distances stay.
MeasureInv ==
    /\ string1 \in Strings /\ string2 \in Strings /\ garbage \in Garbage
    /\ DistanceIsEdit

\* No string is longer than MaxLength.
LEMMA StringLengths ==
  \A s \in Strings : s \in Seq(Letters) /\ Len(s) \in 0..MaxLength
<1> SUFFICES ASSUME NEW s \in Strings
             PROVE  s \in Seq(Letters) /\ Len(s) \in 0..MaxLength
  OBVIOUS
<1>1. s \in Seq(Letters) /\ Len(s) \in Nat
  BY StringsType
<1>2. Len(s) <= MaxLength /\ MaxLength \in Nat
  BY EditOpsAssumption
<1> QED
  BY <1>1, <1>2

\* What Measure finds is right.
LEMMA MeasureMeasures ==
  ASSUME MeasureInv, Measure
  PROVE  DistanceIsEdit'
<1>1. string1' = string1 /\ string2' = string2
  BY DEF Measure, inputs
<1>2. \A x \in BOOLEAN :
         /\ LevEditDistance(string1, string2, x, garbage)
              = EditDistance(string1, string2, IF x THEN 2 ELSE 1)
         /\ LevUEditDistance(string1, string2, x, garbage)
              = EditDistance(string1, string2, IF x THEN 2 ELSE 1)
  <2>1. /\ string1 \in Seq(Letters) /\ Len(string1) \in 0..MaxLength
        /\ string2 \in Seq(Letters) /\ Len(string2) \in 0..MaxLength
    BY StringLengths DEF MeasureInv
  <2>2. garbage \in Nat
    BY EditOpsAssumption DEF MeasureInv
  <2> QED
    BY <2>1, <2>2, FunctionsMeasure
<1>3. \A x \in BOOLEAN :
         /\ distance'.bytes[x] = LevEditDistance(string1, string2, x, garbage)
         /\ distance'.wide[x] = LevUEditDistance(string1, string2, x, garbage)
  BY Zenon DEF Measure
<1>4. ASSUME NEW x \in BOOLEAN
      PROVE  /\ distance'.bytes[x] = EditDistance(string1', string2', IF x THEN 2 ELSE 1)
             /\ distance'.wide[x] = EditDistance(string1', string2', IF x THEN 2 ELSE 1)
  BY <1>1, <1>2, <1>3, Zenon
<1> QED
  BY <1>4, Zenon DEF DistanceIsEdit

\* No other step runs with the stage at "measured".
LEMMA NextMeasureInv == MeasureInv /\ [Next]_vars => MeasureInv'
<1> SUFFICES ASSUME MeasureInv, [Next]_vars PROVE MeasureInv'
  OBVIOUS
<1>1. /\ string1' = string1 /\ string2' = string2 /\ garbage' = garbage
      /\ DistanceIsEdit'
  <2>1. CASE Measure
    BY <2>1, MeasureMeasures DEF Measure, inputs
  <2>2. CASE FillMatrix
    BY <2>2 DEF FillMatrix, inputs, DistanceIsEdit
  <2>3. CASE Insert
    BY <2>3 DEF Insert, Back, inputs, DistanceIsEdit
  <2>4. CASE Delete
    BY <2>4 DEF Delete, Back, inputs, DistanceIsEdit
  <2>5. CASE Keep
    BY <2>5 DEF Keep, Back, inputs, DistanceIsEdit
  <2>6. CASE Replace
    BY <2>6 DEF Replace, Back, inputs, DistanceIsEdit
  <2>7. CASE Found
    BY <2>7 DEF Found, inputs, DistanceIsEdit
  <2>8. CASE Convert
    BY <2>8 DEF Convert, inputs, DistanceIsEdit
  <2>9. CASE ConvertRest
    BY <2>9 DEF ConvertRest, inputs, DistanceIsEdit
  <2>10. CASE Count \/ CountRest
    BY <2>10 DEF Count, CountRest, inputs, DistanceIsEdit
  <2>11. CASE UNCHANGED vars
    BY <2>11 DEF MeasureInv, vars, inputs, DistanceIsEdit
  <2> QED
    BY <2>1, <2>2, <2>3, <2>4, <2>5, <2>6, <2>7, <2>8, <2>9, <2>10, <2>11 DEF Next
<1> QED
  BY <1>1 DEF MeasureInv

\* The distances are right in every state that measures them.
THEOREM MeasureInvariant == Spec => []MeasureInv
<1>1. Init => MeasureInv
  BY DEF Init, MeasureInv, DistanceIsEdit
<1> QED
  BY <1>1, NextMeasureInv, PTL DEF Spec

\* Both distance functions of levenshtein.cpp return the edit distance, with
\* and without xcost, for all strings, whatever malloc finds in memory.
THEOREM DistanceCorrect == Spec => []DistanceIsEdit
<1>1. MeasureInv => DistanceIsEdit
  BY DEF MeasureInv
<1> QED
  BY <1>1, MeasureInvariant, PTL

-----------------------------------------------------------------------------
(* What the operations say: the way through the strings.                   *)

\* The letters from x to u in a are those from y to v in b.
Diag(a, b, x, y, u, v) ==
    /\ x <= u /\ u + y = v + x
    /\ \A p \in (x + 1)..u : a[p] = b[(p + y) - x]

\* Operations that edit a letter or keep one.
Steps == [type : {"insert", "delete", "replace", "keep"}, spos : Nat, dpos : Nat]

\* Where operation n of q leads, if q starts at s or d.
SEnd(q, n, s) == IF n = 0 THEN s ELSE q[n].spos + Advances(q[n].type)[1]
DEnd(q, n, d) == IF n = 0 THEN d ELSE q[n].dpos + Advances(q[n].type)[2]

\* Where operation n begins, if q ends at u or v.
SBeg(q, n, u) == IF n > Len(q) THEN u ELSE q[n].spos
DBeg(q, n, v) == IF n > Len(q) THEN v ELSE q[n].dpos

\* An operation is inside the strings, and one that keeps a letter keeps it.
Inside(a, b, op) ==
    /\ op.spos + Advances(op.type)[1] <= Len(a)
    /\ op.dpos + Advances(op.type)[2] <= Len(b)
    /\ op.type = "keep" => Diag(a, b, op.spos, op.dpos, op.spos + 1, op.dpos + 1)

\* From each operation of q to the next the strings have the same letters, and
\* so from s and d to the first and from the last to u and v.
Way(a, b, q, s, d, u, v) ==
    /\ q \in Seq(Steps)
    /\ \A n \in 1..Len(q) : Inside(a, b, q[n])
    /\ \A n \in 0..Len(q) : Diag(a, b, SEnd(q, n, s), DEnd(q, n, d),
                                 SBeg(q, n + 1, u), DBeg(q, n + 1, v))

\* How far an operation goes.
LEMMA AdvancesBits ==
  /\ \A t : Advances(t)[1] \in {0, 1} /\ Advances(t)[2] \in {0, 1}
  /\ Advances("insert")[1] = 0 /\ Advances("insert")[2] = 1
  /\ Advances("delete")[1] = 1 /\ Advances("delete")[2] = 0
  /\ Advances("replace")[1] = 1 /\ Advances("replace")[2] = 1
  /\ Advances("keep")[1] = 1 /\ Advances("keep")[2] = 1
  BY DEF Advances

\* Equal letters follow equal letters.
LEMMA DiagTransitive ==
  ASSUME NEW a, NEW b, NEW x \in Nat, NEW y \in Nat, NEW u \in Nat, NEW v \in Nat,
         NEW s \in Nat, NEW t \in Nat, Diag(a, b, x, y, u, v), Diag(a, b, u, v, s, t)
  PROVE  Diag(a, b, x, y, s, t)
<1>1. /\ x <= u /\ u + y = v + x /\ u <= s /\ s + v = t + u
      /\ \A p \in (x + 1)..u : a[p] = b[(p + y) - x]
      /\ \A p \in (u + 1)..s : a[p] = b[(p + v) - u]
  BY DEF Diag
<1>2. \A p \in (x + 1)..s : /\ p \in (x + 1)..u \/ p \in (u + 1)..s
                            /\ (p + v) - u = (p + y) - x
  BY <1>1
<1>3. \A p \in (x + 1)..s : a[p] = b[(p + y) - x]
  BY <1>1, <1>2
<1>4. x <= s /\ s + y = t + x
  BY <1>1
<1> QED
  BY <1>3, <1>4 DEF Diag

\* No letter is equal to none.
LEMMA DiagReflexive ==
  ASSUME NEW a, NEW b, NEW x \in Nat, NEW y \in Nat
  PROVE  Diag(a, b, x, y, x, y)
  BY DEF Diag

\* The positions of a way are numbers.
LEMMA WayType ==
  ASSUME NEW q \in Seq(Steps)
  PROVE  /\ Len(q) \in Nat
         /\ \A n \in 1..Len(q) :
               /\ q[n] \in Steps /\ q[n].spos \in Nat /\ q[n].dpos \in Nat
               /\ q[n].spos + Advances(q[n].type)[1] \in Nat
               /\ q[n].dpos + Advances(q[n].type)[2] \in Nat
         /\ \A n \in 0..Len(q), s \in Nat, d \in Nat :
               SEnd(q, n, s) \in Nat /\ DEnd(q, n, d) \in Nat
         /\ \A n \in 1..(Len(q) + 1), u \in Nat, v \in Nat :
               SBeg(q, n, u) \in Nat /\ DBeg(q, n, v) \in Nat
<1>1. Len(q) \in Nat /\ \A n \in 1..Len(q) : q[n] \in Steps
  BY LenProperties, ElementOfSeq
<1>2. \A n \in 1..Len(q) : q[n].spos \in Nat /\ q[n].dpos \in Nat
  BY <1>1 DEF Steps
<1>3. ASSUME NEW n \in 1..Len(q)
      PROVE  /\ q[n].spos + Advances(q[n].type)[1] \in Nat
             /\ q[n].dpos + Advances(q[n].type)[2] \in Nat
  <2> DEFINE s == q[n].spos
             d == q[n].dpos
             di == Advances(q[n].type)[1]
             dj == Advances(q[n].type)[2]
  <2>1. s \in Nat /\ d \in Nat
    BY <1>2
  <2>2. di \in {0, 1} /\ dj \in {0, 1}
    BY AdvancesBits
  <2> HIDE DEF s, d, di, dj
  <2>3. s + di \in Nat /\ d + dj \in Nat
    BY <2>1, <2>2
  <2> QED
    BY <2>3 DEF s, d, di, dj
<1>4. ASSUME NEW n \in 0..Len(q), NEW s \in Nat, NEW d \in Nat
      PROVE  SEnd(q, n, s) \in Nat /\ DEnd(q, n, d) \in Nat
  <2>1. n = 0 \/ n \in 1..Len(q)
    BY <1>1
  <2> QED
    BY <1>3, <2>1, Zenon DEF SEnd, DEnd
<1>5. ASSUME NEW n \in 1..(Len(q) + 1), NEW u \in Nat, NEW v \in Nat
      PROVE  SBeg(q, n, u) \in Nat /\ DBeg(q, n, v) \in Nat
  <2>1. n > Len(q) \/ n \in 1..Len(q)
    BY <1>1
  <2> QED
    BY <1>2, <2>1, Zenon DEF SBeg, DBeg
<1> QED
  BY <1>1, <1>2, <1>3, <1>4, <1>5

\* A way that goes on where another one ends.
LEMMA WayConcat ==
  ASSUME NEW a, NEW b, NEW q, NEW r, NEW s \in Nat, NEW d \in Nat, NEW u \in Nat,
         NEW v \in Nat, NEW x \in Nat, NEW y \in Nat, Way(a, b, q, s, d, u, v), Way(a, b, r, u, v, x, y)
  PROVE  Way(a, b, q \o r, s, d, x, y)
<1> DEFINE w == q \o r
           m == Len(q)
           k == Len(r)
<1>1. q \in Seq(Steps) /\ r \in Seq(Steps)
  BY DEF Way
<1>2. /\ w \in Seq(Steps) /\ m \in Nat /\ k \in Nat /\ Len(w) = m + k
      /\ \A n \in 1..(m + k) : w[n] = IF n <= m THEN q[n] ELSE r[n - m]
  BY <1>1, ConcatProperties, LenProperties
<1>3. /\ \A n \in 1..m : w[n] = q[n]
      /\ \A n \in 1..k : n + m \in 1..(m + k) /\ w[n + m] = r[n] /\ (n + m) - m = n
  <2>1. \A n \in 1..m : n \in 1..(m + k) /\ n <= m
    BY <1>2
  <2>2. \A n \in 1..k : n + m \in 1..(m + k) /\ ~ (n + m <= m) /\ (n + m) - m = n
    BY <1>2
  <2> HIDE DEF w, m, k
  <2> QED
    BY <1>2, <2>1, <2>2
<1>4. /\ \A n \in 1..m : Inside(a, b, q[n])
      /\ \A n \in 1..k : Inside(a, b, r[n])
  BY DEF Way
<1>5. /\ \A n \in 0..m : Diag(a, b, SEnd(q, n, s), DEnd(q, n, d),
                               SBeg(q, n + 1, u), DBeg(q, n + 1, v))
      /\ \A n \in 0..k : Diag(a, b, SEnd(r, n, u), DEnd(r, n, v),
                               SBeg(r, n + 1, x), DBeg(r, n + 1, y))
  BY DEF Way
<1> HIDE DEF w, m, k
<1>6. \A n \in 1..Len(w) : Inside(a, b, w[n])
  <2>1. ASSUME NEW n \in 1..Len(w) PROVE Inside(a, b, w[n])
    <3>1. CASE n <= m
      <4>1. n \in 1..m
        BY <1>2, <3>1
      <4> QED
        BY <1>3, <1>4, <4>1
    <3>2. CASE n > m
      <4>1. n - m \in 1..k /\ (n - m) + m = n
        BY <1>2, <3>2
      <4>2. w[(n - m) + m] = r[n - m]
        BY <1>3, <4>1
      <4> QED
        BY <1>4, <4>1, <4>2
    <3> QED
      BY <1>2, <3>1, <3>2
  <2> QED
    BY <2>1
<1>7. \A n \in 0..m : SEnd(w, n, s) = SEnd(q, n, s) /\ DEnd(w, n, d) = DEnd(q, n, d)
  <2>1. ASSUME NEW n \in 0..m
        PROVE  SEnd(w, n, s) = SEnd(q, n, s) /\ DEnd(w, n, d) = DEnd(q, n, d)
    <3>1. n = 0 \/ n \in 1..m
      BY <1>2
    <3> QED
      BY <1>3, <3>1, Zenon DEF SEnd, DEnd
  <2> QED
    BY <2>1
<1>8. \A n \in 1..m : SBeg(w, n, x) = SBeg(q, n, u) /\ DBeg(w, n, y) = DBeg(q, n, v)
  <2>1. \A n \in 1..m : ~ (n > m) /\ ~ (n > Len(w))
    BY <1>2
  <2> QED
    BY <1>3, <2>1 DEF SBeg, DBeg, m
<1>9. \A n \in 1..k : /\ SEnd(w, n + m, s) = SEnd(r, n, u)
                      /\ DEnd(w, n + m, d) = DEnd(r, n, v)
  <2>1. \A n \in 1..k : n # 0 /\ n + m # 0
    BY <1>2
  <2> QED
    BY <1>3, <2>1 DEF SEnd, DEnd
<1>10. \A n \in 1..(k + 1) : /\ SBeg(w, n + m, x) = SBeg(r, n, x)
                             /\ DBeg(w, n + m, y) = DBeg(r, n, y)
  <2>1. ASSUME NEW n \in 1..(k + 1)
        PROVE  SBeg(w, n + m, x) = SBeg(r, n, x) /\ DBeg(w, n + m, y) = DBeg(r, n, y)
    <3>1. CASE n > k
      <4>1. n + m > Len(w)
        BY <1>2, <3>1
      <4> QED
        BY <3>1, <4>1 DEF SBeg, DBeg, k
    <3>2. CASE n \in 1..k
      <4>1. ~ (n + m > Len(w)) /\ ~ (n > k)
        BY <1>2, <3>2
      <4> QED
        BY <1>3, <3>2, <4>1 DEF SBeg, DBeg, k
    <3> QED
      BY <1>2, <3>1, <3>2
  <2> QED
    BY <2>1
<1>11. ASSUME NEW n \in 0..Len(w)
       PROVE  Diag(a, b, SEnd(w, n, s), DEnd(w, n, d), SBeg(w, n + 1, x), DBeg(w, n + 1, y))
  <2>1. CASE n < m
    <3>1. n \in 0..m /\ n + 1 \in 1..m
      BY <1>2, <2>1
    <3> QED
      BY <1>5, <1>7, <1>8, <3>1
  <2>2. CASE n = m
    <3>1. m \in 0..m /\ 1 \in 1..(k + 1) /\ 0 \in 0..k /\ m + 1 = 1 + m /\ 0 + 1 = 1
      BY <1>2
    <3>2. Diag(a, b, SEnd(q, m, s), DEnd(q, m, d), u, v)
      <4>1. SBeg(q, m + 1, u) = u /\ DBeg(q, m + 1, v) = v
        BY <1>2 DEF SBeg, DBeg, m
      <4> QED
        BY <1>5, <3>1, <4>1
    <3>3. Diag(a, b, u, v, SBeg(r, 1, x), DBeg(r, 1, y))
      <4>1. SEnd(r, 0, u) = u /\ DEnd(r, 0, v) = v
        BY DEF SEnd, DEnd
      <4> QED
        BY <1>5, <3>1, <4>1
    <3>4. /\ SEnd(q, m, s) \in Nat /\ DEnd(q, m, d) \in Nat
          /\ SBeg(r, 1, x) \in Nat /\ DBeg(r, 1, y) \in Nat
      BY <1>1, <3>1, WayType DEF m, k
    <3>5. Diag(a, b, SEnd(q, m, s), DEnd(q, m, d), SBeg(r, 1, x), DBeg(r, 1, y))
      <4> DEFINE g == SEnd(q, m, s)
                 h == DEnd(q, m, d)
                 e == SBeg(r, 1, x)
                 f == DBeg(r, 1, y)
      <4>1. g \in Nat /\ h \in Nat /\ e \in Nat /\ f \in Nat
        BY <3>4
      <4>2. Diag(a, b, g, h, u, v) /\ Diag(a, b, u, v, e, f)
        BY <3>2, <3>3
      <4> HIDE DEF g, h, e, f
      <4>3. Diag(a, b, g, h, e, f)
        BY <4>1, <4>2, DiagTransitive
      <4> QED
        BY <4>3 DEF g, h, e, f
    <3>6. /\ SEnd(w, n, s) = SEnd(q, m, s) /\ DEnd(w, n, d) = DEnd(q, m, d)
      BY <1>7, <2>2, <3>1
    <3>7. SBeg(w, n + 1, x) = SBeg(r, 1, x) /\ DBeg(w, n + 1, y) = DBeg(r, 1, y)
      BY <1>10, <2>2, <3>1
    <3> QED
      BY <3>5, <3>6, <3>7, Zenon
  <2>3. CASE n > m
    <3>1. /\ n - m \in 1..k /\ n - m \in 0..k /\ (n - m) + m = n
          /\ (n - m) + 1 \in 1..(k + 1) /\ ((n - m) + 1) + m = n + 1
      <4>1. m \in Nat /\ k \in Nat /\ n \in 0..(m + k)
        BY <1>2
      <4> QED
        BY <2>3, <4>1
    <3> DEFINE p == n - m
    <3>2. /\ p \in 1..k /\ p \in 0..k /\ p + m = n
          /\ p + 1 \in 1..(k + 1) /\ (p + 1) + m = n + 1
      BY <3>1
    <3> HIDE DEF p
    <3>3. /\ SEnd(w, p + m, s) = SEnd(r, p, u) /\ DEnd(w, p + m, d) = DEnd(r, p, v)
          /\ SBeg(w, (p + 1) + m, x) = SBeg(r, p + 1, x)
          /\ DBeg(w, (p + 1) + m, y) = DBeg(r, p + 1, y)
      BY <1>9, <1>10, <3>2
    <3> QED
      BY <1>5, <3>2, <3>3
  <2> QED
    BY <1>2, <2>1, <2>2, <2>3
<1>12. Way(a, b, w, s, d, x, y)
  BY <1>2, <1>6, <1>11 DEF Way
<1> QED
  BY <1>12 DEF w

\* The empty way goes along equal letters.
LEMMA WayEmpty ==
  ASSUME NEW a, NEW b, NEW s \in Nat, NEW d \in Nat, NEW u \in Nat, NEW v \in Nat,
         Diag(a, b, s, d, u, v)
  PROVE  Way(a, b, <<>>, s, d, u, v)
<1>1. <<>> \in Seq(Steps) /\ Len(<<>>) = 0
  OBVIOUS
<1>2. \A n \in 0..0 : /\ SEnd(<<>>, n, s) = s /\ DEnd(<<>>, n, d) = d
                      /\ SBeg(<<>>, n + 1, u) = u /\ DBeg(<<>>, n + 1, v) = v
  BY <1>1 DEF SEnd, DEnd, SBeg, DBeg
<1> QED
  BY <1>1, <1>2 DEF Way

\* One operation is a way.
LEMMA WayOne ==
  ASSUME NEW a, NEW b, NEW op \in Steps, Inside(a, b, op)
  PROVE  Way(a, b, <<op>>, op.spos, op.dpos, op.spos + Advances(op.type)[1],
             op.dpos + Advances(op.type)[2])
<1> DEFINE u == op.spos + Advances(op.type)[1]
           v == op.dpos + Advances(op.type)[2]
           q == <<op>>
<1>1. q \in Seq(Steps) /\ Len(q) = 1 /\ q[1] = op
  OBVIOUS
<1>2. op.spos \in Nat /\ op.dpos \in Nat
  BY DEF Steps
<1>3. u \in Nat /\ v \in Nat
  BY <1>2, AdvancesBits
<1> HIDE DEF q
<1>4. SEnd(q, 1, op.spos) = u /\ DEnd(q, 1, op.dpos) = v
  BY <1>1 DEF SEnd, DEnd
<1> HIDE DEF u, v
<1>5. /\ SEnd(q, 0, op.spos) = op.spos /\ DEnd(q, 0, op.dpos) = op.dpos
      /\ SBeg(q, 1, u) = op.spos /\ DBeg(q, 1, v) = op.dpos
      /\ SBeg(q, 2, u) = u /\ DBeg(q, 2, v) = v
  BY <1>1 DEF SEnd, DEnd, SBeg, DBeg
<1>6. Diag(a, b, op.spos, op.dpos, op.spos, op.dpos) /\ Diag(a, b, u, v, u, v)
  BY <1>2, <1>3, DiagReflexive
<1>7. ASSUME NEW n \in 0..1
      PROVE  Diag(a, b, SEnd(q, n, op.spos), DEnd(q, n, op.dpos),
                  SBeg(q, n + 1, u), DBeg(q, n + 1, v))
  <2>1. (n = 0 /\ n + 1 = 1) \/ (n = 1 /\ n + 1 = 2)
    OBVIOUS
  <2> QED
    BY <1>4, <1>5, <1>6, <2>1
<1>8. Way(a, b, q, op.spos, op.dpos, u, v)
  <2>1. \A n \in 1..Len(q) : Inside(a, b, q[n])
    BY <1>1
  <2> QED
    BY <1>1, <1>7, <2>1 DEF Way
<1> QED
  BY <1>8 DEF q, u, v

\* An operation goes before a way.
LEMMA WayPush ==
  ASSUME NEW a, NEW b, NEW q, NEW op \in Steps, Inside(a, b, op), NEW u \in Nat,
         NEW v \in Nat, op.spos + Advances(op.type)[1] = u,
         op.dpos + Advances(op.type)[2] = v,
         NEW x \in Nat, NEW y \in Nat, Way(a, b, q, u, v, x, y)
  PROVE  Way(a, b, <<op>> \o q, op.spos, op.dpos, x, y)
<1>1. op.spos \in Nat /\ op.dpos \in Nat
  BY DEF Steps
<1>2. Way(a, b, <<op>>, op.spos, op.dpos, u, v)
  BY WayOne
<1> QED
  BY <1>1, <1>2, WayConcat

\* Equal letters go before a way.
LEMMA WayExtends ==
  ASSUME NEW a, NEW b, NEW q, NEW s \in Nat, NEW d \in Nat, NEW u \in Nat, NEW v \in Nat,
         NEW x \in Nat, NEW y \in Nat, Diag(a, b, s, d, u, v), Way(a, b, q, u, v, x, y)
  PROVE  Way(a, b, q, s, d, x, y)
<1>1. Way(a, b, <<>>, s, d, u, v)
  BY WayEmpty
<1>2. Way(a, b, <<>> \o q, s, d, x, y)
  BY <1>1, WayConcat
<1>3. <<>> \o q = q
  <2>1. q \in Seq(Steps)
    BY DEF Way
  <2> QED
    BY <2>1
<1> QED
  BY <1>2, <1>3

\* What Strip leaves, and what it cuts off at the beginning and the end.
LEMMA RestIsCutOut ==
  ASSUME string1 \in Strings, string2 \in Strings
  PROVE  /\ Rest.offset \in Nat /\ Len(Rest.first) \in Nat /\ Len(Rest.second) \in Nat
         /\ Len(string1) \in Nat /\ Len(string2) \in Nat
         /\ Len(Rest.first) + Rest.offset <= Len(string1)
         /\ Len(Rest.second) + Rest.offset <= Len(string2)
         /\ \A p \in 1..Len(Rest.first) : Rest.first[p] = string1[Rest.offset + p]
         /\ \A p \in 1..Len(Rest.second) : Rest.second[p] = string2[Rest.offset + p]
         /\ Diag(string1, string2, 0, 0, Rest.offset, Rest.offset)
         /\ Diag(string1, string2, Len(Rest.first) + Rest.offset,
                 Len(Rest.second) + Rest.offset, Len(string1), Len(string2))
<1> DEFINE a == string1
           b == string2
           n == Len(Rest.first)
           m == Len(Rest.second)
           k == Rest.offset
<1>1. a \in Seq(Letters) /\ b \in Seq(Letters)
  BY StringsType
<1>2. /\ Rest.first \in Seq(Letters) /\ Rest.second \in Seq(Letters)
      /\ \E prefix, suffix \in Nat : Stripped(Rest, a, b, prefix, suffix)
  BY <1>1, StripStrips DEF Rest
<1>3. PICK prefix \in Nat, suffix \in Nat : Stripped(Rest, a, b, prefix, suffix)
  BY <1>2
<1>4. n \in Nat /\ m \in Nat /\ Len(a) \in Nat /\ Len(b) \in Nat
  BY <1>1, <1>2, LenProperties
<1>5. /\ k = prefix /\ k \in Nat
      /\ n = Len(a) - prefix - suffix /\ m = Len(b) - prefix - suffix
  BY <1>3 DEF Stripped
<1>6. \A p \in 1..n : Rest.first[p] = a[k + p]
  BY <1>3, <1>5 DEF Stripped
<1>7. \A p \in 1..m : Rest.second[p] = b[k + p]
  BY <1>3, <1>5 DEF Stripped
<1>8. \A p \in 1..prefix : a[p] = b[p]
  BY <1>3 DEF Stripped
<1>9. \A p \in 1..suffix : a[Len(a) - suffix + p] = b[Len(b) - suffix + p]
  BY <1>3 DEF Stripped
<1> HIDE DEF a, b, n, m, k
<1>10. Diag(a, b, 0, 0, k, k)
  <2>1. \A p \in (0 + 1)..k : p \in 1..prefix /\ (p + 0) - 0 = p
    BY <1>5
  <2>2. \A p \in (0 + 1)..k : a[p] = b[(p + 0) - 0]
    BY <1>8, <2>1
  <2>3. 0 <= k /\ k + 0 = k + 0
    BY <1>5
  <2> QED
    BY <2>2, <2>3 DEF Diag
<1>11. Diag(a, b, n + k, m + k, Len(a), Len(b))
  <2>1. \A p \in ((n + k) + 1)..Len(a) :
           /\ p - (n + k) \in 1..suffix
           /\ Len(a) - suffix + (p - (n + k)) = p
           /\ Len(b) - suffix + (p - (n + k)) = (p + (m + k)) - (n + k)
    BY <1>4, <1>5
  <2>2. \A p \in ((n + k) + 1)..Len(a) : a[p] = b[(p + (m + k)) - (n + k)]
    BY <1>9, <2>1
  <2>3. n + k <= Len(a) /\ Len(a) + (m + k) = Len(b) + (n + k)
    BY <1>4, <1>5
  <2> QED
    BY <2>2, <2>3 DEF Diag
<1>12. n + k <= Len(a) /\ m + k <= Len(b)
  BY <1>4, <1>5
<1> QED
  BY <1>4, <1>5, <1>6, <1>7, <1>10, <1>11, <1>12 DEF a, b, n, m, k

\* What has been found on the way back is the end of a way through the strings.
BackWay ==
    Way(string1, string2, ops, i + Rest.offset, j + Rest.offset, Len(string1), Len(string2))

\* The way starts at the end of what Strip left.
LEMMA FillMatrixWay ==
  ASSUME EditInv, FillMatrix
  PROVE  BackWay'
<1>1. /\ string1' = string1 /\ string2' = string2 /\ ops' = ops /\ stage = "measured"
      /\ i' = Len(Rest.first) /\ j' = Len(Rest.second)
  BY DEF FillMatrix, inputs
<1>2. /\ string1 \in Strings /\ string2 \in Strings /\ ops = <<>>
  BY <1>1 DEF EditInv
<1>3. Rest' = Rest
  BY <1>1 DEF Rest
<1> DEFINE s == Len(Rest.first) + Rest.offset
           d == Len(Rest.second) + Rest.offset
<1>4. /\ s \in Nat /\ d \in Nat /\ Len(string1) \in Nat /\ Len(string2) \in Nat
      /\ Diag(string1, string2, s, d, Len(string1), Len(string2))
  BY <1>2, RestIsCutOut
<1> HIDE DEF s, d
<1>5. Way(string1, string2, <<>>, s, d, Len(string1), Len(string2))
  BY <1>4, WayEmpty
<1> QED
  BY <1>1, <1>2, <1>3, <1>5 DEF BackWay, s, d

\* An operation that is pushed goes before the way found so far.
LEMMA PushWay ==
  ASSUME EditInv, stage = "back", BackWay, Insert \/ Delete \/ Replace,
         NEW type \in {"insert", "delete", "replace"}, NEW di \in {0, 1}, NEW dj \in {0, 1},
         Advances(type)[1] = di, Advances(type)[2] = dj,
         i - di \in Nat, j - dj \in Nat,
         i' = i - di, j' = j - dj, Push(type, di, dj)
  PROVE  BackWay'
<1> DEFINE k == Rest.offset
           op == [type |-> type, spos |-> i - di + k, dpos |-> j - dj + k]
<1>1. /\ UNCHANGED <<string1, string2, Rest>>
      /\ string1 \in Strings /\ string2 \in Strings /\ BackInv
  BY StepBack
<1>2. /\ k \in Nat /\ Len(Rest.first) \in Nat /\ Len(Rest.second) \in Nat
      /\ Len(string1) \in Nat /\ Len(string2) \in Nat
      /\ Len(Rest.first) + k <= Len(string1) /\ Len(Rest.second) + k <= Len(string2)
  BY <1>1, RestIsCutOut
<1>3. i \in 0..Len(Rest.first) /\ j \in 0..Len(Rest.second)
  BY <1>1 DEF BackInv
<1>4. ops' = <<op>> \o ops
  BY DEF Push
<1>5. /\ op.type = type /\ op.spos = i - di + k /\ op.dpos = j - dj + k
  OBVIOUS
<1> HIDE DEF k
<1>6. op \in Steps
  <2> DEFINE s == i - di
             d == j - dj
  <2>1. s \in Nat /\ d \in Nat /\ k \in Nat
    BY <1>2
  <2> HIDE DEF s, d
  <2>2. s + k \in Nat /\ d + k \in Nat
    BY <2>1, SMTT(30)
  <2> QED
    BY <2>2, SMTT(30) DEF Steps, s, d
<1> HIDE DEF op
<1>7. /\ op.spos + Advances(op.type)[1] = i + k
      /\ op.dpos + Advances(op.type)[2] = j + k
      /\ i + k \in Nat /\ j + k \in Nat
      /\ i + k <= Len(string1) /\ j + k <= Len(string2)
  <2>1. Advances(op.type)[1] = di /\ Advances(op.type)[2] = dj
    BY <1>5
  <2>2. /\ i \in Nat /\ j \in Nat /\ k \in Nat
        /\ i + k <= Len(string1) /\ j + k <= Len(string2)
    BY <1>2, <1>3
  <2>3. (i - di + k) + di = i + k /\ (j - dj + k) + dj = j + k
    BY <2>2
  <2> QED
    BY <1>5, <2>1, <2>2, <2>3
<1>8. Inside(string1, string2, op)
  BY <1>5, <1>7 DEF Inside
<1>9. Way(string1, string2, ops, i + k, j + k, Len(string1), Len(string2))
  BY DEF BackWay, k
<1>10. Way(string1, string2, <<op>> \o ops, op.spos, op.dpos, Len(string1), Len(string2))
  BY <1>2, <1>6, <1>7, <1>8, <1>9, WayPush
<1>11. op.spos = i' + k /\ op.dpos = j' + k
  BY <1>5
<1> QED
  BY <1>1, <1>4, <1>10, <1>11 DEF BackWay, k

\* Every step back extends the way.
LEMMA StepWay ==
  ASSUME EditInv, stage = "back", BackWay, Insert \/ Delete \/ Keep \/ Replace
  PROVE  BackWay'
<1>1. /\ UNCHANGED <<string1, string2, Rest>>
      /\ string1 \in Strings /\ string2 \in Strings /\ BackInv
  BY StepBack
<1>2. /\ Rest.offset \in Nat /\ Len(Rest.first) \in Nat /\ Len(Rest.second) \in Nat
      /\ Len(string1) \in Nat /\ Len(string2) \in Nat
      /\ \A p \in 1..Len(Rest.first) : Rest.first[p] = string1[Rest.offset + p]
      /\ \A p \in 1..Len(Rest.second) : Rest.second[p] = string2[Rest.offset + p]
  BY <1>1, RestIsCutOut
<1>3. i \in 0..Len(Rest.first) /\ j \in 0..Len(Rest.second) /\ i \in Nat /\ j \in Nat
  BY <1>1, <1>2 DEF BackInv
<1>4. CASE Insert
  <2>1. j > 0 /\ Push("insert", 0, 1) /\ i' = i - 0 /\ j' = j - 1
    BY <1>4 DEF Insert, Inserts, Back
  <2>2. i - 0 \in Nat /\ j - 1 \in Nat
    BY <1>3, <2>1
  <2> QED
    BY <1>4, <2>1, <2>2, AdvancesBits, PushWay
<1>5. CASE Delete
  <2>1. i > 0 /\ Push("delete", 1, 0) /\ i' = i - 1 /\ j' = j - 0
    BY <1>5 DEF Delete, Deletes, Back
  <2>2. i - 1 \in Nat /\ j - 0 \in Nat
    BY <1>3, <2>1
  <2> QED
    BY <1>5, <2>1, <2>2, AdvancesBits, PushWay
<1>6. CASE Replace
  <2>1. i > 0 /\ j > 0 /\ Push("replace", 1, 1) /\ i' = i - 1 /\ j' = j - 1
    BY <1>6 DEF Replace, Replaces, Back
  <2>2. i - 1 \in Nat /\ j - 1 \in Nat
    BY <1>3, <2>1
  <2> QED
    BY <1>6, <2>1, <2>2, AdvancesBits, PushWay
<1>7. CASE Keep
  <2> DEFINE k == Rest.offset
  <2>1. /\ i > 0 /\ j > 0 /\ Rest.first[i] = Rest.second[j]
        /\ i' = i - 1 /\ j' = j - 1 /\ ops' = ops
    BY <1>7 DEF Keep, Keeps, Back
  <2>2. i \in 1..Len(Rest.first) /\ j \in 1..Len(Rest.second)
    BY <1>2, <1>3, <2>1
  <2>3. string1[k + i] = string2[k + j]
    <3>1. Rest.first[i] = string1[k + i]
      BY <1>2, <2>2, Zenon
    <3>2. Rest.second[j] = string2[k + j]
      BY <1>2, <2>2, Zenon
    <3> QED
      BY <2>1, <3>1, <3>2, Zenon
  <2>4. k \in Nat
    BY <1>2
  <2> HIDE DEF k
  <2>5. /\ (i - 1) + k \in Nat /\ (j - 1) + k \in Nat /\ i + k \in Nat /\ j + k \in Nat
        /\ k + i = i + k /\ k + j = j + k
    BY <1>3, <2>1, <2>4
  <2>6. Diag(string1, string2, (i - 1) + k, (j - 1) + k, i + k, j + k)
    <3>1. \A p \in (((i - 1) + k) + 1)..(i + k) :
             p = i + k /\ (p + ((j - 1) + k)) - ((i - 1) + k) = j + k
      BY <1>3, <2>4
    <3>2. \A p \in (((i - 1) + k) + 1)..(i + k) :
             string1[p] = string2[(p + ((j - 1) + k)) - ((i - 1) + k)]
      BY <2>3, <2>5, <3>1
    <3>3. (i - 1) + k <= i + k /\ (i + k) + ((j - 1) + k) = (j + k) + ((i - 1) + k)
      BY <1>3, <2>4
    <3> QED
      BY <3>2, <3>3 DEF Diag
  <2>7. Way(string1, string2, ops, i + k, j + k, Len(string1), Len(string2))
    BY DEF BackWay, k
  <2>8. Way(string1, string2, ops, (i - 1) + k, (j - 1) + k, Len(string1), Len(string2))
    BY <1>2, <2>5, <2>6, <2>7, WayExtends
  <2> QED
    BY <1>1, <2>1, <2>8 DEF BackWay, k
<1> QED
  BY <1>4, <1>5, <1>6, <1>7

\* The operations of q that edit a letter.
Edits(q) == {n \in 1..Len(q) : q[n].type # "keep"}

\* Those of two sequences one after the other.
LEMMA EditsConcat ==
  ASSUME NEW q \in Seq(Steps), NEW r \in Seq(Steps)
  PROVE  /\ Cardinality(Edits(q)) \in Nat /\ Cardinality(Edits(r)) \in Nat
         /\ Cardinality(Edits(q \o r)) = Cardinality(Edits(q)) + Cardinality(Edits(r))
<1> DEFINE w == q \o r
           m == Len(q)
           k == Len(r)
           A == Edits(q)
           B == Edits(r)
           C == {n \in (m + 1)..(m + k) : w[n].type # "keep"}
           f == [n \in B |-> n + m]
<1>1. /\ w \in Seq(Steps) /\ m \in Nat /\ k \in Nat /\ Len(w) = m + k
      /\ \A n \in 1..(m + k) : w[n] = IF n <= m THEN q[n] ELSE r[n - m]
  BY ConcatProperties, LenProperties
<1>2. /\ A \subseteq 1..m /\ B \subseteq 1..k
  BY DEF Edits
<1>3. IsFiniteSet(A) /\ IsFiniteSet(B)
  <2>1. IsFiniteSet(1..m) /\ IsFiniteSet(1..k)
    BY <1>1, LengthCardinality
  <2> QED
    BY <1>2, <2>1, FS_Subset
<1>4. Edits(w) = A \cup C
  <2>1. \A n \in 1..m : n \in 1..(m + k) /\ w[n] = q[n]
    BY <1>1
  <2>2. \A n : n \in 1..(m + k) <=> (n \in 1..m \/ n \in (m + 1)..(m + k))
    BY <1>1
  <2> HIDE DEF w, m, k
  <2>3. Edits(w) = {n \in 1..(m + k) : w[n].type # "keep"}
    BY <1>1 DEF Edits
  <2>4. A = {n \in 1..m : w[n].type # "keep"}
    BY <2>1 DEF Edits, m
  <2> HIDE DEF A
  <2> QED
    BY <2>2, <2>3, <2>4
<1>5. f \in Bijection(B, C)
  <2>1. \A n \in 1..k : n + m \in (m + 1)..(m + k) /\ w[n + m] = r[n]
    <3>1. \A n \in 1..k : /\ n + m \in (m + 1)..(m + k) /\ n + m \in 1..(m + k)
                          /\ ~ (n + m <= m) /\ (n + m) - m = n
      BY <1>1
    <3> HIDE DEF w, m, k
    <3> QED
      BY <1>1, <3>1
  <2>2. \A n \in (m + 1)..(m + k) : n - m \in 1..k /\ (n - m) + m = n
    BY <1>1
  <2>3. B = {n \in 1..k : r[n].type # "keep"}
    BY DEF Edits
  <2> HIDE DEF w, m, k, B
  <2>4. f \in [B -> C]
    BY <2>1, <2>3
  <2>5. \A x, y \in B : f[x] = f[y] => x = y
    <3>1. \A x \in B : x \in Int
      BY <1>1, <2>3
    <3> QED
      BY <1>1, <3>1
  <2>6. \A y \in C : \E x \in B : f[x] = y
    <3>1. ASSUME NEW y \in C PROVE y - m \in B /\ f[y - m] = y
      <4>1. y - m \in 1..k /\ (y - m) + m = y
        BY <2>2
      <4>2. w[(y - m) + m] = r[y - m]
        BY <2>1, <4>1
      <4> QED
        BY <2>3, <4>1, <4>2
    <3> QED
      BY <3>1
  <2> QED
    BY <2>4, <2>5, <2>6 DEF Bijection, Injection, Surjection, IsInjective
<1>6. IsFiniteSet(C) /\ Cardinality(C) = Cardinality(B)
  BY <1>3, <1>5, FS_Bijection DEF ExistsBijection
<1>7. A \cap C = {}
  <2>1. \A n \in 1..m : n \notin (m + 1)..(m + k)
    BY <1>1
  <2> HIDE DEF A
  <2> QED
    BY <1>2, <2>1
<1>8. Cardinality(A \cap C) = 0
  BY <1>7, FS_EmptySet
<1>9. /\ Cardinality(A) \in Nat /\ Cardinality(B) \in Nat
      /\ Cardinality(A \cup C) = Cardinality(A) + Cardinality(C) - Cardinality(A \cap C)
  BY <1>3, <1>6, FS_CardinalityType, FS_Union
<1> HIDE DEF A, B, C, f, w
<1>10. Cardinality(Edits(w)) = Cardinality(A) + Cardinality(B)
  BY <1>4, <1>6, <1>8, <1>9
<1> QED
  BY <1>9, <1>10 DEF A, B, w

\* Operations that keep the letters along a diagonal.
KeepSteps(s, d, u) == [p \in 1..(u - s) |->
                      [type |-> "keep", spos |-> s + p - 1, dpos |-> d + p - 1]]

\* They are a way along it.
LEMMA KeepsWay ==
  ASSUME NEW a, NEW b, Len(a) \in Nat, Len(b) \in Nat,
         NEW s \in Nat, NEW d \in Nat, NEW u \in Nat, NEW v \in Nat,
         u <= Len(a), v <= Len(b), Diag(a, b, s, d, u, v)
  PROVE  Way(a, b, KeepSteps(s, d, u), s, d, u, v) /\ Edits(KeepSteps(s, d, u)) = {}
<1> DEFINE q == KeepSteps(s, d, u)
           k == u - s
<1>1. /\ s <= u /\ u + d = v + s /\ k \in Nat /\ s + k = u /\ d + k = v
      /\ \A p \in (s + 1)..u : a[p] = b[(p + d) - s]
  BY DEF Diag
<1>2. /\ q \in Seq(Steps) /\ Len(q) = k
      /\ \A p \in 1..k : /\ q[p].type = "keep"
                         /\ q[p].spos = s + p - 1 /\ q[p].dpos = d + p - 1
  <2>1. \A p \in 1..k : s + p - 1 \in Nat /\ d + p - 1 \in Nat
    BY <1>1
  <2>2. q \in [1..k -> Steps]
    BY <2>1 DEF KeepSteps, Steps
  <2>3. q \in Seq(Steps) /\ Len(q) = k
    <3> HIDE DEF q, k
    <3> QED
      BY <1>1, <2>2, FunctionIsSeq
  <2> QED
    BY <2>3 DEF KeepSteps
<1> HIDE DEF q, k
<1>3. ASSUME NEW p \in 1..k PROVE Inside(a, b, q[p])
  <2> DEFINE x == s + p - 1
             y == d + p - 1
  <2>1. /\ x \in Nat /\ y \in Nat /\ x + 1 <= Len(a) /\ y + 1 <= Len(b)
        /\ x + 1 \in (s + 1)..u /\ ((x + 1) + d) - s = y + 1
    BY <1>1
  <2>2. q[p].type = "keep" /\ q[p].spos = x /\ q[p].dpos = y
    BY <1>2
  <2> HIDE DEF x, y
  <2>3. a[x + 1] = b[y + 1]
    BY <1>1, <2>1
  <2>4. Diag(a, b, x, y, x + 1, y + 1)
    <3>1. \A z \in (x + 1)..(x + 1) : z = x + 1 /\ (z + y) - x = y + 1
      BY <2>1
    <3>2. \A z \in (x + 1)..(x + 1) : a[z] = b[(z + y) - x]
      BY <2>3, <3>1
    <3>3. x <= x + 1 /\ (x + 1) + y = (y + 1) + x
      BY <2>1
    <3> QED
      BY <3>2, <3>3 DEF Diag
  <2> QED
    BY <2>1, <2>2, <2>4, AdvancesBits DEF Inside
<1>4. ASSUME NEW n \in 0..k
      PROVE  SEnd(q, n, s) = s + n /\ DEnd(q, n, d) = d + n
  <2>1. CASE n = 0
    BY <2>1 DEF SEnd, DEnd
  <2>2. CASE n # 0
    <3>1. n \in 1..k /\ (s + n - 1) + 1 = s + n /\ (d + n - 1) + 1 = d + n
      BY <1>1, <2>2
    <3>2. q[n].type = "keep" /\ q[n].spos = s + n - 1 /\ q[n].dpos = d + n - 1
      BY <1>2, <3>1
    <3> QED
      BY <2>2, <3>1, <3>2, AdvancesBits DEF SEnd, DEnd
  <2> QED
    BY <2>1, <2>2
<1>5. ASSUME NEW n \in 0..k
      PROVE  SBeg(q, n + 1, u) = s + n /\ DBeg(q, n + 1, v) = d + n
  <2>1. CASE n = k
    <3>1. n + 1 > Len(q)
      BY <1>1, <1>2, <2>1
    <3> QED
      BY <1>1, <2>1, <3>1 DEF SBeg, DBeg
  <2>2. CASE n # k
    <3>1. /\ n + 1 \in 1..k /\ ~ (n + 1 > Len(q))
          /\ s + (n + 1) - 1 = s + n /\ d + (n + 1) - 1 = d + n
      BY <1>1, <1>2, <2>2
    <3>2. q[n + 1].spos = s + (n + 1) - 1 /\ q[n + 1].dpos = d + (n + 1) - 1
      BY <1>2, <3>1
    <3> QED
      BY <3>1, <3>2 DEF SBeg, DBeg
  <2> QED
    BY <2>1, <2>2
<1>6. ASSUME NEW n \in 0..k
      PROVE  Diag(a, b, SEnd(q, n, s), DEnd(q, n, d), SBeg(q, n + 1, u), DBeg(q, n + 1, v))
  <2>1. s + n \in Nat /\ d + n \in Nat
    BY <1>1
  <2>2. Diag(a, b, s + n, d + n, s + n, d + n)
    BY <2>1, DiagReflexive
  <2> QED
    BY <1>4, <1>5, <2>2
<1>7. Way(a, b, q, s, d, u, v)
  BY <1>2, <1>3, <1>6 DEF Way
<1>8. Edits(q) = {}
  BY <1>2 DEF Edits
<1> QED
  BY <1>7, <1>8 DEF q

\* The whole way that the operations go.
OpsWay(q) == Way(string1, string2, q, 0, 0, Len(string1), Len(string2))

\* With an operation for each letter kept they go the same way, and edit as
\* many letters.
LEMMA WithKeepsWay ==
  ASSUME ops \in Seq(Steps), OpsWay(ops), Len(string1) \in Nat, Len(string2) \in Nat,
         \A n \in 1..Len(ops) : ops[n].type # "keep"
  PROVE  OpsWay(WithKeeps) /\ Cardinality(Edits(WithKeeps)) = Len(ops)
<1> DEFINE m == Len(ops)
           equation(f) == f = [n \in 0..m |-> IF n = 0 THEN KeepsAfter(0)
                                 ELSE f[n - 1] \o <<ops[n]>> \o KeepsAfter(n)]
           with == CHOOSE f : equation(f)
           u(n) == SBeg(ops, n + 1, Len(string1))
           v(n) == DBeg(ops, n + 1, Len(string2))
           s(n) == SEnd(ops, n, 0)
           d(n) == DEnd(ops, n, 0)
           step == [n \in 0..m |-> [r \in Seq(Steps) |->
                      IF n = 0 THEN r ELSE r \o <<ops[n]>> \o KeepsAfter(n)]]
<1>1. WithKeeps = with[m]
  BY Zenon DEF WithKeeps
<1>2. m \in Nat
  BY LenProperties
<1> HIDE DEF with, m, step
<1>3. ASSUME NEW n \in 0..m
      PROVE  s(n) \in Nat /\ d(n) \in Nat /\ u(n) \in Nat /\ v(n) \in Nat
  <2>1. n + 1 \in 1..(m + 1)
    BY <1>2
  <2> QED
    BY <1>2, <2>1, WayType DEF m
<1>4. /\ \A n \in 0..m : Diag(string1, string2, s(n), d(n), u(n), v(n))
      /\ \A n \in 1..m : Inside(string1, string2, ops[n])
  BY DEF OpsWay, Way, m
<1>5. ASSUME NEW n \in 0..m PROVE u(n) <= Len(string1) /\ v(n) <= Len(string2)
  <2>1. CASE n = m
    <3>1. n + 1 > Len(ops)
      BY <1>2, <2>1 DEF m
    <3> QED
      BY <3>1 DEF SBeg, DBeg
  <2>2. CASE n # m
    <3>1. n + 1 \in 1..m /\ ~ (n + 1 > Len(ops))
      BY <1>2, <2>2 DEF m
    <3>2. u(n) = ops[n + 1].spos /\ v(n) = ops[n + 1].dpos
      BY <3>1 DEF SBeg, DBeg
    <3>3. /\ ops[n + 1].spos + Advances(ops[n + 1].type)[1] <= Len(string1)
          /\ ops[n + 1].dpos + Advances(ops[n + 1].type)[2] <= Len(string2)
      BY <1>4, <3>1 DEF Inside
    <3>4. /\ Advances(ops[n + 1].type)[1] \in {0, 1}
          /\ Advances(ops[n + 1].type)[2] \in {0, 1}
      BY AdvancesBits
    <3>5. ops[n + 1].spos \in Nat /\ ops[n + 1].dpos \in Nat
      BY <3>1, WayType DEF m
    <3> QED
      BY <3>2, <3>3, <3>4, <3>5
  <2> QED
    BY <2>1, <2>2
<1>6. ASSUME NEW n \in 0..m PROVE KeepsAfter(n) = KeepSteps(s(n), d(n), u(n))
  <2>1. n + 1 > m <=> n = m
    BY <1>2
  <2>2. u(n) = IF n = m THEN Len(string1) ELSE ops[n + 1].spos
    BY <2>1 DEF SBeg, m
  <2>3. s(n) = SourceEnd(n) /\ d(n) = TargetEnd(n)
    BY DEF SEnd, DEnd, SourceEnd, TargetEnd
  <2> HIDE DEF s, d, u, v
  <2> QED
    BY <2>2, <2>3, Zenon DEF KeepsAfter, KeepSteps, m
<1>7. ASSUME NEW n \in 0..m
      PROVE  /\ Way(string1, string2, KeepsAfter(n), s(n), d(n), u(n), v(n))
             /\ Edits(KeepsAfter(n)) = {} /\ KeepsAfter(n) \in Seq(Steps)
  <2>1. /\ s(n) \in Nat /\ d(n) \in Nat /\ u(n) \in Nat /\ v(n) \in Nat
        /\ u(n) <= Len(string1) /\ v(n) <= Len(string2)
        /\ Diag(string1, string2, s(n), d(n), u(n), v(n))
    BY <1>3, <1>4, <1>5
  <2> HIDE DEF s, d, u, v
  <2>2. /\ Way(string1, string2, KeepSteps(s(n), d(n), u(n)), s(n), d(n), u(n), v(n))
        /\ Edits(KeepSteps(s(n), d(n), u(n))) = {}
    BY <2>1, KeepsWay
  <2>3. KeepsAfter(n) = KeepSteps(s(n), d(n), u(n))
    BY <1>6
  <2> QED
    BY <2>2, <2>3 DEF Way
<1>8. \A n \in 1..m : <<ops[n]>> \in Seq(Steps) /\ ops[n] \in Steps /\ ops[n].type # "keep"
  <2>1. \A n \in 1..m : ops[n] \in Steps /\ ops[n].type # "keep"
    BY WayType DEF m
  <2> QED
    BY <2>1
<1>9. step \in [0..m -> [Seq(Steps) -> Seq(Steps)]]
  <2>1. ASSUME NEW n \in 0..m, NEW r \in Seq(Steps)
        PROVE  (IF n = 0 THEN r ELSE r \o <<ops[n]>> \o KeepsAfter(n)) \in Seq(Steps)
    <3>1. CASE n = 0
      BY <3>1
    <3>2. CASE n # 0
      <4>1. n \in 1..m
        BY <1>2, <3>2
      <4>2. r \o <<ops[n]>> \in Seq(Steps)
        BY <1>8, <4>1, ConcatProperties
      <4>3. KeepsAfter(n) \in Seq(Steps)
        BY <1>7
      <4>4. (r \o <<ops[n]>>) \o KeepsAfter(n) \in Seq(Steps)
        BY <4>2, <4>3, ConcatProperties
      <4> QED
        BY <3>2, <4>4
    <3> QED
      BY <3>1, <3>2
  <2> QED
    BY <2>1 DEF step
<1>10. PICK f \in [0..m -> Seq(Steps)] : Recurs(f, 0, m, KeepsAfter(0), step)
  <2>1. 0 \in Int /\ m \in Int /\ 0 \in 0..m
    BY <1>2
  <2>2. KeepsAfter(0) \in Seq(Steps)
    BY <1>7, <2>1
  <2> QED
    BY <1>9, <2>1, <2>2, RecursionExists, Zenon
<1>11. equation(f)
  <2>1. ASSUME NEW n \in 0..m
        PROVE  f[n] = IF n = 0 THEN KeepsAfter(0)
                      ELSE f[n - 1] \o <<ops[n]>> \o KeepsAfter(n)
    <3>1. f[n] = IF n = 0 THEN KeepsAfter(0) ELSE step[n][f[n - 1]]
      BY <1>10 DEF Recurs
    <3>2. CASE n = 0
      BY <3>1, <3>2
    <3>3. CASE n # 0
      <4>1. n - 1 \in 0..m
        BY <1>2, <3>3
      <4>2. f[n - 1] \in Seq(Steps)
        BY <4>1
      <4>3. step[n][f[n - 1]] = f[n - 1] \o <<ops[n]>> \o KeepsAfter(n)
        BY <3>3, <4>2 DEF step
      <4> QED
        BY <3>1, <3>3, <4>3
    <3> QED
      BY <3>2, <3>3
  <2> QED
    BY <2>1
<1>12. equation(with)
  BY <1>11, Zenon DEF with
<1>13. /\ with[0] = KeepsAfter(0)
       /\ \A n \in 1..m : with[n] = with[n - 1] \o <<ops[n]>> \o KeepsAfter(n)
  <2>1. \A n \in 0..m : with[n] = IF n = 0 THEN KeepsAfter(0)
                                  ELSE with[n - 1] \o <<ops[n]>> \o KeepsAfter(n)
    BY <1>12, Zenon
  <2>2. 0 \in 0..m /\ \A n \in 1..m : n \in 0..m /\ n # 0
    BY <1>2
  <2> QED
    BY <2>1, <2>2
<1> DEFINE Good(n) == /\ Way(string1, string2, with[n], 0, 0, u(n), v(n))
                      /\ Cardinality(Edits(with[n])) = n
           T == {n \in Nat : n <= m => Good(n)}
<1>14. 0 \in T
  <2>1. 0 \in 0..m
    BY <1>2
  <2>2. s(0) = 0 /\ d(0) = 0
    BY DEF SEnd, DEnd
  <2> HIDE DEF s, d, u, v
  <2>3. Good(0)
    BY <1>7, <1>13, <2>1, <2>2, FS_EmptySet
  <2> QED
    BY <2>3
<1>15. ASSUME NEW k \in Nat, k \in T PROVE k + 1 \in T
  <2> SUFFICES ASSUME k + 1 <= m PROVE Good(k + 1)
    OBVIOUS
  <2> DEFINE n == k + 1
             op == ops[n]
             before == with[k]
             after == KeepsAfter(n)
  <2>1. /\ n \in 1..m /\ n \in 0..m /\ k \in 0..m /\ n - 1 = k /\ k <= m
        /\ ~ (n > Len(ops)) /\ n # 0
    BY <1>2 DEF m
  <2>2. Good(k)
    BY <1>15, <2>1
  <2>3. /\ u(k) = op.spos /\ v(k) = op.dpos
        /\ s(n) = op.spos + Advances(op.type)[1] /\ d(n) = op.dpos + Advances(op.type)[2]
    BY <2>1 DEF SBeg, DBeg, SEnd, DEnd
  <2>4. with[n] = before \o <<op>> \o after
    BY <1>13, <2>1
  <2>5. /\ Inside(string1, string2, op) /\ op \in Steps /\ op.type # "keep"
        /\ <<op>> \in Seq(Steps)
    BY <1>4, <1>8, <2>1
  <2>6. /\ u(k) \in Nat /\ v(k) \in Nat /\ s(n) \in Nat /\ d(n) \in Nat
        /\ u(n) \in Nat /\ v(n) \in Nat
    BY <1>3, <2>1
  <2>7. /\ Way(string1, string2, after, s(n), d(n), u(n), v(n))
        /\ Edits(after) = {} /\ after \in Seq(Steps)
    BY <1>7, <2>1
  <2> HIDE DEF s, d, u, v, n, op, after
  <2>8. Way(string1, string2, <<op>>, u(k), v(k), s(n), d(n))
    BY <2>3, <2>5, WayOne
  <2>9. Way(string1, string2, before \o <<op>>, 0, 0, s(n), d(n))
    BY <2>2, <2>6, <2>8, WayConcat
  <2>10. Way(string1, string2, before \o <<op>> \o after, 0, 0, u(n), v(n))
    BY <2>6, <2>7, <2>9, WayConcat
  <2>11. /\ before \in Seq(Steps) /\ before \o <<op>> \in Seq(Steps)
         /\ Cardinality(Edits(before)) = k
    BY <2>2, <2>9 DEF Way
  <2>12. Cardinality(Edits(<<op>>)) = 1
    <3>1. Edits(<<op>>) = {1}
      BY <2>5 DEF Edits
    <3> QED
      BY <3>1, FS_Singleton
  <2>13. Cardinality(Edits(before \o <<op>>)) = k + 1
    BY <2>5, <2>11, <2>12, EditsConcat
  <2>14. Cardinality(Edits(after)) = 0
    BY <2>7, FS_EmptySet
  <2>15. Cardinality(Edits(before \o <<op>> \o after)) = (k + 1) + 0
    BY <2>7, <2>11, <2>13, <2>14, EditsConcat
  <2> QED
    BY <2>4, <2>10, <2>15 DEF n
<1>16. Nat \subseteq T
  <2> HIDE DEF T
  <2> QED
    BY <1>14, <1>15, SetInduction
<1>17. Good(m)
  BY <1>2, <1>16
<1>18. u(m) = Len(string1) /\ v(m) = Len(string2)
  <2>1. m + 1 > Len(ops)
    BY <1>2 DEF m
  <2> QED
    BY <2>1 DEF SBeg, DBeg
<1> QED
  BY <1>1, <1>17, <1>18 DEF OpsWay, m

-----------------------------------------------------------------------------
(* Applying the operations.                                                *)

\* What Apply keeps.
Partial == [at : Nat, out : Seq(Letters)]

\* What has been made so far is the beginning of string2, and from there the
\* strings have the same letters to x and y.
Done(done, x, y) ==
    /\ done \in Partial
    /\ Diag(string1, string2, done.at, Len(done.out), x, y)
    /\ \A p \in 1..Len(done.out) : done.out[p] = string2[p]

\* The letters up to u are copied.
LEMMA CopyType ==
  ASSUME string1 \in Seq(Letters), NEW done \in Partial, NEW u \in Nat, u <= Len(string1)
  PROVE  /\ done.at \in Nat /\ done.out \in Seq(Letters) /\ Len(done.out) \in Nat
         /\ SubSeq(string1, done.at + 1, u) \in Seq(Letters)
         /\ Len(SubSeq(string1, done.at + 1, u)) =
              IF done.at + 1 <= u THEN u - (done.at + 1) + 1 ELSE 0
         /\ \A p \in 1..(u - (done.at + 1) + 1) :
               SubSeq(string1, done.at + 1, u)[p] = string1[(done.at + 1) + p - 1]
         /\ done.out \o SubSeq(string1, done.at + 1, u) \in Seq(Letters)
<1>1. done.at \in Nat /\ done.out \in Seq(Letters)
  BY DEF Partial
<1>2. Len(string1) \in Nat /\ Len(done.out) \in Nat
  BY <1>1, LenProperties
<1>3. \A p \in (done.at + 1)..u : p \in 1..Len(string1)
  BY <1>1, <1>2
<1>4. \A p \in (done.at + 1)..u : string1[p] \in Letters
  BY <1>3, ElementOfSeq
<1>5. done.at + 1 \in Int /\ u \in Int
  BY <1>1
<1> DEFINE x == done.at + 1
           copy == SubSeq(string1, x, u)
<1>6. /\ copy \in Seq(Letters)
      /\ Len(copy) = IF x <= u THEN u - x + 1 ELSE 0
      /\ \A p \in 1..(u - x + 1) : copy[p] = string1[x + p - 1]
  <2>1. x \in Int /\ \A p \in x..u : string1[p] \in Letters
    BY <1>4, <1>5
  <2> HIDE DEF x
  <2> QED
    BY <1>5, <2>1, SubSeqProperties
<1> HIDE DEF copy
<1>7. done.out \o copy \in Seq(Letters)
  BY <1>1, <1>6, ConcatProperties
<1> QED
  BY <1>1, <1>2, <1>6, <1>7 DEF copy

\* They are those of string2.
LEMMA CopyDone ==
  ASSUME string1 \in Seq(Letters), NEW done, NEW u \in Nat, NEW v \in Nat,
         Done(done, u, v), u <= Len(string1)
  PROVE  /\ Len(done.out \o SubSeq(string1, done.at + 1, u)) = v
         /\ \A p \in 1..v : (done.out \o SubSeq(string1, done.at + 1, u))[p] = string2[p]
<1> DEFINE x == done.at
           out == done.out
           y == Len(out)
           copy == SubSeq(string1, x + 1, u)
           all == out \o copy
<1>1. done \in Partial
  BY DEF Done
<1>2. /\ x \in Nat /\ out \in Seq(Letters) /\ y \in Nat /\ copy \in Seq(Letters)
      /\ Len(copy) = IF x + 1 <= u THEN u - (x + 1) + 1 ELSE 0
      /\ \A p \in 1..(u - (x + 1) + 1) : copy[p] = string1[(x + 1) + p - 1]
  BY <1>1, CopyType
<1>3. /\ x <= u /\ u + y = v + x
      /\ \A p \in (x + 1)..u : string1[p] = string2[(p + y) - x]
      /\ \A p \in 1..y : out[p] = string2[p]
  BY DEF Done, Diag
<1>4. /\ Len(all) = y + Len(copy)
      /\ \A p \in 1..(y + Len(copy)) : all[p] = IF p <= y THEN out[p] ELSE copy[p - y]
  BY <1>2, ConcatProperties
<1> HIDE DEF x, y, copy, all, out
<1>5. Len(copy) = u - x /\ y + Len(copy) = v
  BY <1>2, <1>3
<1>6. ASSUME NEW p \in 1..v PROVE all[p] = string2[p]
  <2>1. CASE p <= y
    <3>1. p \in 1..(y + Len(copy)) /\ p \in 1..y
      BY <1>2, <1>5, <2>1
    <3> QED
      BY <1>3, <1>4, <2>1, <3>1
  <2>2. CASE ~ (p <= y)
    <3> DEFINE k == p - y
    <3>1. /\ p \in 1..(y + Len(copy)) /\ k \in 1..(u - (x + 1) + 1)
          /\ (x + 1) + k - 1 = x + k /\ x + k \in (x + 1)..u
          /\ ((x + k) + y) - x = p
      BY <1>2, <1>3, <1>5, <2>2
    <3>2. all[p] = copy[k]
      BY <1>4, <2>2, <3>1
    <3> HIDE DEF k
    <3>3. copy[k] = string1[x + k]
      BY <1>2, <3>1
    <3>4. string1[x + k] = string2[p]
      BY <1>3, <3>1
    <3> QED
      BY <3>2, <3>3, <3>4
  <2> QED
    BY <2>1, <2>2
<1> QED
  BY <1>4, <1>5, <1>6 DEF all, copy, x, out

\* An operation inside the strings can be applied.
LEMMA AppliedType ==
  ASSUME string1 \in Seq(Letters), string2 \in Seq(Letters), NEW done \in Partial,
         NEW op \in Steps, Inside(string1, string2, op)
  PROVE  Applied(done, op) \in Partial
<1> DEFINE copied == done.out \o SubSeq(string1, done.at + 1, op.spos)
           letter == string2[op.dpos + 1]
<1>1. /\ op.type \in {"insert", "delete", "replace", "keep"}
      /\ op.spos \in Nat /\ op.dpos \in Nat
  BY DEF Steps
<1>2. Len(string1) \in Nat /\ Len(string2) \in Nat
  BY LenProperties
<1>3. /\ op.spos + Advances(op.type)[1] <= Len(string1)
      /\ op.dpos + Advances(op.type)[2] <= Len(string2)
  BY DEF Inside
<1>4. op.spos <= Len(string1)
  BY <1>1, <1>2, <1>3, AdvancesBits
<1>5. copied \in Seq(Letters)
  BY <1>1, <1>4, CopyType
<1>6. op.type \in {"insert", "replace"} => letter \in Letters
  <2> SUFFICES ASSUME op.type \in {"insert", "replace"} PROVE letter \in Letters
    OBVIOUS
  <2>1. Advances(op.type)[2] = 1
    BY AdvancesBits
  <2>2. op.dpos + 1 \in 1..Len(string2)
    BY <1>1, <1>2, <1>3, <2>1
  <2> QED
    BY <2>2, ElementOfSeq
<1> HIDE DEF copied, letter
<1>7. op.type \in {"insert", "replace"} => Append(copied, letter) \in Seq(Letters)
  BY <1>5, <1>6, AppendProperties
<1>8. op.spos + (IF op.type \in {"delete", "replace"} THEN 1 ELSE 0) \in Nat
  BY <1>1
<1>9. (IF op.type \in {"insert", "replace"} THEN Append(copied, letter) ELSE copied)
        \in Seq(Letters)
  BY <1>5, <1>7
<1> QED
  BY <1>8, <1>9 DEF Applied, Partial, copied, letter

\* It makes one letter more of string2, or skips one of string1.
LEMMA AppliedDone ==
  ASSUME string1 \in Seq(Letters), string2 \in Seq(Letters), NEW done,
         NEW op \in Steps, Inside(string1, string2, op), Done(done, op.spos, op.dpos)
  PROVE  Done(Applied(done, op), op.spos + Advances(op.type)[1],
              op.dpos + Advances(op.type)[2])
<1> DEFINE s == op.spos
           d == op.dpos
           copied == done.out \o SubSeq(string1, done.at + 1, s)
           letter == string2[d + 1]
           next == Applied(done, op)
<1>1. /\ op.type \in {"insert", "delete", "replace", "keep"} /\ s \in Nat /\ d \in Nat
  BY DEF Steps
<1>2. done \in Partial /\ next \in Partial
  BY AppliedType DEF Done
<1>3. /\ next.at = s + (IF op.type \in {"delete", "replace"} THEN 1 ELSE 0)
      /\ next.out = IF op.type \in {"insert", "replace"} THEN Append(copied, letter)
                    ELSE copied
  BY DEF Applied
<1>4. Len(string1) \in Nat /\ Len(string2) \in Nat
  BY LenProperties
<1>5. /\ s + Advances(op.type)[1] <= Len(string1)
      /\ d + Advances(op.type)[2] <= Len(string2)
      /\ op.type = "keep" => Diag(string1, string2, s, d, s + 1, d + 1)
  BY DEF Inside
<1>6. s <= Len(string1)
  BY <1>1, <1>4, <1>5, AdvancesBits
<1>7. copied \in Seq(Letters)
  BY <1>1, <1>2, <1>6, CopyType
<1>8. Len(copied) = d /\ \A p \in 1..d : copied[p] = string2[p]
  BY <1>1, <1>6, CopyDone
<1> HIDE DEF copied, s, d, next
<1>9. CASE op.type \in {"insert", "replace"}
  <2>1. Advances(op.type)[2] = 1
    BY <1>9, AdvancesBits
  <2>2. d + 1 \in 1..Len(string2)
    BY <1>1, <1>4, <1>5, <2>1
  <2>3. letter \in Letters
    BY <2>2, ElementOfSeq
  <2>4. next.out = Append(copied, letter)
    BY <1>3, <1>9
  <2> HIDE DEF letter
  <2>5. /\ Len(next.out) = d + 1
        /\ \A p \in 1..d : next.out[p] = copied[p]
        /\ next.out[d + 1] = letter
    BY <1>7, <1>8, <2>3, <2>4, AppendProperties
  <2>6. \A p \in 1..(d + 1) : p \in 1..d \/ p = d + 1
    BY <1>1
  <2>7. \A p \in 1..(d + 1) : next.out[p] = string2[p]
    BY <1>8, <2>5, <2>6 DEF letter
  <2>8. next.at = s + Advances(op.type)[1]
    BY <1>3, <1>9, AdvancesBits
  <2>9. s + Advances(op.type)[1] \in Nat /\ d + 1 \in Nat
    BY <1>1, AdvancesBits
  <2>10. Diag(string1, string2, next.at, Len(next.out), s + Advances(op.type)[1], d + 1)
    BY <2>5, <2>8, <2>9, DiagReflexive
  <2> QED
    BY <1>2, <2>1, <2>5, <2>7, <2>10 DEF Done, s, d, next
<1>10. CASE op.type = "delete"
  <2>1. /\ Advances(op.type)[1] = 1 /\ Advances(op.type)[2] = 0
        /\ next.at = s + 1 /\ next.out = copied /\ d + 0 = d /\ s + 1 \in Nat
    BY <1>1, <1>3, <1>10, AdvancesBits
  <2>2. Diag(string1, string2, s + 1, d, s + 1, d)
    BY <1>1, <2>1, DiagReflexive
  <2> QED
    BY <1>2, <1>8, <2>1, <2>2 DEF Done, s, d, next
<1>11. CASE op.type = "keep"
  <2>1. /\ Advances(op.type)[1] = 1 /\ Advances(op.type)[2] = 1
        /\ next.at = s /\ next.out = copied
    BY <1>1, <1>3, <1>11, AdvancesBits
  <2> QED
    BY <1>2, <1>5, <1>8, <1>11, <2>1 DEF Done, s, d, next
<1> QED
  BY <1>1, <1>9, <1>10, <1>11

\* Operations that go the whole way turn string1 into string2.
LEMMA ApplyTransforms ==
  ASSUME string1 \in Seq(Letters), string2 \in Seq(Letters), OpsWay(ops)
  PROVE  Apply = string2
<1> DEFINE m == Len(ops)
           first == [at |-> 0, out |-> <<>>]
           equation(f) == f = [n \in 0..m |-> IF n = 0 THEN first
                                              ELSE Applied(f[n - 1], ops[n])]
           done == CHOOSE f : equation(f)
           step == [n \in 0..m |-> [r \in Partial |->
                      IF n = 0 THEN r ELSE Applied(r, ops[n])]]
           u(n) == SBeg(ops, n + 1, Len(string1))
           v(n) == DBeg(ops, n + 1, Len(string2))
           s(n) == SEnd(ops, n, 0)
           d(n) == DEnd(ops, n, 0)
<1>1. Apply = done[m].out \o SubSeq(string1, done[m].at + 1, Len(string1))
  BY Zenon DEF Apply
<1>2. ops \in Seq(Steps) /\ m \in Nat /\ Len(string1) \in Nat /\ Len(string2) \in Nat
  <2>1. ops \in Seq(Steps)
    BY DEF OpsWay, Way
  <2> QED
    BY <2>1, LenProperties
<1> HIDE DEF done, m, step, equation
<1>3. /\ \A n \in 0..m : Diag(string1, string2, s(n), d(n), u(n), v(n))
      /\ \A n \in 1..m : Inside(string1, string2, ops[n])
  BY DEF OpsWay, Way, m
<1>4. /\ \A n \in 1..m : ops[n] \in Steps /\ ops[n].spos \in Nat /\ ops[n].dpos \in Nat
      /\ \A n \in 0..m : s(n) \in Nat /\ d(n) \in Nat
  BY <1>2, WayType DEF m
<1>5. step \in [0..m -> [Partial -> Partial]]
  <2>1. ASSUME NEW n \in 0..m, NEW r \in Partial
        PROVE  (IF n = 0 THEN r ELSE Applied(r, ops[n])) \in Partial
    <3>1. n = 0 \/ n \in 1..m
      BY <1>2
    <3> QED
      BY <1>3, <1>4, <3>1, AppliedType
  <2> QED
    BY <2>1 DEF step
<1>6. first \in Partial
  BY DEF Partial
<1> HIDE DEF first
<1>7. PICK f \in [0..m -> Partial] : Recurs(f, 0, m, first, step)
  <2>1. 0 \in Int /\ m \in Int
    BY <1>2
  <2> QED
    BY <1>5, <1>6, <2>1, RecursionExists, Zenon
<1>8. equation(f)
  <2>1. ASSUME NEW n \in 0..m
        PROVE  f[n] = IF n = 0 THEN first ELSE Applied(f[n - 1], ops[n])
    <3>1. f[n] = IF n = 0 THEN first ELSE step[n][f[n - 1]]
      BY <1>7 DEF Recurs
    <3>2. CASE n = 0
      BY <3>1, <3>2
    <3>3. CASE n # 0
      <4>1. n - 1 \in 0..m
        BY <1>2, <3>3
      <4>2. f[n - 1] \in Partial
        BY <4>1
      <4>3. step[n][f[n - 1]] = Applied(f[n - 1], ops[n])
        BY <3>3, <4>2 DEF step
      <4> QED
        BY <3>1, <3>3, <4>3
    <3> QED
      BY <3>2, <3>3
  <2> QED
    BY <2>1 DEF equation
<1>9. equation(done)
  BY <1>8, Zenon DEF done
<1>10. done[0] = first /\ \A n \in 1..m : done[n] = Applied(done[n - 1], ops[n])
  <2>1. \A n \in 0..m : done[n] = IF n = 0 THEN first ELSE Applied(done[n - 1], ops[n])
    BY <1>9, Zenon DEF equation
  <2>2. 0 \in 0..m /\ \A n \in 1..m : n \in 0..m /\ n # 0
    BY <1>2
  <2> QED
    BY <2>1, <2>2
<1> DEFINE T == {n \in Nat : n <= m => Done(done[n], s(n), d(n))}
<1>11. 0 \in T
  <2>1. s(0) = 0 /\ d(0) = 0
    BY DEF SEnd, DEnd
  <2>2. first.at = 0 /\ first.out = <<>> /\ Len(<<>>) = 0
    BY DEF first
  <2>3. Diag(string1, string2, 0, 0, 0, 0)
    BY DiagReflexive
  <2>4. Done(first, 0, 0)
    BY <1>6, <2>2, <2>3 DEF Done
  <2> HIDE DEF s, d
  <2> QED
    BY <1>10, <2>1, <2>4
<1>12. ASSUME NEW k \in Nat, k \in T PROVE k + 1 \in T
  <2> SUFFICES ASSUME k + 1 <= m PROVE Done(done[k + 1], s(k + 1), d(k + 1))
    OBVIOUS
  <2> DEFINE n == k + 1
             op == ops[n]
             before == done[k]
  <2>1. /\ n \in 1..m /\ k \in 0..m /\ n - 1 = k /\ k <= m
        /\ ~ (n > Len(ops)) /\ n # 0
    BY <1>2 DEF m
  <2>2. Done(before, s(k), d(k))
    BY <1>12, <2>1
  <2>3. /\ u(k) = op.spos /\ v(k) = op.dpos
        /\ s(n) = op.spos + Advances(op.type)[1] /\ d(n) = op.dpos + Advances(op.type)[2]
    BY <2>1 DEF SBeg, DBeg, SEnd, DEnd
  <2>4. done[n] = Applied(before, op)
    BY <1>10, <2>1
  <2>5. Inside(string1, string2, op) /\ op \in Steps /\ op.spos \in Nat /\ op.dpos \in Nat
    BY <1>3, <1>4, <2>1
  <2>6. Diag(string1, string2, s(k), d(k), op.spos, op.dpos)
    BY <1>3, <2>1, <2>3
  <2>7. s(k) \in Nat /\ d(k) \in Nat
    BY <1>4, <2>1
  <2> HIDE DEF s, d, u, v, n, op, before
  <2>8. before \in Partial /\ before.at \in Nat /\ Len(before.out) \in Nat
    <3>1. before \in Partial
      BY <2>2 DEF Done
    <3>2. before.at \in Nat /\ before.out \in Seq(Letters)
      BY <3>1 DEF Partial
    <3> QED
      BY <3>1, <3>2, LenProperties
  <2>9. Diag(string1, string2, before.at, Len(before.out), op.spos, op.dpos)
    <3> DEFINE g == s(k)
               h == d(k)
               x == op.spos
               y == op.dpos
               e == before.at
               l == Len(before.out)
    <3>1. /\ g \in Nat /\ h \in Nat /\ x \in Nat /\ y \in Nat /\ e \in Nat /\ l \in Nat
          /\ Diag(string1, string2, e, l, g, h) /\ Diag(string1, string2, g, h, x, y)
      BY <2>2, <2>5, <2>6, <2>7, <2>8 DEF Done
    <3> HIDE DEF g, h, x, y, e, l
    <3>2. Diag(string1, string2, e, l, x, y)
      BY <3>1, DiagTransitive
    <3> QED
      BY <3>2 DEF x, y, e, l
  <2>10. Done(before, op.spos, op.dpos)
    BY <2>2, <2>9 DEF Done
  <2>11. Done(Applied(before, op), op.spos + Advances(op.type)[1],
              op.dpos + Advances(op.type)[2])
    BY <2>5, <2>10, AppliedDone
  <2> QED
    BY <2>3, <2>4, <2>11 DEF n
<1>13. Nat \subseteq T
  <2> HIDE DEF T
  <2> QED
    BY <1>11, <1>12, SetInduction
<1>14. Done(done[m], s(m), d(m))
  BY <1>2, <1>13
<1>15. Diag(string1, string2, s(m), d(m), Len(string1), Len(string2))
  <2>1. m + 1 > Len(ops) /\ m \in 0..m
    BY <1>2 DEF m
  <2>2. u(m) = Len(string1) /\ v(m) = Len(string2)
    BY <2>1 DEF SBeg, DBeg
  <2> HIDE DEF s, d, u, v
  <2> QED
    BY <1>3, <2>1, <2>2
<1> DEFINE last == done[m]
<1>16. Done(last, Len(string1), Len(string2))
  <2> DEFINE g == s(m)
             h == d(m)
             x == Len(string1)
             y == Len(string2)
             e == last.at
             l == Len(last.out)
  <2>1. last \in Partial
    BY <1>14 DEF Done
  <2>2. e \in Nat /\ last.out \in Seq(Letters)
    BY <2>1 DEF Partial
  <2>3. m \in 0..m
    BY <1>2
  <2>4. l \in Nat
    BY <2>2, LenProperties
  <2>5. g \in Nat /\ h \in Nat
    BY <1>4, <2>3
  <2>6. /\ x \in Nat /\ y \in Nat
        /\ Diag(string1, string2, e, l, g, h) /\ Diag(string1, string2, g, h, x, y)
    BY <1>2, <1>14, <1>15 DEF Done
  <2> HIDE DEF g, h, x, y, e, l
  <2>7. Diag(string1, string2, e, l, x, y)
    BY <2>2, <2>4, <2>5, <2>6, DiagTransitive
  <2> QED
    BY <1>14, <2>7 DEF Done, x, y, e, l
<1> DEFINE all == last.out \o SubSeq(string1, last.at + 1, Len(string1))
<1>17. Len(all) = Len(string2) /\ \A p \in 1..Len(string2) : all[p] = string2[p]
  <2> HIDE DEF last
  <2>1. Len(string1) <= Len(string1)
    BY <1>2
  <2> QED
    BY <1>2, <1>16, <2>1, CopyDone
<1>18. all \in Seq(Letters)
  <2>1. last \in Partial
    BY <1>16 DEF Done
  <2>2. Len(string1) <= Len(string1)
    BY <1>2
  <2> HIDE DEF last
  <2> QED
    BY <1>2, <2>1, <2>2, CopyType
<1> HIDE DEF all, last
<1>19. all = string2
  BY <1>17, <1>18, SeqEqual
<1> QED
  BY <1>1, <1>19 DEF all, last

-----------------------------------------------------------------------------
(* The operations found are a shortest way from one string to the other.   *)

\* The distance stays what Measure found, the way back is a way, and so is the
\* whole of it, as long as the matrix and the distance say.
OpsInv ==
    /\ stage # "start" => distance.bytes[FALSE] = EditDistance(string1, string2, 1)
    /\ stage = "back" => BackWay
    /\ stage \in {"count", "convert"} => /\ OpsWay(ops)
                                         /\ Cardinality(Edits(ops)) = Cost
                                         /\ Cost = distance.bytes[FALSE]

\* That is all that OpsTransform says.
LEMMA OpsTransformLocal == EditInv /\ OpsInv => OpsTransform
<1> SUFFICES ASSUME EditInv, OpsInv, stage = "convert"
             PROVE  /\ Apply = string2
                    /\ Cardinality({n \in DOMAIN ops : ops[n].type # "keep"}) = Cost
                    /\ Cost = distance.bytes[FALSE]
  BY Zenon DEF OpsTransform
<1>1. string1 \in Seq(Letters) /\ string2 \in Seq(Letters)
  BY StringsType DEF EditInv
<1>2. /\ OpsWay(ops) /\ Cardinality(Edits(ops)) = Cost /\ Cost = distance.bytes[FALSE]
  BY DEF OpsInv
<1>3. Apply = string2
  BY <1>1, <1>2, ApplyTransforms
<1>4. DOMAIN ops = 1..Len(ops)
  <2>1. ops \in Seq(Steps)
    BY <1>2 DEF OpsWay, Way
  <2> QED
    BY <2>1, LenProperties
<1>5. {n \in DOMAIN ops : ops[n].type # "keep"} = Edits(ops)
  BY <1>4 DEF Edits
<1> QED
  BY <1>2, <1>3, <1>5

\* The matrix holds the distance of the whole strings.
LEMMA CostIsDistance ==
  ASSUME EditInv, stage = "back"
  PROVE  Cost = EditDistance(string1, string2, 1)
<1>1. string1 \in Strings /\ string2 \in Strings /\ BackInv
  BY DEF EditInv
<1> DEFINE a == Rest.first
           b == Rest.second
<1>2. /\ Len(a) \in Nat /\ Len(b) \in Nat /\ IsMatrix(matrix, a, b, 1)
  BY <1>1, RestMatrix DEF BackInv
<1>3. /\ string1 \in Seq(Letters) /\ Len(string1) \in 0..MaxLength
      /\ string2 \in Seq(Letters) /\ Len(string2) \in 0..MaxLength
  BY <1>1, StringLengths
<1>4. 1 \in Weights
  BY DEF Weights
<1>5. PICK E : /\ IsMatrix(E, a, b, 1)
               /\ E[Len(a)][Len(b)] = EditDistance(string1, string2, 1)
  BY <1>3, <1>4, RestCorner DEF Rest
<1> HIDE DEF a, b
<1>6. matrix[Len(a)][Len(b)] = E[Len(a)][Len(b)]
  BY <1>2, <1>4, <1>5, CornersAgree
<1> QED
  BY <1>5, <1>6 DEF Cost, a, b

\* What has been found when the way back is over.
LEMMA FoundOps ==
  ASSUME EditInv, OpsInv, stage = "back", i = 0, j = 0
  PROVE  /\ ops \in Seq(Steps) /\ OpsWay(ops) /\ Len(ops) = Cost
         /\ Edits(ops) = 1..Len(ops) /\ \A n \in 1..Len(ops) : ops[n].type # "keep"
<1>1. string1 \in Strings /\ string2 \in Strings /\ BackInv /\ BackWay
  BY DEF EditInv, OpsInv
<1>2. ops \in Seq(Operation) /\ Len(ops) \in Nat
  BY <1>1, LenProperties DEF BackInv
<1>3. \A n \in 1..Len(ops) : ops[n].type # "keep"
  <2>1. \A n \in 1..Len(ops) : ops[n] \in Operation
    BY <1>2, ElementOfSeq
  <2> QED
    BY <2>1 DEF Operation
<1>4. Edits(ops) = 1..Len(ops)
  BY <1>3 DEF Edits
<1>5. Len(ops) = Cost
  <2>1. IsMatrix(matrix, Rest.first, Rest.second, 1) /\ Len(Rest.second) \in Nat
    BY <1>1, RestMatrix DEF BackInv
  <2>2. 0 \in 0..Len(Rest.second)
    BY <2>1
  <2>3. matrix[0][0] = 0
    BY <2>1, <2>2 DEF IsMatrix
  <2>4. Len(ops) + matrix[0][0] = Cost
    BY <1>1 DEF BackInv
  <2> QED
    BY <1>2, <2>3, <2>4
<1>6. /\ Rest.offset \in Nat /\ Len(string1) \in Nat /\ Len(string2) \in Nat
      /\ Diag(string1, string2, 0, 0, Rest.offset, Rest.offset)
  BY <1>1, RestIsCutOut
<1>7. Way(string1, string2, ops, Rest.offset, Rest.offset, Len(string1), Len(string2))
  <2>1. i + Rest.offset = Rest.offset /\ j + Rest.offset = Rest.offset
    BY <1>6
  <2> QED
    BY <1>1, <2>1 DEF BackWay
<1>8. OpsWay(ops)
  BY <1>6, <1>7, WayExtends DEF OpsWay
<1>9. ops \in Seq(Steps)
  BY <1>8 DEF OpsWay, Way
<1> QED
  BY <1>3, <1>4, <1>5, <1>8, <1>9

\* With the keep operations or without them.
LEMMA FoundWay ==
  ASSUME EditInv, OpsInv, Found
  PROVE  OpsWay(ops)' /\ Cardinality(Edits(ops'))  = Cost
<1>1. /\ stage = "back" /\ i = 0 /\ j = 0 /\ ops' \in {ops, WithKeeps}
      /\ string1' = string1 /\ string2' = string2
  BY DEF Found, inputs
<1>2. /\ ops \in Seq(Steps) /\ OpsWay(ops) /\ Len(ops) = Cost
      /\ Edits(ops) = 1..Len(ops) /\ \A n \in 1..Len(ops) : ops[n].type # "keep"
  BY <1>1, FoundOps
<1>3. /\ Len(string1) \in Nat /\ Len(string2) \in Nat /\ Len(ops) \in Nat
  BY <1>2, RestIsCutOut, LenProperties DEF EditInv
<1>4. OpsWay(WithKeeps) /\ Cardinality(Edits(WithKeeps)) = Len(ops)
  BY <1>2, <1>3, WithKeepsWay
<1>5. Cardinality(Edits(ops)) = Len(ops)
  BY <1>2, <1>3, LengthCardinality
<1>6. OpsWay(ops') /\ Cardinality(Edits(ops')) = Len(ops)
  BY <1>1, <1>2, <1>4, <1>5, Zenon
<1> QED
  BY <1>1, <1>2, <1>6 DEF OpsWay

\* Every step keeps all of that.
LEMMA NextOpsInv ==
  ASSUME EditInv, MeasureInv, OpsInv, MeasureInv', [Next]_vars
  PROVE  OpsInv'
<1>1. CASE Measure
  <2>1. stage' = "measured"
    BY <1>1 DEF Measure
  <2>2. distance'.bytes[FALSE] = EditDistance(string1', string2', 1)
    BY <2>1 DEF MeasureInv, DistanceIsEdit
  <2> QED
    BY <2>1, <2>2 DEF OpsInv
<1>2. CASE FillMatrix
  <2>1. /\ stage = "measured" /\ stage' = "back"
        /\ string1' = string1 /\ string2' = string2 /\ distance' = distance
    BY <1>2 DEF FillMatrix, inputs
  <2>2. BackWay'
    BY <1>2, FillMatrixWay
  <2> QED
    BY <2>1, <2>2 DEF OpsInv
<1>3. CASE Insert \/ Delete \/ Keep \/ Replace
  <2>1. /\ stage = "back" /\ stage' = "back"
        /\ string1' = string1 /\ string2' = string2 /\ distance' = distance
    BY <1>3 DEF Insert, Delete, Keep, Replace, Back, inputs
  <2>2. BackWay'
    BY <1>3, <2>1, StepWay DEF OpsInv
  <2> QED
    BY <2>1, <2>2 DEF OpsInv
<1>4. CASE Found
  <2>1. /\ stage = "back" /\ stage' = "count" /\ matrix' = matrix
        /\ string1' = string1 /\ string2' = string2 /\ distance' = distance
    BY <1>4 DEF Found, inputs
  <2>2. Cost' = Cost
    BY <2>1 DEF Cost, Rest
  <2>3. OpsWay(ops)' /\ Cardinality(Edits(ops')) = Cost
    BY <1>4, FoundWay
  <2>4. Cost = EditDistance(string1, string2, 1)
    BY <2>1, CostIsDistance
  <2>5. distance.bytes[FALSE] = EditDistance(string1, string2, 1)
    BY <2>1 DEF OpsInv
  <2> QED
    BY <2>1, <2>2, <2>3, <2>4, <2>5 DEF OpsInv
<1>5. CASE Count \/ CountRest \/ Convert \/ ConvertRest
  <2>1. /\ stage \in {"count", "convert"} /\ stage' \in {"count", "convert", "done"}
        /\ matrix' = matrix
        /\ string1' = string1 /\ string2' = string2 /\ distance' = distance
        /\ ops' = ops
    BY <1>5 DEF Count, CountRest, Convert, ConvertRest, inputs
  <2>2. Cost' = Cost
    BY <2>1 DEF Cost, Rest
  <2> QED
    BY <2>1, <2>2 DEF OpsInv, OpsWay
<1>6. CASE UNCHANGED vars
  <2>1. UNCHANGED <<string1, string2, stage, distance, matrix, i, j, ops>>
    BY <1>6 DEF vars, inputs, pathVars
  <2>2. Cost' = Cost /\ Rest' = Rest
    BY <2>1 DEF Cost, Rest
  <2> QED
    BY <2>1, <2>2 DEF OpsInv, OpsWay, BackWay
<1> QED
  BY <1>1, <1>2, <1>3, <1>4, <1>5, <1>6 DEF Next

\* Operations are a way through the strings in every state that uses them.
THEOREM OpsInvariant == Spec => []OpsInv
<1>1. Init => OpsInv
  BY DEF Init, OpsInv
<1>2. EditInv /\ MeasureInv /\ OpsInv /\ MeasureInv' /\ [Next]_vars => OpsInv'
  BY NextOpsInv
<1> QED
  BY <1>1, <1>2, EditInvariant, MeasureInvariant, PTL DEF Spec

\* lev_editops_find returns operations that turn string1 into string2, as many as
\* it allocated memory for and as few as the edit distance, for all strings and
\* whether or not the operations that keep a letter are among them.
THEOREM OpsCorrect == Spec => []OpsTransform
  BY EditInvariant, OpsInvariant, OpsTransformLocal, PTL

-----------------------------------------------------------------------------
(* Opcodes and the blocks that go with them.                               *)

OpCodes == [type : {"insert", "delete", "replace", "keep"},
            sbeg : Nat, send : Nat, dbeg : Nat, dend : Nat]

BlockSet == [spos : Nat, dpos : Nat, len : Int]

\* Where opcode n of q leads.
SLast(q, n) == IF n = 0 THEN 0 ELSE q[n].send
DLast(q, n) == IF n = 0 THEN 0 ELSE q[n].dend

EndsKept(q) == Len(q) > 0 /\ q[Len(q)].type = "keep"

\* An opcode that keeps letters covers equal ones.
KeepsEqual(a, b, op) ==
    op.type = "keep" => /\ Diag(a, b, op.sbeg, op.dbeg, op.send, op.dend)
                        /\ op.send <= Len(a) /\ op.dend <= Len(b)

\* Opcodes that lead from the beginning of the strings to x and y, no two that
\* keep letters one after the other.
Cover(a, b, q, x, y) ==
    /\ q \in Seq(OpCodes)
    /\ \A n \in 1..Len(q) : /\ q[n].sbeg = SLast(q, n - 1) /\ q[n].dbeg = DLast(q, n - 1)
                            /\ KeepsEqual(a, b, q[n])
    /\ \A n \in 2..Len(q) : ~ (q[n].type = "keep" /\ q[n - 1].type = "keep")
    /\ SLast(q, Len(q)) = x /\ DLast(q, Len(q)) = y

\* The block that an opcode stands for.
BlockOf(op) == IF op.type = "keep"
               THEN <<MatchingBlock(op.sbeg, op.dbeg, op.send - op.sbeg)>> ELSE <<>>

\* The blocks of the first opcodes of q.
Collects(q, f) ==
    /\ f \in [0..Len(q) -> Seq(BlockSet)]
    /\ f[0] = <<>>
    /\ \A n \in 1..Len(q) : f[n] = f[n - 1] \o BlockOf(q[n])

Made(q, bl) == \E f : Collects(q, f) /\ bl = f[Len(q)]

\* An opcode stands for a block or none.
LEMMA BlockOfType ==
  ASSUME NEW op \in OpCodes
  PROVE  BlockOf(op) \in Seq(BlockSet)
<1>1. op.sbeg \in Nat /\ op.dbeg \in Nat /\ op.send \in Nat
  BY DEF OpCodes
<1>2. MatchingBlock(op.sbeg, op.dbeg, op.send - op.sbeg) \in BlockSet
  <2>1. op.send - op.sbeg \in Int
    BY <1>1
  <2> QED
    BY <1>1, <2>1 DEF MatchingBlock, BlockSet
<1> HIDE DEF OpCodes
<1> QED
  BY <1>2 DEF BlockOf

\* Nothing is covered at first.
LEMMA CoverEmpty ==
  ASSUME NEW a, NEW b
  PROVE  Cover(a, b, <<>>, 0, 0) /\ ~EndsKept(<<>>) /\ Made(<<>>, <<>>)
<1>1. Cover(a, b, <<>>, 0, 0) /\ ~EndsKept(<<>>)
  BY DEF Cover, EndsKept, SLast, DLast
<1> DEFINE f == [n \in 0..0 |-> <<>>]
<1>2. Collects(<<>>, f) /\ f[Len(<<>>)] = <<>>
  <2>1. <<>> \in Seq(BlockSet) /\ Len(<<>>) = 0
    OBVIOUS
  <2>2. f \in [0..0 -> Seq(BlockSet)]
    BY <2>1
  <2>3. \A n \in 1..Len(<<>>) : FALSE
    BY <2>1
  <2> QED
    BY <2>1, <2>2, <2>3 DEF Collects
<1> QED
  BY <1>1, <1>2 DEF Made

\* An opcode more.
LEMMA CoverAppend ==
  ASSUME NEW a, NEW b, NEW q, NEW x \in Nat, NEW y \in Nat, Cover(a, b, q, x, y),
         NEW op \in OpCodes, op.sbeg = x, op.dbeg = y, KeepsEqual(a, b, op),
         op.type = "keep" => ~EndsKept(q)
  PROVE  /\ Cover(a, b, q \o <<op>>, op.send, op.dend)
         /\ EndsKept(q \o <<op>>) <=> op.type = "keep"
<1> DEFINE w == q \o <<op>>
           m == Len(q)
<1>1. q \in Seq(OpCodes)
  BY DEF Cover
<1>2. m \in Nat /\ <<op>> \in Seq(OpCodes) /\ Len(<<op>>) = 1 /\ <<op>>[1] = op
  BY <1>1, LenProperties
<1>3. /\ w \in Seq(OpCodes) /\ Len(w) = m + 1
      /\ \A n \in 1..(m + 1) : w[n] = IF n <= m THEN q[n] ELSE <<op>>[n - m]
  BY <1>1, <1>2, ConcatProperties
<1> HIDE DEF w, m
<1>4. /\ \A n \in 1..m : w[n] = q[n]
      /\ w[m + 1] = op
  <2>1. /\ \A n \in 1..m : n \in 1..(m + 1) /\ n <= m
        /\ m + 1 \in 1..(m + 1) /\ ~ (m + 1 <= m) /\ (m + 1) - m = 1
    BY <1>2
  <2> QED
    BY <1>2, <1>3, <2>1
<1>5. \A n \in 0..m : SLast(w, n) = SLast(q, n) /\ DLast(w, n) = DLast(q, n)
  <2>1. \A n \in 0..m : n = 0 \/ n \in 1..m
    BY <1>2
  <2> QED
    BY <1>4, <2>1, Zenon DEF SLast, DLast
<1>6. /\ \A n \in 1..m : /\ q[n].sbeg = SLast(q, n - 1) /\ q[n].dbeg = DLast(q, n - 1)
                         /\ KeepsEqual(a, b, q[n])
      /\ \A n \in 2..m : ~ (q[n].type = "keep" /\ q[n - 1].type = "keep")
      /\ SLast(q, m) = x /\ DLast(q, m) = y
  BY DEF Cover, m
<1>7. \A n \in 1..(m + 1) : /\ n \in 1..m \/ n = m + 1
                            /\ n - 1 \in 0..m /\ (m + 1) - 1 = m
  BY <1>2
<1>8. \A n \in 1..(m + 1) : /\ w[n].sbeg = SLast(w, n - 1) /\ w[n].dbeg = DLast(w, n - 1)
                            /\ KeepsEqual(a, b, w[n])
  BY <1>4, <1>5, <1>6, <1>7
<1>9. ASSUME NEW n \in 2..(m + 1), w[n].type = "keep", w[n - 1].type = "keep"
      PROVE  FALSE
  <2>1. CASE n = m + 1
    <3>1. m \in 1..m /\ n - 1 = m /\ m > 0
      BY <1>2, <2>1
    <3>2. op.type = "keep" /\ q[m].type = "keep"
      BY <1>4, <1>9, <2>1, <3>1
    <3> QED
      BY <3>1, <3>2 DEF EndsKept, m
  <2>2. CASE n # m + 1
    <3>1. n \in 2..m /\ n \in 1..m /\ n - 1 \in 1..m
      BY <1>2, <2>2
    <3> QED
      BY <1>4, <1>6, <1>9, <3>1
  <2> QED
    BY <2>1, <2>2
<1>10. /\ SLast(w, m + 1) = op.send /\ DLast(w, m + 1) = op.dend
       /\ EndsKept(w) <=> op.type = "keep"
  <2>1. m + 1 # 0 /\ m + 1 > 0
    BY <1>2
  <2> QED
    BY <1>3, <1>4, <2>1 DEF SLast, DLast, EndsKept
<1>11. Cover(a, b, w, op.send, op.dend)
  <2>1. \A n \in 2..(m + 1) : ~ (w[n].type = "keep" /\ w[n - 1].type = "keep")
    BY <1>9
  <2> QED
    BY <1>3, <1>8, <1>10, <2>1 DEF Cover
<1> QED
  BY <1>10, <1>11 DEF w

\* Its block goes after the blocks of the others.
LEMMA MadeAppend ==
  ASSUME NEW q \in Seq(OpCodes), NEW bl, Made(q, bl), NEW op \in OpCodes
  PROVE  Made(q \o <<op>>, bl \o BlockOf(op)) /\ bl \in Seq(BlockSet)
<1> DEFINE w == q \o <<op>>
           m == Len(q)
<1>1. m \in Nat /\ <<op>> \in Seq(OpCodes) /\ Len(<<op>>) = 1 /\ <<op>>[1] = op
  BY LenProperties
<1>2. /\ w \in Seq(OpCodes) /\ Len(w) = m + 1
      /\ \A n \in 1..(m + 1) : w[n] = IF n <= m THEN q[n] ELSE <<op>>[n - m]
  BY <1>1, ConcatProperties
<1> HIDE DEF w
<1>3. /\ \A n \in 1..m : w[n] = q[n]
      /\ w[m + 1] = op
  <2>1. /\ \A n \in 1..m : n \in 1..(m + 1) /\ n <= m
        /\ m + 1 \in 1..(m + 1) /\ ~ (m + 1 <= m) /\ (m + 1) - m = 1
    BY <1>1
  <2> HIDE DEF m
  <2> QED
    BY <1>1, <1>2, <2>1
<1>4. PICK f : Collects(q, f) /\ bl = f[m]
  BY DEF Made
<1>5. /\ f \in [0..m -> Seq(BlockSet)] /\ f[0] = <<>>
      /\ \A n \in 1..m : f[n] = f[n - 1] \o BlockOf(q[n])
  BY <1>4 DEF Collects
<1> DEFINE g == [n \in 0..(m + 1) |-> IF n = m + 1 THEN bl \o BlockOf(op) ELSE f[n]]
<1> HIDE DEF m
<1>6. bl \in Seq(BlockSet) /\ BlockOf(op) \in Seq(BlockSet)
  BY <1>1, <1>4, <1>5, BlockOfType
<1>7. bl \o BlockOf(op) \in Seq(BlockSet)
  BY <1>6, ConcatProperties
<1>8. \A n \in 0..(m + 1) : n = m + 1 \/ (n \in 0..m /\ n # m + 1)
  BY <1>1
<1>9. g \in [0..(m + 1) -> Seq(BlockSet)]
  BY <1>5, <1>7, <1>8
<1>10. /\ \A n \in 0..m : n # m + 1 /\ n \in 0..(m + 1)
       /\ 0 \in 0..m /\ m \in 0..m /\ m + 1 \in 0..(m + 1) /\ (m + 1) - 1 = m
       /\ \A n \in 1..(m + 1) : n = m + 1 \/ (n \in 1..m /\ n \in 0..m /\ n - 1 \in 0..m)
  BY <1>1
<1>11. /\ \A n \in 0..m : g[n] = f[n]
       /\ g[m + 1] = bl \o BlockOf(op)
  BY <1>10
<1> HIDE DEF g
<1>12. \A n \in 1..(m + 1) : g[n] = g[n - 1] \o BlockOf(w[n])
  BY <1>3, <1>4, <1>5, <1>10, <1>11
<1>13. Collects(w, g)
  BY <1>2, <1>5, <1>9, <1>10, <1>11, <1>12 DEF Collects
<1>14. Made(w, bl \o BlockOf(op))
  BY <1>2, <1>11, <1>13 DEF Made
<1> QED
  BY <1>6, <1>14 DEF w

\* lev_opcodes_matching_blocks makes the same blocks of the opcodes.
LEMMA OpcodesMake ==
  ASSUME NEW a, NEW b, Len(a) \in Nat, a = string1, NEW q, NEW bl,
         NEW y, Cover(a, b, q, Len(a), y), Made(q, bl)
  PROVE  OpcodesMatchingBlocks(q) = bl
<1> DEFINE m == Len(q)
           kept(n) == n \in DOMAIN q /\ q[n].type = "keep"
           after(n) == {k \in DOMAIN q : k > n /\ ~kept(k)}
           send(n) == IF after(n) = {} THEN Len(string1) ELSE q[Min(after(n))].sbeg
           block(n) == MatchingBlock(q[n].sbeg, q[n].dbeg, send(n) - q[n].sbeg)
           more(n) == IF kept(n) /\ ~kept(n - 1) THEN <<block(n)>> ELSE <<>>
           equation(f) == f = [n \in 0..m |-> IF n = 0 THEN <<>> ELSE f[n - 1] \o more(n)]
           made == CHOOSE f : equation(f)
<1>1. OpcodesMatchingBlocks(q) = made[m]
  BY Zenon DEF OpcodesMatchingBlocks
<1>2. q \in Seq(OpCodes)
  BY DEF Cover
<1>3. m \in Nat /\ DOMAIN q = 1..m
  BY <1>2, LenProperties
<1>4. PICK f : Collects(q, f) /\ bl = f[m]
  BY DEF Made
<1>5. /\ f \in [0..m -> Seq(BlockSet)] /\ f[0] = <<>>
      /\ \A n \in 1..m : f[n] = f[n - 1] \o BlockOf(q[n])
  BY <1>4 DEF Collects
<1>6. /\ \A n \in 1..m : q[n].sbeg = SLast(q, n - 1)
      /\ \A n \in 2..m : ~ (q[n].type = "keep" /\ q[n - 1].type = "keep")
      /\ SLast(q, m) = Len(a)
  BY DEF Cover
<1> HIDE DEF made, m
<1>7. ASSUME NEW n \in 1..m PROVE more(n) = BlockOf(q[n])
  <2>1. CASE q[n].type # "keep"
    <3>1. ~kept(n)
      BY <2>1
    <3> HIDE DEF kept, block
    <3> QED
      BY <2>1, <3>1 DEF BlockOf
  <2>2. CASE q[n].type = "keep"
    <3>1. kept(n) /\ ~kept(n - 1)
      <4>1. n \in DOMAIN q
        BY <1>3
      <4>2. n - 1 \in DOMAIN q => n \in 2..m
        BY <1>3
      <4> QED
        BY <1>6, <2>2, <4>1, <4>2
    <3>2. send(n) = q[n].send
      <4>1. CASE n = m
        <5>1. after(n) = {}
          BY <1>3, <4>1
        <5>2. n # 0
          OBVIOUS
        <5> HIDE DEF after
        <5>3. send(n) = Len(string1)
          BY <5>1
        <5> QED
          BY <1>6, <4>1, <5>2, <5>3 DEF SLast
      <4>2. CASE n # m
        <5>1. /\ n + 1 \in 1..m /\ n + 1 \in 2..m /\ (n + 1) - 1 = n /\ n # 0
              /\ n + 1 > n
          BY <1>3, <4>2
        <5>2. ~kept(n + 1)
          BY <1>6, <2>2, <5>1
        <5>3. n + 1 \in after(n)
          BY <1>3, <5>1, <5>2
        <5>4. \A k \in after(n) : k \in Int /\ n + 1 <= k
          BY <1>3
        <5> DEFINE S == after(n)
        <5>5. Min(S) = n + 1
          <6> HIDE DEF S, after
          <6>1. Min(S) \in S /\ \A k \in S : Min(S) <= k
            BY <5>3, <5>4 DEF Min, S
          <6> DEFINE least == Min(S)
          <6>2. least \in Int /\ n + 1 <= least /\ least <= n + 1
            BY <5>3, <5>4, <6>1 DEF S
          <6> HIDE DEF least
          <6>3. least = n + 1
            BY <6>2
          <6> QED
            BY <6>3 DEF least
        <5>6. after(n) # {}
          BY <5>3
        <5> HIDE DEF after
        <5>7. send(n) = q[n + 1].sbeg
          BY <5>5, <5>6 DEF S
        <5>8. q[n + 1].sbeg = SLast(q, n)
          BY <1>6, <5>1
        <5> QED
          BY <5>1, <5>7, <5>8 DEF SLast
      <4> QED
        BY <4>1, <4>2
    <3> HIDE DEF kept, send
    <3> QED
      BY <2>2, <3>1, <3>2 DEF BlockOf
  <2> QED
    BY <2>1, <2>2
<1> HIDE DEF more
<1>8. equation(f)
  <2>1. ASSUME NEW n \in 0..m
        PROVE  f[n] = IF n = 0 THEN <<>> ELSE f[n - 1] \o more(n)
    <3>1. n = 0 \/ (n \in 1..m /\ n # 0)
      BY <1>3
    <3> QED
      BY <1>5, <1>7, <3>1
  <2>2. f = [n \in 0..m |-> f[n]]
    BY <1>5
  <2> QED
    BY <2>1, <2>2
<1> HIDE DEF equation
<1>9. equation(made)
  BY <1>8, Zenon DEF made
<1>10. \A n \in 0..m : made[n] = IF n = 0 THEN <<>> ELSE made[n - 1] \o more(n)
  BY <1>9, Zenon DEF equation
<1> DEFINE T == {n \in Nat : n <= m => made[n] = f[n]}
<1>11. 0 \in T
  <2>1. 0 \in 0..m
    BY <1>3
  <2> QED
    BY <1>5, <1>10, <2>1
<1>12. ASSUME NEW k \in Nat, k \in T PROVE k + 1 \in T
  <2> SUFFICES ASSUME k + 1 <= m PROVE made[k + 1] = f[k + 1]
    OBVIOUS
  <2>1. k + 1 \in 0..m /\ k + 1 \in 1..m /\ k + 1 # 0 /\ (k + 1) - 1 = k /\ k <= m
    BY <1>3
  <2>2. made[k + 1] = made[k] \o more(k + 1)
    BY <1>10, <2>1
  <2>3. f[k + 1] = f[k] \o BlockOf(q[k + 1])
    BY <1>5, <2>1
  <2>4. made[k] = f[k]
    BY <1>12, <2>1
  <2> QED
    BY <1>7, <2>1, <2>2, <2>3, <2>4
<1>13. Nat \subseteq T
  <2> HIDE DEF T
  <2> QED
    BY <1>11, <1>12, SetInduction
<1>14. made[m] = f[m]
  BY <1>3, <1>13
<1> QED
  BY <1>1, <1>4, <1>14

-----------------------------------------------------------------------------
(* The conversion keeps to the way of the operations.                      *)

\* What is left of the way after operation n - 1.
Ahead(n, x, y) == Diag(string1, string2, x, y, SBeg(ops, n, Len(string1)),
                       DBeg(ops, n, Len(string2)))

\* Where an operation leads the rest of the way begins.
LEMMA AheadOfEnd ==
  ASSUME OpsWay(ops), NEW n \in 1..Len(ops)
  PROVE  /\ ops[n] \in Steps /\ ops[n].spos \in Nat /\ ops[n].dpos \in Nat
         /\ Inside(string1, string2, ops[n])
         /\ Len(ops) \in Nat
         /\ Ahead(n + 1, ops[n].spos + Advances(ops[n].type)[1],
                  ops[n].dpos + Advances(ops[n].type)[2])
<1>1. ops \in Seq(Steps) /\ Len(ops) \in Nat
  BY LenProperties DEF OpsWay, Way
<1>2. ops[n] \in Steps /\ ops[n].spos \in Nat /\ ops[n].dpos \in Nat
  BY <1>1, WayType
<1>3. n \in 0..Len(ops) /\ n # 0
  BY <1>1
<1>4. /\ Inside(string1, string2, ops[n])
      /\ Diag(string1, string2, SEnd(ops, n, 0), DEnd(ops, n, 0),
              SBeg(ops, n + 1, Len(string1)), DBeg(ops, n + 1, Len(string2)))
  BY <1>3 DEF OpsWay, Way
<1>5. /\ SEnd(ops, n, 0) = ops[n].spos + Advances(ops[n].type)[1]
      /\ DEnd(ops, n, 0) = ops[n].dpos + Advances(ops[n].type)[2]
  BY <1>3 DEF SEnd, DEnd
<1> QED
  BY <1>1, <1>2, <1>4, <1>5 DEF Ahead

\* Where the rest of the way begins.
LEMMA AheadType ==
  ASSUME ops \in Seq(Steps), Len(string1) \in Nat, Len(string2) \in Nat,
         NEW n \in 1..(Len(ops) + 1)
  PROVE  /\ SBeg(ops, n, Len(string1)) \in Nat /\ DBeg(ops, n, Len(string2)) \in Nat
         /\ n \in Nat /\ Len(ops) \in Nat
<1>1. Len(ops) \in Nat
  BY LenProperties
<1> QED
  BY <1>1, WayType

\* Operations that keep a letter can be skipped.
LEMMA SkipKeeps ==
  ASSUME OpsWay(ops), Len(string1) \in Nat, Len(string2) \in Nat,
         NEW x \in Nat, NEW y \in Nat, NEW n \in 1..(Len(ops) + 1), Ahead(n, x, y),
         NEW t \in n..(Len(ops) + 1), \A k \in n..(t - 1) : ops[k].type = "keep"
  PROVE  Ahead(t, x, y)
<1>1. ops \in Seq(Steps) /\ Len(ops) \in Nat
  BY LenProperties DEF OpsWay, Way
<1> DEFINE m == Len(ops)
           T == {k \in Nat : n + k <= t => Ahead(n + k, x, y)}
<1>2. 0 \in T
  <2>1. n + 0 = n
    BY <1>1
  <2> QED
    BY <2>1
<1>3. ASSUME NEW k \in Nat, k \in T PROVE k + 1 \in T
  <2> SUFFICES ASSUME n + (k + 1) <= t PROVE Ahead(n + (k + 1), x, y)
    OBVIOUS
  <2> DEFINE c == n + k
  <2>1. /\ c \in 1..m /\ c \in n..(t - 1) /\ c <= t /\ n + (k + 1) = c + 1
        /\ c \in 1..(m + 1) /\ c + 1 \in 1..(m + 1) /\ ~ (c > m)
    BY <1>1
  <2>2. Ahead(c, x, y)
    BY <1>3, <2>1
  <2>3. ops[c].type = "keep"
    BY <2>1
  <2> HIDE DEF c
  <2>4. /\ ops[c].spos \in Nat /\ ops[c].dpos \in Nat
        /\ Inside(string1, string2, ops[c])
        /\ Ahead(c + 1, ops[c].spos + Advances(ops[c].type)[1],
                 ops[c].dpos + Advances(ops[c].type)[2])
    BY <2>1, AheadOfEnd
  <2>5. Advances(ops[c].type)[1] = 1 /\ Advances(ops[c].type)[2] = 1
    BY <2>3, AdvancesBits
  <2> DEFINE s == ops[c].spos
             d == ops[c].dpos
             u == SBeg(ops, c + 1, Len(string1))
             v == DBeg(ops, c + 1, Len(string2))
  <2>6. Diag(string1, string2, x, y, s, d)
    BY <2>1, <2>2 DEF Ahead, SBeg, DBeg
  <2>7. Diag(string1, string2, s, d, s + 1, d + 1)
    BY <2>3, <2>4 DEF Inside
  <2>8. Diag(string1, string2, s + 1, d + 1, u, v)
    BY <2>4, <2>5 DEF Ahead
  <2>9. s \in Nat /\ d \in Nat /\ u \in Nat /\ v \in Nat
    BY <1>1, <2>1, <2>4, AheadType
  <2> HIDE DEF s, d, u, v
  <2>10. Diag(string1, string2, x, y, s + 1, d + 1) /\ s + 1 \in Nat /\ d + 1 \in Nat
    BY <2>6, <2>7, <2>9, DiagTransitive
  <2>11. Diag(string1, string2, x, y, u, v)
    BY <2>8, <2>9, <2>10, DiagTransitive
  <2>12. Ahead(c + 1, x, y)
    BY <2>11 DEF Ahead, u, v
  <2> QED
    BY <2>1, <2>12
<1>4. Nat \subseteq T
  <2> HIDE DEF T
  <2> QED
    BY <1>2, <1>3, SetInduction
<1>5. t - n \in Nat /\ n + (t - n) = t
  BY <1>1
<1>6. t - n \in T
  <2> HIDE DEF T
  <2> QED
    BY <1>4, <1>5
<1>7. n + (t - n) <= t
  BY <1>1, <1>5
<1> QED
  BY <1>5, <1>6, <1>7

\* The operation that is converted next, and those before it.
LEMMA NextOpSkips ==
  ASSUME Len(ops) \in Nat, o \in 1..(Len(ops) + 1)
  PROVE  /\ NextOp = 0 => \A n \in o..Len(ops) : ops[n].type = "keep"
         /\ NextOp # 0 => /\ NextOp \in o..Len(ops) /\ ops[NextOp].type # "keep"
                          /\ \A n \in o..(NextOp - 1) : ops[n].type = "keep"
<1> DEFINE left == {n \in o..Len(ops) : ops[n].type # "keep"}
<1>1. NextOp = IF left = {} THEN 0 ELSE Min(left)
  BY Zenon DEF NextOp
<1>2. CASE left = {}
  BY <1>1, <1>2
<1>3. CASE left # {}
  <2>1. left \in SUBSET Nat
    OBVIOUS
  <2>2. PICK x \in left : \A y \in left : x <= y
    <3> HIDE DEF left
    <3> QED
      BY <1>3, <2>1, LeastNatural
  <2>3. Min(left) \in left /\ \A y \in left : Min(left) <= y
    <3> HIDE DEF left
    <3> QED
      BY <2>2 DEF Min
  <2> DEFINE least == Min(left)
  <2>4. least \in o..Len(ops) /\ ops[least].type # "keep"
    BY <2>3
  <2>5. \A y \in left : least <= y
    BY <2>3
  <2>6. NextOp = least
    BY <1>1, <1>3
  <2> HIDE DEF least
  <2>7. ASSUME NEW n \in o..(least - 1) PROVE ops[n].type = "keep"
    <3>1. n \in o..Len(ops) /\ ~ (least <= n)
      BY <2>4
    <3>2. n \notin left
      BY <2>5, <3>1
    <3> QED
      BY <3>1, <3>2
  <2> HIDE DEF left
  <2> QED
    BY <2>4, <2>6, <2>7
<1> QED
  BY <1>2, <1>3

\* The run that an operation begins ends inside the operations, where its
\* letters do.
LEMMA RunLeads ==
  ASSUME OpsWay(ops), NEW first \in 1..Len(ops)
  PROVE  LET n    == RunLength(first)
             send == ops[first].spos + n * Advances(ops[first].type)[1]
             dend == ops[first].dpos + n * Advances(ops[first].type)[2]
         IN  /\ n \in 1..(Len(ops) - first + 1)
             /\ first + n \in 1..(Len(ops) + 1)
             /\ send \in Nat /\ dend \in Nat
             /\ Ahead(first + n, send, dend)
<1> DEFINE op == ops[first]
           a == Advances(op.type)
           continues(m) == ops[first + m] = [type |-> op.type, spos |-> op.spos + m * a[1],
                                             dpos |-> op.dpos + m * a[2]]
           Runs(k) == /\ \A m \in 1..(k - 1) : continues(m)
                      /\ first + k <= Len(ops) => ~continues(k)
           n == CHOOSE k \in 1..(Len(ops) - first + 1) : Runs(k)
           send == op.spos + n * a[1]
           dend == op.dpos + n * a[2]
<1>1. RunLength(first) = n
  BY Zenon DEF RunLength
<1>2. /\ Len(ops) \in Nat /\ op \in Steps /\ op.spos \in Nat /\ op.dpos \in Nat
  BY AheadOfEnd
<1>3. a[1] \in {0, 1} /\ a[2] \in {0, 1}
  BY AdvancesBits
<1> HIDE DEF continues, op, a
<1>4. \E k \in 1..(Len(ops) - first + 1) : Runs(k)
  <2> DEFINE S == {k \in Nat : k >= 1 /\ (first + k <= Len(ops) => ~continues(k))}
             l == Len(ops) - first + 1
  <2>1. l \in Nat /\ l >= 1 /\ ~ (first + l <= Len(ops))
    BY <1>2
  <2>2. l \in S
    BY <2>1
  <2>3. S \in SUBSET Nat
    OBVIOUS
  <2>4. PICK k \in S : \A y \in S : k <= y
    <3> HIDE DEF S
    <3> QED
      BY <2>2, <2>3, LeastNatural
  <2>5. k \in Nat /\ k >= 1 /\ (first + k <= Len(ops) => ~continues(k))
    BY <2>4
  <2>6. k <= l
    <3> HIDE DEF S, l
    <3> QED
      BY <2>2, <2>4
  <2>7. k \in 1..l
    <3> HIDE DEF S, l
    <3> QED
      BY <2>1, <2>5, <2>6
  <2>8. ASSUME NEW m \in 1..(k - 1) PROVE continues(m)
    <3>1. m \in Nat /\ m >= 1 /\ ~ (k <= m)
      BY <2>5
    <3>2. m \notin S
      <4> HIDE DEF S
      <4> QED
        BY <2>4, <3>1
    <3> QED
      BY <3>1, <3>2
  <2> HIDE DEF S, l
  <2>9. Runs(k)
    BY <2>5, <2>8
  <2> QED
    BY <2>7, <2>9 DEF l
<1>5. n \in 1..(Len(ops) - first + 1) /\ Runs(n)
  <2> HIDE DEF Runs
  <2> QED
    BY <1>4
<1> HIDE DEF n
<1> DEFINE last == first + (n - 1)
           r == n - 1
<1>6. /\ n \in Nat /\ r \in Nat /\ last \in 1..Len(ops) /\ last + 1 = first + n
      /\ first + n \in 1..(Len(ops) + 1) /\ n = r + 1 /\ first + r = last
      /\ r = 0 \/ r \in 1..(n - 1)
  BY <1>2, <1>5
<1>7. /\ ops[last].type = op.type
      /\ ops[last].spos = op.spos + r * a[1] /\ ops[last].dpos = op.dpos + r * a[2]
  <2>1. CASE r = 0
    <3>1. last = first
      BY <2>1
    <3>2. op.spos + r * a[1] = op.spos /\ op.dpos + r * a[2] = op.dpos
      <4>1. 0 * a[1] = 0 /\ 0 * a[2] = 0
        BY <1>3
      <4> HIDE DEF r
      <4> QED
        BY <1>2, <2>1, <4>1
    <3> QED
      BY <3>1, <3>2 DEF op
  <2>2. CASE r # 0
    <3>1. continues(r)
      <4> HIDE DEF r
      <4> QED
        BY <1>5, <1>6, <2>2
    <3>2. ops[first + r] = [type |-> op.type, spos |-> op.spos + r * a[1],
                            dpos |-> op.dpos + r * a[2]]
      BY <3>1 DEF continues
    <3> HIDE DEF r, last
    <3> QED
      BY <1>6, <3>2
  <2> QED
    BY <2>1, <2>2
<1> HIDE DEF r, last
<1>8. /\ ops[last].spos + a[1] = send /\ ops[last].dpos + a[2] = dend
      /\ send \in Nat /\ dend \in Nat
  <2>1. /\ r * a[1] \in Nat /\ r * a[1] + a[1] = n * a[1]
        /\ r * a[2] \in Nat /\ r * a[2] + a[2] = n * a[2]
    <3>1. \A z \in {0, 1} : r * z \in Nat /\ r * z + z = n * z
      <4>1. r * 0 \in Nat /\ r * 0 + 0 = n * 0
        BY <1>6
      <4>2. r * 1 \in Nat /\ r * 1 + 1 = n * 1
        BY <1>6
      <4> QED
        BY <4>1, <4>2
    <3> QED
      BY <1>3, <3>1
  <2> DEFINE g == r * a[1]
             h == r * a[2]
             e == n * a[1]
             f == n * a[2]
             x == a[1]
             y == a[2]
             s == op.spos
             d == op.dpos
  <2>2. /\ g \in Nat /\ g + x = e /\ h \in Nat /\ h + y = f
        /\ x \in {0, 1} /\ y \in {0, 1} /\ s \in Nat /\ d \in Nat
    BY <1>2, <1>3, <2>1
  <2>3. ops[last].spos = s + g /\ ops[last].dpos = d + h /\ send = s + e /\ dend = d + f
    BY <1>7
  <2> HIDE DEF g, h, e, f, x, y, s, d, send, dend
  <2>4. /\ (s + g) + x = s + e /\ (d + h) + y = d + f
        /\ s + e \in Nat /\ d + f \in Nat
    BY <2>2
  <2> QED
    BY <2>3, <2>4 DEF x, y
<1>9. Ahead(last + 1, ops[last].spos + Advances(ops[last].type)[1],
            ops[last].dpos + Advances(ops[last].type)[2])
  BY <1>6, AheadOfEnd
<1>10. Ahead(first + n, send, dend)
  <2>1. Advances(ops[last].type) = a
    BY <1>7 DEF a
  <2> HIDE DEF send, dend
  <2> QED
    BY <1>6, <1>8, <1>9, <2>1
<1> HIDE DEF send, dend
<1>11. /\ n \in 1..(Len(ops) - first + 1) /\ first + n \in 1..(Len(ops) + 1)
       /\ send \in Nat /\ dend \in Nat /\ Ahead(first + n, send, dend)
  BY <1>5, <1>6, <1>8, <1>10
<1> QED
  BY <1>1, <1>11, Zenon DEF send, dend, op, a

-----------------------------------------------------------------------------
(* Opcodes and matching blocks agree.                                      *)

\* The conversion is on the way of the operations, at the end of the opcodes.
Converting ==
    /\ o \in 1..(Len(ops) + 1) /\ spos \in Nat /\ dpos \in Nat
    /\ Ahead(o, spos, dpos)
    /\ Cover(string1, string2, opcodes, spos, dpos) /\ ~EndsKept(opcodes)
    /\ Made(opcodes, blocks)

\* When it is over the opcodes have covered the strings.
BlocksInv ==
    /\ stage \in {"start", "measured", "back", "count"} => opcodes = <<>> /\ blocks = <<>>
    /\ stage = "convert" => Converting
    /\ stage = "done" => /\ Cover(string1, string2, opcodes, Len(string1), Len(string2))
                         /\ Made(opcodes, blocks)

\* The operation that an iteration takes if it begins at operation p.
OpFrom(p) ==
    LET left == {n \in p..Len(ops) : ops[n].type # "keep"}
    IN  IF left = {} THEN 0 ELSE Min(left)

\* An iteration of the loop, which counts blocks or writes them.
Iteration(w) ==
    LET c   == OpFrom(w.o)
        op  == ops[c]
        n   == RunLength(c)
        gap == w.spos < op.spos \/ w.dpos < op.dpos
    IN  [o    |-> c + n,
         spos |-> op.spos + n * Advances(op.type)[1],
         dpos |-> op.dpos + n * Advances(op.type)[2],
         nbl  |-> w.nbl + One(gap) + 1,
         nmb  |-> w.nmb + One(gap)]

\* W is the way of the loop through the operations in its first k iterations.
Passes(W, k) ==
    /\ W[0] = [o |-> 1, spos |-> 0, dpos |-> 0, nbl |-> 0, nmb |-> 0]
    /\ \A n \in 0..(k - 1) : OpFrom(W[n].o) # 0 /\ W[n + 1] = Iteration(W[n])

\* How far the loop is when it counts, and when it writes.
Counting == [o |-> o, spos |-> spos, dpos |-> dpos, nbl |-> nbl, nmb |-> nmb]
Writing  == [o |-> o, spos |-> spos, dpos |-> dpos, nbl |-> Len(opcodes), nmb |-> Len(blocks)]

\* The counting goes the way that the conversion goes after it.
Counted(W, k) ==
    /\ OpFrom(W[k].o) = 0
    /\ LET last == One(W[k].spos < Len(string1) \/ W[k].dpos < Len(string2))
       IN  nbl = W[k].nbl + last /\ nmb = W[k].nmb + last

CountInv ==
    /\ stage \in {"start", "measured", "back"} =>
          Counting = [o |-> 1, spos |-> 0, dpos |-> 0, nbl |-> 0, nmb |-> 0]
    /\ stage = "count" => \E k \in Nat : \E W : Passes(W, k) /\ W[k] = Counting
    /\ stage = "convert" => \E k \in Nat : \E W :
          Passes(W, k) /\ Counted(W, k) /\ \E n \in 0..k : W[n] = Writing
    /\ stage = "done" => Len(opcodes) = nbl /\ Len(blocks) = nmb

\* The same letters make the same texts.
LEMMA DiagTexts ==
  ASSUME NEW a \in Seq(Letters), NEW b \in Seq(Letters), NEW x \in Nat, NEW y \in Nat,
         NEW u \in Nat, NEW v \in Nat, Diag(a, b, x, y, u, v), u <= Len(a), v <= Len(b)
  PROVE  SubSeq(a, x + 1, u) = SubSeq(b, y + 1, v)
<1>1. /\ x <= u /\ u + y = v + x /\ \A p \in (x + 1)..u : a[p] = b[(p + y) - x]
  BY DEF Diag
<1>2. Len(a) \in Nat /\ Len(b) \in Nat
  BY LenProperties
<1>3. /\ \A p \in (x + 1)..u : p \in 1..Len(a)
      /\ \A p \in (y + 1)..v : p \in 1..Len(b)
  <2> DEFINE n == Len(a)
             m == Len(b)
  <2>1. n \in Nat /\ m \in Nat /\ u <= n /\ v <= m
    BY <1>2
  <2> HIDE DEF n, m
  <2>2. \A p \in (x + 1)..u : p \in 1..n
    BY <2>1
  <2>3. \A p \in (y + 1)..v : p \in 1..m
    BY <2>1
  <2> QED
    BY <2>2, <2>3 DEF n, m
<1>4. /\ \A p \in (x + 1)..u : a[p] \in Letters
      /\ \A p \in (y + 1)..v : b[p] \in Letters
  BY <1>3, ElementOfSeq
<1> DEFINE k == x + 1
           l == y + 1
           s == SubSeq(a, k, u)
           t == SubSeq(b, l, v)
<1>5. k \in Int /\ l \in Int
  OBVIOUS
<1>6. \A p \in 1..(u - k + 1) :
         /\ k + p - 1 \in (x + 1)..u /\ ((k + p - 1) + y) - x = l + p - 1
  BY <1>1
<1>7. /\ u - k + 1 = v - l + 1
      /\ (IF k <= u THEN u - k + 1 ELSE 0) = (IF l <= v THEN v - l + 1 ELSE 0)
      /\ (IF k <= u THEN u - k + 1 ELSE 0) = u - k + 1
  BY <1>1
<1>8. \A p \in k..u : a[p] \in Letters
  BY <1>4
<1>9. \A p \in l..v : b[p] \in Letters
  BY <1>4
<1> HIDE DEF k, l
<1>10. /\ s \in Seq(Letters) /\ Len(s) = IF k <= u THEN u - k + 1 ELSE 0
       /\ \A p \in 1..(u - k + 1) : s[p] = a[k + p - 1]
  BY <1>5, <1>8, SubSeqProperties
<1>11. /\ t \in Seq(Letters) /\ Len(t) = IF l <= v THEN v - l + 1 ELSE 0
       /\ \A p \in 1..(v - l + 1) : t[p] = b[l + p - 1]
  BY <1>5, <1>9, SubSeqProperties
<1> HIDE DEF s, t
<1>12. Len(s) = Len(t)
  BY <1>7, <1>10, <1>11
<1>13. \A p \in 1..(u - k + 1) : s[p] = t[p]
  BY <1>1, <1>6, <1>7, <1>10, <1>11
<1>14. s = t
  <2>1. \A p \in 1..Len(s) : s[p] = t[p]
    BY <1>7, <1>10, <1>13
  <2> QED
    BY <1>10, <1>11, <1>12, <2>1, SeqEqual
<1> QED
  BY <1>14 DEF s, t, k, l

\* What has been covered is what BlocksAgree asks for.
LEMMA BlocksAgreeLocal == EditInv /\ BlocksInv /\ CountInv => BlocksAgree
<1> SUFFICES ASSUME EditInv, BlocksInv, CountInv PROVE BlocksAgree
  OBVIOUS
<1> DEFINE q == opcodes
           m == Len(q)
           ends == [n \in 0..m |-> IF n = 0 THEN <<0, 0>> ELSE <<q[n].send, q[n].dend>>]
<1> SUFFICES ASSUME stage = "done"
             PROVE  /\ \A n \in DOMAIN q :
                          /\ <<q[n].sbeg, q[n].dbeg>> = ends[n - 1]
                          /\ q[n].type = "keep" =>
                                SubSeq(string1, q[n].sbeg + 1, q[n].send)
                                  = SubSeq(string2, q[n].dbeg + 1, q[n].dend)
                    /\ ends[m] = <<Len(string1), Len(string2)>>
                    /\ blocks = OpcodesMatchingBlocks(q)
                    /\ m = nbl /\ Len(blocks) = nmb
  BY Zenon DEF BlocksAgree
<1>1. /\ string1 \in Seq(Letters) /\ string2 \in Seq(Letters)
      /\ Len(string1) \in Nat /\ Len(string2) \in Nat
  BY StringsType DEF EditInv
<1>2. /\ Cover(string1, string2, q, Len(string1), Len(string2))
      /\ Made(q, blocks)
  BY DEF BlocksInv
<1>3. q \in Seq(OpCodes)
  BY <1>2 DEF Cover
<1>4. m \in Nat /\ DOMAIN q = 1..m
  BY <1>3, LenProperties
<1>5. /\ \A n \in 1..m : /\ q[n].sbeg = SLast(q, n - 1) /\ q[n].dbeg = DLast(q, n - 1)
                         /\ KeepsEqual(string1, string2, q[n])
      /\ SLast(q, m) = Len(string1) /\ DLast(q, m) = Len(string2)
  BY <1>2 DEF Cover
<1>6. \A n \in 0..m : ends[n] = <<SLast(q, n), DLast(q, n)>>
  <2> HIDE DEF q, m
  <2> QED
    BY DEF SLast, DLast
<1> HIDE DEF ends, q, m
<1>7. ASSUME NEW n \in 1..m PROVE <<q[n].sbeg, q[n].dbeg>> = ends[n - 1]
  <2>1. n - 1 \in 0..m
    BY <1>4
  <2> QED
    BY <1>5, <1>6, <2>1
<1>8. ASSUME NEW n \in 1..m, q[n].type = "keep"
      PROVE  SubSeq(string1, q[n].sbeg + 1, q[n].send)
               = SubSeq(string2, q[n].dbeg + 1, q[n].dend)
  <2>1. q[n] \in OpCodes
    BY <1>3, ElementOfSeq DEF m
  <2>2. /\ q[n].sbeg \in Nat /\ q[n].dbeg \in Nat /\ q[n].send \in Nat /\ q[n].dend \in Nat
    BY <2>1 DEF OpCodes
  <2>3. /\ Diag(string1, string2, q[n].sbeg, q[n].dbeg, q[n].send, q[n].dend)
        /\ q[n].send <= Len(string1) /\ q[n].dend <= Len(string2)
    BY <1>5, <1>8 DEF KeepsEqual
  <2> DEFINE x == q[n].sbeg
             y == q[n].dbeg
             u == q[n].send
             v == q[n].dend
  <2>4. /\ x \in Nat /\ y \in Nat /\ u \in Nat /\ v \in Nat
        /\ Diag(string1, string2, x, y, u, v) /\ u <= Len(string1) /\ v <= Len(string2)
    BY <2>2, <2>3
  <2> HIDE DEF x, y, u, v
  <2>5. SubSeq(string1, x + 1, u) = SubSeq(string2, y + 1, v)
    BY <1>1, <2>4, DiagTexts, SMTT(30)
  <2> QED
    BY <2>5 DEF x, y, u, v
<1>9. ends[m] = <<Len(string1), Len(string2)>>
  <2>1. m \in 0..m
    BY <1>4
  <2> QED
    BY <1>5, <1>6, <2>1
<1>10. OpcodesMatchingBlocks(q) = blocks
  BY <1>1, <1>2, OpcodesMake
<1>11. m = nbl /\ Len(blocks) = nmb
  BY DEF CountInv, m, q
<1> QED
  BY <1>4, <1>7, <1>8, <1>9, <1>10, <1>11

\* A block for the letters kept before x and y, if there are any.
LEMMA GapCovered ==
  ASSUME NEW x \in Nat, NEW y \in Nat, spos \in Nat, dpos \in Nat,
         Diag(string1, string2, spos, dpos, x, y), x <= Len(string1), y <= Len(string2),
         Cover(string1, string2, opcodes, spos, dpos), ~EndsKept(opcodes),
         Made(opcodes, blocks),
         NEW gap, gap <=> (spos < x \/ dpos < y),
         NEW codes, codes = opcodes \o
           (IF gap THEN <<OpCode("keep", spos, x, dpos, y)>> ELSE <<>>),
         NEW made, made = blocks \o
           (IF gap THEN <<MatchingBlock(spos, dpos, x - spos)>> ELSE <<>>)
  PROVE  Cover(string1, string2, codes, x, y) /\ Made(codes, made)
<1>1. opcodes \in Seq(OpCodes)
  BY DEF Cover
<1>2. CASE gap
  <2> DEFINE op == OpCode("keep", spos, x, dpos, y)
  <2>1. /\ op \in OpCodes /\ op.type = "keep" /\ op.sbeg = spos /\ op.send = x
        /\ op.dbeg = dpos /\ op.dend = y
    BY DEF OpCode, OpCodes
  <2> HIDE DEF op
  <2>2. KeepsEqual(string1, string2, op)
    BY <2>1 DEF KeepsEqual
  <2>3. Cover(string1, string2, opcodes \o <<op>>, op.send, op.dend)
    BY <2>1, <2>2, CoverAppend
  <2>4. Made(opcodes \o <<op>>, blocks \o BlockOf(op))
    BY <1>1, <2>1, MadeAppend
  <2>5. BlockOf(op) = <<MatchingBlock(spos, dpos, x - spos)>>
    BY <2>1 DEF BlockOf
  <2>6. codes = opcodes \o <<op>> /\ made = blocks \o BlockOf(op)
    BY <1>2, <2>5 DEF op
  <2> QED
    BY <2>1, <2>3, <2>4, <2>6
<1>3. CASE ~gap
  <2>1. spos = x /\ dpos = y
    <3>1. spos <= x /\ x + dpos = y + spos /\ x <= spos
      BY <1>3 DEF Diag
    <3> QED
      BY <3>1
  <2>2. blocks \in Seq(BlockSet)
    <3>1. PICK f : Collects(opcodes, f) /\ blocks = f[Len(opcodes)]
      BY DEF Made
    <3>2. f \in [0..Len(opcodes) -> Seq(BlockSet)]
      BY <3>1 DEF Collects
    <3>3. Len(opcodes) \in 0..Len(opcodes)
      BY <1>1, LenProperties
    <3> QED
      BY <3>1, <3>2, <3>3
  <2>3. codes = opcodes
    BY <1>1, <1>3, ConcatEmptySeq
  <2>4. made = blocks
    BY <1>3, <2>2, ConcatEmptySeq
  <2> QED
    BY <2>1, <2>3, <2>4
<1> QED
  BY <1>2, <1>3

\* A step of the conversion goes from one operation of the way to a later one.
LEMMA ConvertBlocks ==
  ASSUME EditInv, OpsInv, BlocksInv, Convert
  PROVE  BlocksInv'
<1> DEFINE c == NextOp
           op == ops[c]
           n == RunLength(c)
           x == op.spos
           y == op.dpos
           send == x + n * Advances(op.type)[1]
           dend == y + n * Advances(op.type)[2]
           gap == spos < x \/ dpos < y
           codes == opcodes \o
             (IF gap THEN <<OpCode("keep", spos, x, dpos, y)>> ELSE <<>>)
           made == blocks \o
             (IF gap THEN <<MatchingBlock(spos, dpos, x - spos)>> ELSE <<>>)
           code == OpCode(op.type, x, send, y, dend)
<1>1. /\ stage = "convert" /\ c # 0
      /\ opcodes' = codes \o <<code>> /\ blocks' = made
      /\ o' = c + n /\ spos' = send /\ dpos' = dend
      /\ UNCHANGED <<string1, string2, stage, ops>>
  BY Zenon DEF Convert, PassRun, Gap, inputs
<1>2. Converting /\ OpsWay(ops)
  BY <1>1 DEF OpsInv, BlocksInv
<1>3. /\ o \in 1..(Len(ops) + 1) /\ spos \in Nat /\ dpos \in Nat /\ Ahead(o, spos, dpos)
      /\ Cover(string1, string2, opcodes, spos, dpos) /\ ~EndsKept(opcodes)
      /\ Made(opcodes, blocks)
  BY <1>2 DEF Converting
<1>4. Len(string1) \in Nat /\ Len(string2) \in Nat /\ ops \in Seq(Steps) /\ Len(ops) \in Nat
  <2>1. ops \in Seq(Steps)
    BY <1>2 DEF OpsWay, Way
  <2> QED
    BY <2>1, RestIsCutOut, LenProperties DEF EditInv
<1>5. /\ c \in o..Len(ops) /\ op.type # "keep"
      /\ \A k \in o..(c - 1) : ops[k].type = "keep"
  BY <1>1, <1>3, <1>4, NextOpSkips
<1>6. c \in 1..Len(ops) /\ c \in o..(Len(ops) + 1) /\ ~ (c > Len(ops))
  <2> HIDE DEF c
  <2> QED
    BY <1>3, <1>4, <1>5
<1>7. /\ op \in Steps /\ x \in Nat /\ y \in Nat /\ Inside(string1, string2, op)
  <2> HIDE DEF c
  <2> QED
    BY <1>2, <1>6, AheadOfEnd
<1>8. Ahead(c, spos, dpos)
  <2> HIDE DEF c
  <2> QED
    BY <1>2, <1>3, <1>4, <1>5, <1>6, SkipKeeps
<1>9. Diag(string1, string2, spos, dpos, x, y)
  <2> HIDE DEF c
  <2> QED
    BY <1>6, <1>8 DEF Ahead, SBeg, DBeg
<1>10. x <= Len(string1) /\ y <= Len(string2)
  <2>1. /\ x + Advances(op.type)[1] <= Len(string1)
        /\ y + Advances(op.type)[2] <= Len(string2)
    BY <1>7 DEF Inside
  <2>2. Advances(op.type)[1] \in {0, 1} /\ Advances(op.type)[2] \in {0, 1}
    BY AdvancesBits
  <2> HIDE DEF x, y, op
  <2> QED
    BY <1>4, <1>7, <2>1, <2>2
<1>11. /\ c + n \in 1..(Len(ops) + 1) /\ send \in Nat /\ dend \in Nat
       /\ Ahead(c + n, send, dend)
  <2>1. LET r == RunLength(c)
            s == ops[c].spos + r * Advances(ops[c].type)[1]
            d == ops[c].dpos + r * Advances(ops[c].type)[2]
        IN  /\ r \in 1..(Len(ops) - c + 1) /\ c + r \in 1..(Len(ops) + 1)
            /\ s \in Nat /\ d \in Nat /\ Ahead(c + r, s, d)
    <3> HIDE DEF c
    <3> QED
      BY <1>2, <1>6, RunLeads
  <2> HIDE DEF c
  <2> QED
    BY <2>1, Zenon
<1> HIDE DEF c, op, n, x, y, send, dend
<1>12. Cover(string1, string2, codes, x, y) /\ Made(codes, made)
  <2> HIDE DEF gap
  <2>1. gap <=> (spos < x \/ dpos < y)
    BY DEF gap
  <2> HIDE DEF codes, made
  <2>2. codes = opcodes \o (IF gap THEN <<OpCode("keep", spos, x, dpos, y)>> ELSE <<>>)
    BY Zenon DEF codes
  <2>3. made = blocks \o (IF gap THEN <<MatchingBlock(spos, dpos, x - spos)>> ELSE <<>>)
    BY Zenon DEF made
  <2> QED
    BY <1>3, <1>7, <1>9, <1>10, <2>1, <2>2, <2>3, GapCovered
<1> HIDE DEF codes, made
<1>13. /\ code \in OpCodes /\ code.type # "keep" /\ code.sbeg = x /\ code.send = send
       /\ code.dbeg = y /\ code.dend = dend
  <2>1. op.type \in {"insert", "delete", "replace", "keep"}
    BY <1>7 DEF Steps
  <2> QED
    BY <1>5, <1>7, <1>11, <2>1 DEF OpCode, OpCodes
<1> HIDE DEF code
<1>14. /\ Cover(string1, string2, codes \o <<code>>, send, dend)
       /\ ~EndsKept(codes \o <<code>>)
  <2>1. KeepsEqual(string1, string2, code)
    BY <1>13 DEF KeepsEqual
  <2>2. Cover(string1, string2, codes \o <<code>>, code.send, code.dend)
        /\ (EndsKept(codes \o <<code>>) <=> code.type = "keep")
    BY <1>7, <1>12, <1>13, <2>1, CoverAppend
  <2> QED
    BY <1>13, <2>2
<1>15. Made(codes \o <<code>>, made)
  <2>1. codes \in Seq(OpCodes)
    BY <1>12 DEF Cover
  <2>2. Made(codes \o <<code>>, made \o BlockOf(code)) /\ made \in Seq(BlockSet)
    BY <1>12, <1>13, <2>1, MadeAppend
  <2>3. made \o BlockOf(code) = made
    BY <1>13, <2>2, ConcatEmptySeq DEF BlockOf
  <2> QED
    BY <2>2, <2>3
<1>16. Converting'
  BY <1>1, <1>11, <1>14, <1>15, Zenon DEF Converting, Ahead
<1> QED
  BY <1>1, <1>16 DEF BlocksInv

\* The last step goes to the end of the strings.
LEMMA ConvertRestBlocks ==
  ASSUME EditInv, OpsInv, BlocksInv, ConvertRest
  PROVE  BlocksInv'
<1> DEFINE x == Len(string1)
           y == Len(string2)
           rest == spos < x \/ dpos < y
<1>1. /\ stage = "convert" /\ NextOp = 0 /\ stage' = "done"
      /\ opcodes' = opcodes \o
           (IF rest THEN <<OpCode("keep", spos, x, dpos, y)>> ELSE <<>>)
      /\ blocks' = blocks \o
           (IF rest THEN <<MatchingBlock(spos, dpos, x - spos)>> ELSE <<>>)
      /\ string1' = string1 /\ string2' = string2
  BY Zenon DEF ConvertRest, LastGap, inputs
<1>2. Converting /\ OpsWay(ops)
  BY <1>1 DEF OpsInv, BlocksInv
<1>3. /\ o \in 1..(Len(ops) + 1) /\ spos \in Nat /\ dpos \in Nat /\ Ahead(o, spos, dpos)
      /\ Cover(string1, string2, opcodes, spos, dpos) /\ ~EndsKept(opcodes)
      /\ Made(opcodes, blocks)
  BY <1>2 DEF Converting
<1>4. x \in Nat /\ y \in Nat /\ ops \in Seq(Steps) /\ Len(ops) \in Nat
  <2>1. ops \in Seq(Steps)
    BY <1>2 DEF OpsWay, Way
  <2> QED
    BY <2>1, RestIsCutOut, LenProperties DEF EditInv
<1>5. \A k \in o..Len(ops) : ops[k].type = "keep"
  BY <1>1, <1>3, <1>4, NextOpSkips
<1> DEFINE t == Len(ops) + 1
<1>6. t \in o..(Len(ops) + 1) /\ t - 1 = Len(ops) /\ t > Len(ops)
  BY <1>3, <1>4
<1> HIDE DEF t
<1>7. Ahead(t, spos, dpos)
  BY <1>2, <1>3, <1>4, <1>5, <1>6, SkipKeeps
<1>8. Diag(string1, string2, spos, dpos, x, y)
  BY <1>6, <1>7 DEF Ahead, SBeg, DBeg
<1>9. x <= Len(string1) /\ y <= Len(string2)
  BY <1>4
<1> HIDE DEF x, y
<1>10. rest <=> (spos < x \/ dpos < y)
  OBVIOUS
<1> HIDE DEF rest
<1>11. Cover(string1, string2, opcodes', x, y) /\ Made(opcodes', blocks')
  BY <1>1, <1>3, <1>4, <1>8, <1>9, <1>10, GapCovered
<1> QED
  BY <1>1, <1>11 DEF BlocksInv, x, y

\* The conversion begins at the beginning of the way.
LEMMA CountRestBlocks ==
  ASSUME BlocksInv, OpsInv', CountRest
  PROVE  BlocksInv'
<1>1. /\ stage = "count" /\ stage' = "convert"
      /\ string1' = string1 /\ string2' = string2
      /\ o' = 1 /\ spos' = 0 /\ dpos' = 0
      /\ UNCHANGED <<opcodes, blocks>>
  BY DEF CountRest, inputs
<1>2. /\ o' = 1 /\ spos' = 0 /\ dpos' = 0 /\ opcodes' = <<>> /\ blocks' = <<>>
  BY <1>1 DEF BlocksInv
<1>3. OpsWay(ops)'
  BY <1>1 DEF OpsInv
<1> DEFINE q == ops'
           a == string1'
           b == string2'
<1>4. Way(a, b, q, 0, 0, Len(a), Len(b))
  BY <1>3 DEF OpsWay
<1> HIDE DEF q, a, b
<1>5. q \in Seq(Steps) /\ Len(q) \in Nat
  BY <1>4, LenProperties DEF Way
<1>6. Diag(a, b, 0, 0, SBeg(q, 1, Len(a)), DBeg(q, 1, Len(b)))
  <2>1. 0 \in 0..Len(q) /\ 0 + 1 = 1
    BY <1>5
  <2>2. SEnd(q, 0, 0) = 0 /\ DEnd(q, 0, 0) = 0
    BY DEF SEnd, DEnd
  <2> QED
    BY <1>4, <2>1, <2>2 DEF Way
<1>7. Ahead(o, spos, dpos)'
  BY <1>2, <1>6 DEF Ahead, q, a, b
<1>8. o' \in 1..(Len(ops') + 1) /\ spos' \in Nat /\ dpos' \in Nat
  BY <1>2, <1>5 DEF q
<1>9. /\ Cover(string1', string2', opcodes', spos', dpos') /\ ~EndsKept(opcodes')
      /\ Made(opcodes', blocks')
  BY <1>2, CoverEmpty
<1>10. Converting'
  BY <1>7, <1>8, <1>9 DEF Converting
<1> QED
  BY <1>1, <1>10 DEF BlocksInv

\* No other step touches the opcodes.
LEMMA NextBlocksInv ==
  ASSUME EditInv, OpsInv, OpsInv', BlocksInv, [Next]_vars
  PROVE  BlocksInv'
<1>1. CASE Measure
  <2>1. /\ stage = "start" /\ stage' = "measured"
        /\ UNCHANGED <<opcodes, blocks>>
    BY <1>1 DEF Measure, outputVars
  <2> QED
    BY <2>1 DEF BlocksInv
<1>2. CASE FillMatrix
  <2>1. /\ stage = "measured" /\ stage' = "back"
        /\ UNCHANGED <<opcodes, blocks>>
    BY <1>2 DEF FillMatrix, outputVars
  <2> QED
    BY <2>1 DEF BlocksInv
<1>3. CASE Insert \/ Delete \/ Keep \/ Replace
  <2>1. /\ stage = "back" /\ stage' = "back"
        /\ UNCHANGED <<opcodes, blocks>>
    BY <1>3 DEF Insert, Delete, Keep, Replace, Back, outputVars
  <2> QED
    BY <2>1 DEF BlocksInv
<1>4. CASE Found \/ Count
  <2>1. /\ stage \in {"back", "count"} /\ stage' = "count"
        /\ UNCHANGED <<opcodes, blocks>>
    BY <1>4 DEF Found, Count, outputVars
  <2> QED
    BY <2>1 DEF BlocksInv
<1>5. CASE Convert
  BY <1>5, ConvertBlocks
<1>6. CASE ConvertRest
  BY <1>6, ConvertRestBlocks
<1>7. CASE CountRest
  BY <1>7, CountRestBlocks
<1>8. CASE UNCHANGED vars
  <2>1. UNCHANGED <<string1, string2, stage, ops, o, spos, dpos, opcodes, blocks>>
    BY <1>8 DEF vars, inputs, outputVars
  <2> QED
    BY <2>1 DEF BlocksInv, Converting, Ahead
<1> QED
  BY <1>1, <1>2, <1>3, <1>4, <1>5, <1>6, <1>7, <1>8 DEF Next

\* The conversion keeps to the way in every state.
THEOREM BlocksInvariant == Spec => []BlocksInv
<1>1. Init => BlocksInv
  BY DEF Init, BlocksInv
<1>2. EditInv /\ OpsInv /\ OpsInv' /\ BlocksInv /\ [Next]_vars => BlocksInv'
  BY NextBlocksInv
<1> QED
  BY <1>1, <1>2, EditInvariant, OpsInvariant, PTL DEF Spec

-----------------------------------------------------------------------------
(* What is counted is what is written.                                     *)

\* The way of the loop depends on nothing but the operations.
LEMMA SameIterations ==
  ASSUME ops' = ops
  PROVE  /\ \A p : OpFrom(p)' = OpFrom(p)
         /\ \A w : Iteration(w)' = Iteration(w)
<1>1. \A c : RunLength(c)' = RunLength(c)
  BY DEF RunLength
<1>2. \A p : OpFrom(p)' = OpFrom(p)
  BY DEF OpFrom
<1> QED
  BY <1>1, <1>2 DEF Iteration

\* So does what its first iterations have counted.
LEMMA SamePasses ==
  ASSUME ops' = ops, NEW W, NEW k \in Nat, Passes(W, k)
  PROVE  Passes(W, k)'
<1>1. /\ W[0] = [o |-> 1, spos |-> 0, dpos |-> 0, nbl |-> 0, nmb |-> 0]
      /\ \A n \in 0..(k - 1) : OpFrom(W[n].o) # 0 /\ W[n + 1] = Iteration(W[n])
  BY DEF Passes
<1>2. \A n \in 0..(k - 1) : OpFrom(W[n].o)' # 0 /\ W[n + 1] = Iteration(W[n])'
  BY <1>1, SameIterations
<1> QED
  BY <1>1, <1>2 DEF Passes

\* An iteration goes on from where the last one has led.
LEMMA PassOn ==
  ASSUME NextOp # 0, PassRun, ops' = ops
  PROVE  /\ OpFrom(o) # 0
         /\ \A w : w.o = o /\ w.spos = spos /\ w.dpos = dpos =>
              Iteration(w) = [o |-> o', spos |-> spos', dpos |-> dpos',
                              nbl |-> w.nbl + One(Gap) + 1, nmb |-> w.nmb + One(Gap)]
<1>1. NextOp = OpFrom(o)
  BY DEF NextOp, OpFrom
<1> QED
  BY <1>1 DEF PassRun, Iteration, Gap

\* The counting begins at the first operation.
LEMMA FoundCounts ==
  ASSUME CountInv, Found
  PROVE  CountInv'
<1>1. /\ stage = "back" /\ stage' = "count"
      /\ UNCHANGED <<o, spos, dpos, nbl, nmb>>
  BY DEF Found, outputVars
<1>2. Counting' = [o |-> 1, spos |-> 0, dpos |-> 0, nbl |-> 0, nmb |-> 0]
  BY <1>1 DEF CountInv, Counting
<1>3. PICK W : W[0] = Counting'
  <2> DEFINE w == [n \in 0..0 |-> Counting']
  <2>1. w[0] = Counting'
    OBVIOUS
  <2> HIDE DEF w
  <2> QED
    BY <2>1
<1>4. Passes(W, 0)' /\ W[0] = Counting'
  BY <1>2, <1>3 DEF Passes
<1>5. 0 \in Nat
  OBVIOUS
<1> QED
  BY <1>1, <1>4, <1>5 DEF CountInv

\* An iteration that counts is one more of the way.
LEMMA CountCounts ==
  ASSUME CountInv, Count
  PROVE  CountInv'
<1>1. /\ stage = "count" /\ stage' = "count" /\ NextOp # 0 /\ PassRun /\ ops' = ops
      /\ nbl' = nbl + One(Gap) + 1 /\ nmb' = nmb + One(Gap)
  BY DEF Count
<1>2. PICK k \in Nat : \E V : Passes(V, k) /\ V[k] = Counting
  BY <1>1 DEF CountInv
<1>3. PICK V : Passes(V, k) /\ V[k] = Counting
  BY <1>2
<1>4. PICK W : W[k + 1] = Counting' /\ \A n \in 0..k : W[n] = V[n]
  <2> DEFINE w == [n \in 0..(k + 1) |-> IF n <= k THEN V[n] ELSE Counting']
  <2>1. w[k + 1] = Counting' /\ \A n \in 0..k : w[n] = V[n]
    BY <1>2, <1>3
  <2> HIDE DEF w
  <2> QED
    BY <2>1
<1>5. OpFrom(V[k].o) # 0 /\ Counting' = Iteration(V[k])
  <2>1. V[k].o = o /\ V[k].spos = spos /\ V[k].dpos = dpos /\ V[k].nbl = nbl /\ V[k].nmb = nmb
    BY <1>2, <1>3 DEF Counting
  <2> QED
    BY <1>1, <2>1, PassOn DEF Counting
<1>6. Passes(W, k + 1)
  <2>1. /\ V[0] = [o |-> 1, spos |-> 0, dpos |-> 0, nbl |-> 0, nmb |-> 0]
        /\ \A n \in 0..(k - 1) : OpFrom(V[n].o) # 0 /\ V[n + 1] = Iteration(V[n])
    BY <1>2, <1>3 DEF Passes
  <2>2. 0 \in 0..k /\ W[0] = V[0]
    BY <1>2, <1>3, <1>4
  <2>3. ASSUME NEW n \in 0..((k + 1) - 1)
        PROVE  OpFrom(W[n].o) # 0 /\ W[n + 1] = Iteration(W[n])
    <3>1. n \in 0..k /\ W[n] = V[n]
      BY <1>2, <1>3, <1>4, <2>3
    <3>2. CASE n = k
      BY <1>4, <1>5, <3>1, <3>2
    <3>3. CASE n # k
      <4>1. n \in 0..(k - 1) /\ n + 1 \in 0..k
        BY <1>2, <1>3, <3>1, <3>3
      <4>2. W[n + 1] = V[n + 1]
        BY <1>4, <4>1
      <4> QED
        BY <2>1, <3>1, <4>1, <4>2
    <3> QED
      BY <3>2, <3>3
  <2> QED
    BY <2>1, <2>2, <2>3 DEF Passes
<1>7. Passes(W, k + 1)' /\ k + 1 \in Nat
  BY <1>1, <1>2, <1>3, <1>6, SamePasses
<1> QED
  BY <1>1, <1>4, <1>7 DEF CountInv

\* The conversion begins where the counting began.
LEMMA CountRestCounts ==
  ASSUME CountInv, BlocksInv, CountRest
  PROVE  CountInv'
<1>1. /\ stage = "count" /\ stage' = "convert" /\ NextOp = 0 /\ ops' = ops
      /\ nbl' = nbl + One(LastGap) /\ nmb' = nmb + One(LastGap)
      /\ o' = 1 /\ spos' = 0 /\ dpos' = 0 /\ opcodes' = opcodes /\ blocks' = blocks
      /\ string1' = string1 /\ string2' = string2
  BY DEF CountRest, inputs
<1>2. PICK k \in Nat : \E W : Passes(W, k) /\ W[k] = Counting
  BY <1>1 DEF CountInv
<1>3. PICK W : Passes(W, k) /\ W[k] = Counting
  BY <1>2
<1>4. W[k].o = o /\ W[k].spos = spos /\ W[k].dpos = dpos /\ W[k].nbl = nbl /\ W[k].nmb = nmb
  BY <1>2, <1>3 DEF Counting
<1>5. Counted(W, k)'
  <2>1. OpFrom(W[k].o) = 0
    BY <1>1, <1>4 DEF NextOp, OpFrom
  <2>2. OpFrom(W[k].o)' = 0
    BY <1>1, <2>1, SameIterations
  <2> QED
    BY <1>1, <1>4, <2>2 DEF Counted, LastGap
<1>6. 0 \in 0..k /\ W[0] = Writing'
  <2>1. opcodes = <<>> /\ blocks = <<>> /\ Len(<<>>) = 0
    BY <1>1 DEF BlocksInv
  <2>2. W[0] = [o |-> 1, spos |-> 0, dpos |-> 0, nbl |-> 0, nmb |-> 0]
    BY <1>2, <1>3 DEF Passes
  <2> QED
    BY <1>1, <1>2, <1>3, <2>1, <2>2 DEF Writing
<1>7. Passes(W, k)'
  BY <1>1, <1>2, <1>3, SamePasses
<1> QED
  BY <1>1, <1>5, <1>6, <1>7 DEF CountInv

\* What has been written so far is a sequence.
LEMMA WrittenType ==
  ASSUME BlocksInv, stage = "convert"
  PROVE  opcodes \in Seq(OpCodes) /\ blocks \in Seq(BlockSet)
<1>1. opcodes \in Seq(OpCodes) /\ Made(opcodes, blocks)
  BY DEF BlocksInv, Converting, Cover
<1>2. PICK f : Collects(opcodes, f) /\ blocks = f[Len(opcodes)]
  BY <1>1 DEF Made
<1>3. f \in [0..Len(opcodes) -> Seq(BlockSet)]
  BY <1>2 DEF Collects
<1>4. Len(opcodes) \in 0..Len(opcodes)
  BY <1>1, LenProperties
<1> QED
  BY <1>1, <1>2, <1>3, <1>4

\* An iteration that writes is one of those that have counted.
LEMMA ConvertCounts ==
  ASSUME CountInv, BlocksInv, BlocksInv', Convert
  PROVE  CountInv'
<1>1. /\ stage = "convert" /\ stage' = "convert" /\ NextOp # 0 /\ PassRun /\ ops' = ops
      /\ string1' = string1 /\ string2' = string2 /\ nbl' = nbl /\ nmb' = nmb
  BY DEF Convert, inputs
<1>2. PICK k \in Nat : \E W : Passes(W, k) /\ Counted(W, k) /\ \E n \in 0..k : W[n] = Writing
  BY <1>1 DEF CountInv
<1>3. PICK W : Passes(W, k) /\ Counted(W, k) /\ \E n \in 0..k : W[n] = Writing
  BY <1>2
<1>4. PICK n \in 0..k : W[n] = Writing
  BY <1>2, <1>3
<1>5. /\ W[n].o = o /\ W[n].spos = spos /\ W[n].dpos = dpos
      /\ W[n].nbl = Len(opcodes) /\ W[n].nmb = Len(blocks)
  BY <1>4 DEF Writing
<1>6. OpFrom(W[n].o) # 0
  BY <1>1, <1>5, PassOn
<1>7. n \in 0..(k - 1) /\ n + 1 \in 0..k
  BY <1>2, <1>3, <1>4, <1>6 DEF Counted
<1>8. Len(opcodes') = Len(opcodes) + One(Gap) + 1 /\ Len(blocks') = Len(blocks) + One(Gap)
  <2> DEFINE op    == ops[NextOp]
             code  == OpCode("keep", spos, op.spos, dpos, op.dpos)
             last  == OpCode(op.type, op.spos, spos', op.dpos, dpos')
             block == MatchingBlock(spos, dpos, op.spos - spos)
  <2>1. /\ opcodes' = opcodes \o (IF Gap THEN <<code>> ELSE <<>>) \o <<last>>
        /\ blocks' = blocks \o (IF Gap THEN <<block>> ELSE <<>>)
    BY Zenon DEF Convert
  <2>2. opcodes \in Seq(OpCodes) /\ blocks \in Seq(BlockSet)
    BY <1>1, WrittenType
  <2> HIDE DEF code, last, block
  <2>3. \A S : \A q \in Seq(S) : \A x, y :
          /\ Len(q \o <<>>) = Len(q)
          /\ Len(q \o <<x>>) = Len(q) + 1
          /\ Len((q \o <<>>) \o <<y>>) = Len(q) + 1
          /\ Len((q \o <<x>>) \o <<y>>) = Len(q) + 1 + 1
    OBVIOUS
  <2>4. CASE Gap
    BY <2>1, <2>2, <2>3, <2>4 DEF One
  <2>5. CASE ~Gap
    BY <2>1, <2>2, <2>3, <2>5, LenProperties DEF One
  <2> QED
    BY <2>4, <2>5
<1>9. W[n + 1] = Writing'
  <2>1. W[n + 1] = Iteration(W[n])
    BY <1>2, <1>3, <1>7 DEF Passes
  <2>2. Iteration(W[n]) = [o |-> o', spos |-> spos', dpos |-> dpos',
                           nbl |-> W[n].nbl + One(Gap) + 1, nmb |-> W[n].nmb + One(Gap)]
    BY <1>1, <1>5, PassOn
  <2> QED
    BY <1>5, <1>8, <2>1, <2>2 DEF Writing
<1>10. Passes(W, k)' /\ Counted(W, k)'
  <2>1. OpFrom(W[k].o)' = OpFrom(W[k].o)
    BY <1>1, SameIterations
  <2> QED
    BY <1>1, <1>2, <1>3, <2>1, SamePasses DEF Counted
<1> QED
  BY <1>1, <1>7, <1>9, <1>10 DEF CountInv

\* Where the counting has ended the conversion ends.
LEMMA ConvertRestCounts ==
  ASSUME CountInv, BlocksInv, ConvertRest
  PROVE  CountInv'
<1>1. /\ stage = "convert" /\ stage' = "done" /\ NextOp = 0 /\ nbl' = nbl /\ nmb' = nmb
  BY DEF ConvertRest
<1>2. PICK k \in Nat : \E W : Passes(W, k) /\ Counted(W, k) /\ \E n \in 0..k : W[n] = Writing
  BY <1>1 DEF CountInv
<1>3. PICK W : Passes(W, k) /\ Counted(W, k) /\ \E n \in 0..k : W[n] = Writing
  BY <1>2
<1>4. PICK n \in 0..k : W[n] = Writing
  BY <1>2, <1>3
<1>5. OpFrom(W[n].o) = 0
  BY <1>1, <1>4 DEF Writing, NextOp, OpFrom
<1>6. n = k
  <2>1. n \in 0..(k - 1) => OpFrom(W[n].o) # 0
    BY <1>2, <1>3 DEF Passes
  <2> QED
    BY <1>2, <1>3, <1>4, <1>5, <2>1
<1>7. nbl = Len(opcodes) + One(LastGap) /\ nmb = Len(blocks) + One(LastGap)
  BY <1>2, <1>3, <1>4, <1>6 DEF Counted, Writing, LastGap
<1>8. Len(opcodes') = Len(opcodes) + One(LastGap) /\ Len(blocks') = Len(blocks) + One(LastGap)
  <2> DEFINE code  == OpCode("keep", spos, Len(string1), dpos, Len(string2))
             block == MatchingBlock(spos, dpos, Len(string1) - spos)
  <2>1. /\ opcodes' = opcodes \o (IF LastGap THEN <<code>> ELSE <<>>)
        /\ blocks' = blocks \o (IF LastGap THEN <<block>> ELSE <<>>)
    BY Zenon DEF ConvertRest
  <2>2. opcodes \in Seq(OpCodes) /\ blocks \in Seq(BlockSet)
    BY <1>1, WrittenType
  <2> HIDE DEF code, block
  <2>3. \A S : \A q \in Seq(S) : \A x :
          Len(q \o <<>>) = Len(q) + 0 /\ Len(q \o <<x>>) = Len(q) + 1
    OBVIOUS
  <2> QED
    BY <2>1, <2>2, <2>3 DEF One
<1> QED
  BY <1>1, <1>7, <1>8 DEF CountInv

\* Every step keeps it.
LEMMA NextCountInv ==
  ASSUME CountInv, BlocksInv, BlocksInv', [Next]_vars
  PROVE  CountInv'
<1>1. CASE Measure \/ FillMatrix \/ Insert \/ Delete \/ Keep \/ Replace
  <2>1. /\ stage \in {"start", "measured", "back"} /\ stage' \in {"measured", "back"}
        /\ UNCHANGED <<o, spos, dpos, nbl, nmb>>
    BY <1>1 DEF Measure, FillMatrix, Insert, Delete, Keep, Replace, Back, outputVars
  <2> QED
    BY <2>1 DEF CountInv, Counting
<1>2. CASE Found
  BY <1>2, FoundCounts
<1>3. CASE Count
  BY <1>3, CountCounts
<1>4. CASE CountRest
  BY <1>4, CountRestCounts
<1>5. CASE Convert
  BY <1>5, ConvertCounts
<1>6. CASE ConvertRest
  BY <1>6, ConvertRestCounts
<1>7. CASE UNCHANGED vars
  <2>1. /\ UNCHANGED <<string1, string2, stage, ops, o, spos, dpos, nbl, nmb, opcodes, blocks>>
    BY <1>7 DEF vars, inputs, outputVars
  <2>2. \A W : \A k \in Nat : Passes(W, k) => Passes(W, k)'
    BY <2>1, SamePasses
  <2>3. \A W, k : OpFrom(W[k].o)' = OpFrom(W[k].o)
    BY <2>1, SameIterations
  <2>4. Counting' = Counting /\ Writing' = Writing
    BY <2>1 DEF Counting, Writing
  <2>5. \A W, k : Counted(W, k) => Counted(W, k)'
    BY <2>1, <2>3 DEF Counted
  <2> QED
    BY <2>1, <2>2, <2>4, <2>5 DEF CountInv
<1> QED
  BY <1>1, <1>2, <1>3, <1>4, <1>5, <1>6, <1>7 DEF Next

\* The conversion writes in the memory that the counting asks for in every state.
THEOREM CountInvariant == Spec => []CountInv
<1>1. Init => CountInv
  BY DEF Init, CountInv, Counting
<1>2. CountInv /\ BlocksInv /\ BlocksInv' /\ [Next]_vars => CountInv'
  BY NextCountInv
<1> QED
  BY <1>1, <1>2, BlocksInvariant, PTL DEF Spec

\* The opcodes cover both strings without a gap or an overlap, those that keep
\* letters cover equal texts, and lev_opcodes_matching_blocks and
\* lev_editops_matching_blocks make the same blocks, for all strings and with
\* the keep operations or without them. As many opcodes and blocks are written
\* as the functions have counted before they asked for memory.
THEOREM BlocksCorrect == Spec => []BlocksAgree
  BY EditInvariant, BlocksInvariant, CountInvariant, BlocksAgreeLocal, PTL
=============================================================================
