----------------------------- MODULE Levenshtein -----------------------------
(***************************************************************************)
(* The edit distances of levenshtein.cpp: the string is read row by row    *)
(* over one array of costs, after the parts that both strings have in      *)
(* common at their ends are cut off.                                       *)
(*                                                                         *)
(* A string is a sequence of letters, counted from 1; a row of costs is a  *)
(* function on 0..Len(b), its cell j the cost for the first j letters of   *)
(* the longer string b.                                                    *)
(***************************************************************************)
EXTENDS Integers, Sequences, FiniteSetsExt, SequencesExt

Differ(c, d) == IF c = d THEN 0 ELSE 1

CommonLength(a, b) == Len(LongestCommonPrefix({a, b}))

\* What the common prefix leaves of the strings, without its common suffix.
Strip(string1, string2) ==
    LET prefix == CommonLength(string1, string2)
        a      == SubSeq(string1, prefix + 1, Len(string1))
        b      == SubSeq(string2, prefix + 1, Len(string2))
        suffix == CommonLength(Reverse(a), Reverse(b))
    IN  [offset |-> prefix,
         first  |-> SubSeq(a, 1, Len(a) - suffix),
         second |-> SubSeq(b, 1, Len(b) - suffix)]

\* Row i of the costs without replacements, from the row before; c is the
\* letter i of the shorter string.
XRow(row, i, c, b) ==
    LET next[j \in 0..Len(b)] ==
          IF j = 0 THEN i
          ELSE Min({IF c = b[j] THEN row[j - 1] ELSE next[j - 1] + 1, row[j] + 1})
    IN  next

XDistance(a, b) ==
    LET rows[i \in 0..Len(a)] ==
          IF i = 0 THEN [j \in 0..Len(b) |-> j] ELSE XRow(rows[i - 1], i, a[i], b)
    IN  rows[Len(a)][Len(b)]

\* A mutant of BandRow: the last cell of a row takes the cell above it.
BandRowReadsCorner(row, i, a, b) ==
    LET half == (Len(a) + 1) \div 2
        skip == i >= Len(a) + 1 - half
        low  == IF skip THEN i - (Len(a) + 1 - half) + 1 ELSE 1
        high == IF i <= half THEN Len(b) + i - half ELSE Len(b)
        diagonal(j) == IF j = 1 /\ ~skip THEN i - 1 ELSE row[j - 1]
        next[j \in low..high] ==
           Min({diagonal(j) + Differ(a[i], b[j]), row[j] + 1}
                \cup (IF j > low THEN {next[j - 1] + 1}
                      ELSE IF skip THEN {} ELSE {i + 1}))
    IN  [j \in DOMAIN row |-> IF j \in low..high THEN next[j] ELSE row[j]]

\* With replacements two corner triangles of the matrix are left out: in row i
\* the cells below low and above high keep what they had. The last cell of a
\* row that ends at the triangle has no cell above it.
BandRow(row, i, a, b) ==
    LET half == (Len(a) + 1) \div 2
        skip == i >= Len(a) + 1 - half
        low  == IF skip THEN i - (Len(a) + 1 - half) + 1 ELSE 1
        high == IF i <= half THEN Len(b) + i - half ELSE Len(b)
        diagonal(j) == IF j = 1 /\ ~skip THEN i - 1 ELSE row[j - 1]
        above(j)    == IF j = high /\ i <= half THEN {} ELSE {row[j] + 1}
        next[j \in low..high] ==
           Min({diagonal(j) + Differ(a[i], b[j])} \cup above(j)
                \cup (IF j > low THEN {next[j - 1] + 1}
                      ELSE IF skip THEN {} ELSE {i + 1}))
    IN  [j \in DOMAIN row |-> IF j \in low..high THEN next[j] ELSE row[j]]

\* The row comes from malloc: the cells of the corner hold garbage.
BandDistance(a, b, garbage) ==
    LET half == (Len(a) + 1) \div 2
        first == [j \in 0..Len(b) |-> IF j = 0 THEN Len(a) - half
                                      ELSE IF j <= Len(b) - half THEN j
                                      ELSE garbage]
        rows[i \in 0..Len(a)] ==
          IF i = 0 THEN first ELSE BandRow(rows[i - 1], i, a, b)
    IN  rows[Len(a)][Len(b)]

\* The stripped strings, the shorter one first.
Ordered(string1, string2) ==
    LET rest == Strip(string1, string2)
    IN  IF Len(rest.first) <= Len(rest.second)
        THEN <<rest.first, rest.second>> ELSE <<rest.second, rest.first>>

ManyLetters(a, b, xcost, garbage) ==
    IF xcost THEN XDistance(a, b) ELSE BandDistance(a, b, garbage)

\* lev_edit_distance; with xcost a replacement counts as two operations.
LevEditDistance(string1, string2, xcost, garbage) ==
    LET a == Ordered(string1, string2)[1]
        b == Ordered(string1, string2)[2]
        found == IF a[1] \in ToSet(b) THEN 1 ELSE 0
    IN  CASE Len(a) = 0 -> Len(b)
          [] Len(a) = 1 -> IF xcost THEN Len(b) + 1 - 2 * found ELSE Len(b) - found
          [] OTHER      -> ManyLetters(a, b, xcost, garbage)

\* lev_u_edit_distance, the same on wide characters.
LevUEditDistance(string1, string2, xcost, garbage) ==
    LET a == Ordered(string1, string2)[1]
        b == Ordered(string1, string2)[2]
    IN  CASE Len(a) = 0 -> Len(b)
          [] Len(a) = 1 -> IF a[1] \in ToSet(b) THEN Len(b) - 1
                           ELSE Len(b) + (IF xcost THEN 1 ELSE 0)
          [] OTHER      -> ManyLetters(a, b, xcost, garbage)

\* A mutant of CostRow: a replacement costs two, as with xcost.
CostRowXCost(row, i, a, b) ==
    LET next[j \in 0..Len(b)] ==
          IF j = 0 THEN i
          ELSE Min({row[j - 1] + 2 * Differ(a[i], b[j]), next[j - 1] + 1, row[j] + 1})
    IN  next

\* Row i of the whole matrix.
CostRow(row, i, a, b) ==
    LET next[j \in 0..Len(b)] ==
          IF j = 0 THEN i
          ELSE Min({row[j - 1] + Differ(a[i], b[j]), next[j - 1] + 1, row[j] + 1})
    IN  next

\* The whole matrix, which lev_editops_find needs for the way back.
CostMatrix(a, b) ==
    LET rows[i \in 0..Len(a)] ==
          IF i = 0 THEN [j \in 0..Len(b) |-> j] ELSE CostRow(rows[i - 1], i, a, b)
    IN  rows
=============================================================================
