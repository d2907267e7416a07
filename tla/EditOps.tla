------------------------------- MODULE EditOps -------------------------------
(***************************************************************************)
(* The functions of levenshtein.cpp one after the other on two strings:    *)
(* the distances, the edit operations found on the way back through the    *)
(* cost matrix, and what is made of them, block operations (opcodes) and   *)
(* matching blocks.                                                        *)
(*                                                                         *)
(* Positions count from 0, as in the code, and are at the left edge of a   *)
(* letter. A step is one iteration of the loop of a function. The loop of  *)
(* lev_editops_matching_blocks is that of lev_editops_to_opcodes: a step   *)
(* of it is a step of both. Each runs twice, first to count the blocks and *)
(* then, with memory for as many, to write them.                           *)
(***************************************************************************)
EXTENDS Levenshtein

CONSTANTS
    Strings,    \* the strings compared
    MaxLength,  \* no string is longer
    Garbage     \* what uninitialised memory may hold

ASSUME EditOpsAssumption ==
    /\ Strings # {}
    /\ \A s \in Strings : s \in Seq(ToSet(s)) /\ Len(s) <= MaxLength
    /\ MaxLength \in Nat
    /\ Garbage # {} /\ Garbage \subseteq Nat

VARIABLES
    string1, string2,     \* the strings
    garbage,              \* what malloc finds in memory
    stage,                \* which function is running
    distance,             \* the results of the distance functions
    matrix,               \* the costs of the stripped strings
    i, j,                 \* position in the matrix
    dir,                  \* -1 after an insertion, 1 after a deletion
    ops,                  \* the edit operations
    o,                    \* the next operation to count or convert
    spos, dpos,           \* how far that is in the strings
    nbl, nmb,             \* how many opcodes and blocks there is memory for
    opcodes, blocks       \* what the conversion has produced

inputs     == <<string1, string2, garbage>>
pathVars   == <<i, j, dir>>
outputVars == <<o, spos, dpos, nbl, nmb, opcodes, blocks>>
vars == <<inputs, stage, distance, matrix, pathVars, ops, outputVars>>

Init ==
    /\ string1 \in Strings /\ string2 \in Strings
    /\ garbage \in Garbage
    /\ stage = "start"
    /\ distance = <<>> /\ matrix = <<>>
    /\ i = 0 /\ j = 0 /\ dir = 0
    /\ ops = <<>> /\ o = 1
    /\ spos = 0 /\ dpos = 0
    /\ nbl = 0 /\ nmb = 0
    /\ opcodes = <<>> /\ blocks = <<>>

-----------------------------------------------------------------------------
(* lev_edit_distance and lev_editops_find.                                 *)

Measure ==
    /\ stage = "start"
    /\ distance' =
         [bytes |-> [x \in BOOLEAN |-> LevEditDistance(string1, string2, x, garbage)],
          wide  |-> [x \in BOOLEAN |-> LevUEditDistance(string1, string2, x, garbage)]]
    /\ stage' = "measured"
    /\ UNCHANGED <<inputs, matrix, pathVars, ops, outputVars>>

Rest == Strip(string1, string2)

FillMatrix ==
    /\ stage = "measured"
    /\ matrix' = CostMatrix(Rest.first, Rest.second)
    /\ i' = Len(Rest.first) /\ j' = Len(Rest.second)
    /\ stage' = "back"
    /\ UNCHANGED <<inputs, distance, dir, ops, outputVars>>

\* The number of operations, for which the array is allocated.
Cost == matrix[Len(Rest.first)][Len(Rest.second)]

\* The steps of the way back that the costs allow.
Inserts  == j > 0 /\ matrix[i][j] = matrix[i][j - 1] + 1
Deletes  == i > 0 /\ matrix[i][j] = matrix[i - 1][j] + 1
Keeps    == /\ i > 0 /\ j > 0
            /\ matrix[i][j] = matrix[i - 1][j - 1]
            /\ Rest.first[i] = Rest.second[j]
Replaces == i > 0 /\ j > 0 /\ matrix[i][j] = matrix[i - 1][j - 1] + 1

\* A step in the direction of the last one comes first, then the diagonal; a
\* new direction is only taken from the diagonal.
Straight == (dir < 0 /\ Inserts) \/ (dir > 0 /\ Deletes)
Diagonal == Keeps \/ Replaces
Turns    == dir = 0 /\ ~Diagonal

Back(di, dj, direction) ==
    /\ i' = i - di /\ j' = j - dj
    /\ dir' = direction
    /\ UNCHANGED <<inputs, stage, distance, matrix, outputVars>>

\* A mutant of Push: positions in the stripped strings.
PushStripped(type, di, dj) ==
    ops' = <<[type |-> type, spos |-> i - di, dpos |-> j - dj]>> \o ops

\* The array of operations is filled from its end.
Push(type, di, dj) ==
    ops' = <<[type |-> type, spos |-> i - di + Rest.offset,
              dpos |-> j - dj + Rest.offset]>> \o ops

Insert ==
    /\ stage = "back" /\ Inserts /\ (dir < 0 \/ Turns)
    /\ Push("insert", 0, 1) /\ Back(0, 1, -1)

Delete ==
    /\ stage = "back" /\ Deletes /\ (dir > 0 \/ (Turns /\ ~Inserts))
    /\ Push("delete", 1, 0) /\ Back(1, 0, 1)

Keep ==
    /\ stage = "back" /\ Keeps /\ ~Straight
    /\ Back(1, 1, 0) /\ UNCHANGED ops

Replace ==
    /\ stage = "back" /\ Replaces /\ ~Straight /\ ~Keeps
    /\ Push("replace", 1, 1) /\ Back(1, 1, 0)

\* What an operation takes from string1 and gives to string2.
Advances(type) == <<IF type = "insert" THEN 0 ELSE 1, IF type = "delete" THEN 0 ELSE 1>>

\* Where operation n leads in the strings; the first one starts at their
\* beginning.
SourceEnd(n) == IF n = 0 THEN 0 ELSE ops[n].spos + Advances(ops[n].type)[1]
TargetEnd(n) == IF n = 0 THEN 0 ELSE ops[n].dpos + Advances(ops[n].type)[2]

\* An operation for every letter kept between operation n and the next one.
KeepsAfter(n) ==
    LET next == IF n = Len(ops) THEN Len(string1) ELSE ops[n + 1].spos
    IN  [p \in 1..(next - SourceEnd(n)) |->
           [type |-> "keep", spos |-> SourceEnd(n) + p - 1, dpos |-> TargetEnd(n) + p - 1]]

\* A caller may pass the operations as they are found or with an operation
\* for every letter that is kept, which the conversions skip.
WithKeeps ==
    LET with[n \in 0..Len(ops)] ==
          IF n = 0 THEN KeepsAfter(0) ELSE with[n - 1] \o <<ops[n]>> \o KeepsAfter(n)
    IN  with[Len(ops)]

Found ==
    /\ stage = "back" /\ i = 0 /\ j = 0
    /\ ops' \in {ops, WithKeeps}
    /\ stage' = "count"
    /\ UNCHANGED <<inputs, distance, matrix, pathVars, outputVars>>

-----------------------------------------------------------------------------
(* lev_editops_to_opcodes and lev_editops_matching_blocks.                 *)

OpCode(type, sbeg, send, dbeg, dend) ==
    [type |-> type, sbeg |-> sbeg, send |-> send, dbeg |-> dbeg, dend |-> dend]

MatchingBlock(s, d, len) == [spos |-> s, dpos |-> d, len |-> len]

\* How many operations from the one at first on make one block: those of its
\* type each of which is where the one before it leads.
RunLength(first) ==
    LET op == ops[first]
        a  == Advances(op.type)
        continues(m) == ops[first + m] = [type |-> op.type, spos |-> op.spos + m * a[1],
                                          dpos |-> op.dpos + m * a[2]]
    IN  CHOOSE n \in 1..(Len(ops) - first + 1) :
           /\ \A m \in 1..(n - 1) : continues(m)
           /\ first + n <= Len(ops) => ~continues(n)

\* Operations that keep a letter are skipped.
NextOp ==
    LET left == {n \in o..Len(ops) : ops[n].type # "keep"}
    IN  IF left = {} THEN 0 ELSE Min(left)

\* The letters kept before it, and those after the last operation.
Gap == spos < ops[NextOp].spos \/ dpos < ops[NextOp].dpos
LastGap == spos < Len(string1) \/ dpos < Len(string2)

\* An iteration goes on to where the run of the operation leads.
PassRun ==
    LET op == ops[NextOp]
        n  == RunLength(NextOp)
    IN  /\ o' = NextOp + n
        /\ spos' = op.spos + n * Advances(op.type)[1]
        /\ dpos' = op.dpos + n * Advances(op.type)[2]

One(counts) == IF counts THEN 1 ELSE 0

\* An opcode and a block for the letters kept before the operation, and an
\* opcode for its run.
Count ==
    /\ stage = "count" /\ NextOp # 0
    /\ nbl' = nbl + One(Gap) + 1
    /\ nmb' = nmb + One(Gap)
    /\ PassRun
    /\ UNCHANGED <<inputs, stage, distance, matrix, pathVars, ops, opcodes, blocks>>

\* A mutant of CountRest: no memory for the letters after the last operation.
CountNoRest ==
    /\ stage = "count" /\ NextOp = 0
    /\ o' = 1 /\ spos' = 0 /\ dpos' = 0
    /\ stage' = "convert"
    /\ UNCHANGED <<inputs, distance, matrix, pathVars, ops, nbl, nmb, opcodes, blocks>>

\* The letters after the last operation. The conversion begins again.
CountRest ==
    /\ stage = "count" /\ NextOp = 0
    /\ nbl' = nbl + One(LastGap)
    /\ nmb' = nmb + One(LastGap)
    /\ o' = 1 /\ spos' = 0 /\ dpos' = 0
    /\ stage' = "convert"
    /\ UNCHANGED <<inputs, distance, matrix, pathVars, ops, opcodes, blocks>>

Convert ==
    LET op == ops[NextOp]
    IN  /\ stage = "convert" /\ NextOp # 0
        /\ PassRun
        /\ opcodes' = opcodes
              \o (IF Gap THEN <<OpCode("keep", spos, op.spos, dpos, op.dpos)>> ELSE <<>>)
              \o <<OpCode(op.type, op.spos, spos', op.dpos, dpos')>>
        /\ blocks' = blocks
              \o (IF Gap THEN <<MatchingBlock(spos, dpos, op.spos - spos)>> ELSE <<>>)
        /\ UNCHANGED <<inputs, stage, distance, matrix, pathVars, ops, nbl, nmb>>

ConvertRest ==
    /\ stage = "convert" /\ NextOp = 0
    /\ opcodes' = opcodes \o
          (IF LastGap THEN <<OpCode("keep", spos, Len(string1), dpos, Len(string2))>> ELSE <<>>)
    /\ blocks' = blocks \o
          (IF LastGap THEN <<MatchingBlock(spos, dpos, Len(string1) - spos)>> ELSE <<>>)
    /\ stage' = "done"
    /\ UNCHANGED <<inputs, distance, matrix, pathVars, ops, o, spos, dpos, nbl, nmb>>

\* lev_opcodes_matching_blocks: a block for every run of opcodes that keep
\* letters, up to the opcode after it.
OpcodesMatchingBlocks(bops) ==
    LET keep(n)  == n \in DOMAIN bops /\ bops[n].type = "keep"
        after(n) == {m \in DOMAIN bops : m > n /\ ~keep(m)}
        send(n)  == IF after(n) = {} THEN Len(string1) ELSE bops[Min(after(n))].sbeg
        block(n) == MatchingBlock(bops[n].sbeg, bops[n].dbeg, send(n) - bops[n].sbeg)
        made[n \in 0..Len(bops)] ==
          IF n = 0 THEN <<>>
          ELSE made[n - 1] \o (IF keep(n) /\ ~keep(n - 1) THEN <<block(n)>> ELSE <<>>)
    IN  made[Len(bops)]

Next == Measure \/ FillMatrix \/ Insert \/ Delete \/ Keep \/ Replace \/ Found
        \/ Count \/ CountRest \/ Convert \/ ConvertRest

Spec == Init /\ [][Next]_vars

-----------------------------------------------------------------------------
(* Properties.                                                             *)

\* The ways to line up letters of two strings in order, for lengths m and n:
\* a letter of the first string with at most one of the second.
Alignments(m, n) ==
    UNION {{al \in [A -> 1..n] : \A p, q \in A : p < q => al[p] < al[q]} :
             A \in SUBSET (1..m)}

AllAlignments == [m \in 0..MaxLength |-> [n \in 0..MaxLength |-> Alignments(m, n)]]

\* What is left over is inserted or deleted, and letters lined up with different
\* ones are replaced.
AlignmentCost(al, a, b, replace) ==
    Len(a) + Len(b) - 2 * Cardinality(DOMAIN al)
      + replace * Cardinality({p \in DOMAIN al : a[p] # b[al[p]]})

\* The edit distance by definition: the least cost of a way to line the
\* strings up.
EditDistance(a, b, replace) ==
    Min({AlignmentCost(al, a, b, replace) : al \in AllAlignments[Len(a)][Len(b)]})

\* Both functions return the edit distance (levenshtein.cpp:114-124), with
\* a weight of two for replacements if xcost is set, whatever the part of the
\* row that they leave uninitialised holds.
DistanceIsEdit ==
    stage = "measured" => \A x \in BOOLEAN :
        LET d == EditDistance(string1, string2, IF x THEN 2 ELSE 1)
        IN  distance.bytes[x] = d /\ distance.wide[x] = d

\* The way back never gets stuck: the assertion "lost in the cost matrix"
\* (levenshtein.cpp:365) holds, although a turn from an insertion to a deletion
\* is not considered.
NeverLost ==
    stage = "back" /\ (i > 0 \/ j > 0) =>
        Straight \/ Diagonal \/ (dir = 0 /\ (Inserts \/ Deletes))

\* What is done when the operations have been applied up to one of them, letters
\* that are kept copied in between.
Applied(done, op) ==
    LET copied == done.out \o SubSeq(string1, done.at + 1, op.spos)
    IN  [at  |-> op.spos + (IF op.type \in {"delete", "replace"} THEN 1 ELSE 0),
         out |-> IF op.type \in {"insert", "replace"}
                 THEN Append(copied, string2[op.dpos + 1]) ELSE copied]

\* string1 after the operations.
Apply ==
    LET done[n \in 0..Len(ops)] ==
          IF n = 0 THEN [at |-> 0, out |-> <<>>] ELSE Applied(done[n - 1], ops[n])
        all == done[Len(ops)]
    IN  all.out \o SubSeq(string1, all.at + 1, Len(string1))

\* The operations found turn string1 into string2, there are as many of them
\* as the array has room for, and that is the distance: the sequence is an
\* optimal one (levenshtein.cpp:381-389).
OpsTransform ==
    stage = "convert" =>
        /\ Apply = string2
        /\ Cardinality({n \in DOMAIN ops : ops[n].type # "keep"}) = Cost
        /\ Cost = distance.bytes[FALSE]

\* The opcodes cover both strings without a gap or an overlap, those that keep
\* letters cover equal texts, and the matching blocks are the same ones
\* whether they are made of the opcodes or of the operations, with keep
\* operations or without. As many are written as were counted for the memory
\* that they are written to; the assertions at levenshtein.cpp:753, :761, :968
\* and :974 hold.
BlocksAgree ==
    stage = "done" =>
        LET ends == [n \in 0..Len(opcodes) |->
                       IF n = 0 THEN <<0, 0>> ELSE <<opcodes[n].send, opcodes[n].dend>>]
        IN  /\ \A n \in DOMAIN opcodes :
                  /\ <<opcodes[n].sbeg, opcodes[n].dbeg>> = ends[n - 1]
                  /\ opcodes[n].type = "keep" =>
                        SubSeq(string1, opcodes[n].sbeg + 1, opcodes[n].send)
                          = SubSeq(string2, opcodes[n].dbeg + 1, opcodes[n].dend)
            /\ ends[Len(opcodes)] = <<Len(string1), Len(string2)>>
            /\ blocks = OpcodesMatchingBlocks(opcodes)
            /\ Len(opcodes) = nbl /\ Len(blocks) = nmb
=============================================================================
