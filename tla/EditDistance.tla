----------------------------- MODULE EditDistance -----------------------------
(***************************************************************************)
(* Similarity and levenshtein of internal/layout/match.go, cell by cell:   *)
(* two rows of the table are kept and swapped, so that the new row is      *)
(* computed over the remains of an old one.                                *)
(***************************************************************************)
EXTENDS Integers, Sequences, FiniteSets

CONSTANTS
    Rune,
    MaxLen      \* bound: the length of a title

Titles == UNION {[1 .. n -> Rune] : n \in 0 .. MaxLen}

VARIABLES
    a, b,           \* the arguments
    prev, curr,     \* the two rows, by the length of a prefix of b
    i, j,           \* the loops
    pc,
    score           \* the result, as a fraction <<numerator, denominator>>

vars == <<a, b, prev, curr, i, j, pc, score>>

SmallerOf(u, v) == IF u < v THEN u ELSE v

Min3(u, v, w) == SmallerOf(SmallerOf(u, v), w)

Init ==
    /\ a \in Titles
    /\ b \in Titles
    /\ prev = [k \in 0 .. Len(b) |-> k]
    /\ curr = [k \in 0 .. Len(b) |-> 0]
    /\ i = 1
    /\ j = 1
    /\ pc = "start"
    /\ score = <<0, 1>>

\* Equal titles, and empty ones, need no table.
Start ==
    /\ pc = "start"
    /\ IF a = b \/ a = <<>> \/ b = <<>>
       THEN pc' = "done" /\ score' = <<IF a = b THEN 1 ELSE 0, 1>>
       ELSE pc' = "row" /\ UNCHANGED score
    /\ UNCHANGED <<a, b, prev, curr, i, j>>

Row ==
    /\ pc = "row"
    /\ i <= Len(a)
    /\ curr' = [curr EXCEPT ![0] = i]
    /\ j' = 1
    /\ pc' = "cell"
    /\ UNCHANGED <<a, b, prev, i, score>>

Cell ==
    LET cost == IF a[i] = b[j] THEN 0 ELSE 1
    IN  /\ pc = "cell"
        /\ j <= Len(b)
        /\ curr' = [curr EXCEPT ![j] = Min3(curr[j - 1] + 1, prev[j] + 1, prev[j - 1] + cost)]
        /\ j' = j + 1
        /\ UNCHANGED <<a, b, prev, i, pc, score>>

\* Mutant of Swap: the rows are not swapped.
SwapForgotten ==
    /\ pc = "cell"
    /\ j > Len(b)
    /\ i' = i + 1
    /\ pc' = "row"
    /\ UNCHANGED <<a, b, prev, curr, j, score>>

Swap ==
    /\ pc = "cell"
    /\ j > Len(b)
    /\ prev' = curr
    /\ curr' = prev
    /\ i' = i + 1
    /\ pc' = "row"
    /\ UNCHANGED <<a, b, j, score>>

\* 1 - distance / longer length.
Return ==
    LET longest == IF Len(a) > Len(b) THEN Len(a) ELSE Len(b)
    IN  /\ pc = "row"
        /\ i > Len(a)
        /\ score' = <<longest - prev[Len(b)], longest>>
        /\ pc' = "done"
        /\ UNCHANGED <<a, b, prev, curr, i, j>>

Next == Start \/ Row \/ Cell \/ Swap \/ Return

Spec == Init /\ [][Next]_vars

-----------------------------------------------------------------------------
(***************************************************************************)
(* The reference: the least cost of an alignment, which pairs runes of the *)
(* two titles without crossings.  A pair of different runes is a           *)
(* replacement, a rune without partner an insertion or a deletion.         *)
(***************************************************************************)
Alignments(m, n) ==
    {al \in SUBSET ((1 .. m) \X (1 .. n)) :
        \A p, q \in al : p # q => (p[1] < q[1] /\ p[2] < q[2]) \/ (q[1] < p[1] /\ q[2] < p[2])}

Replaced(al) == {p \in al : a[p[1]] # b[p[2]]}

Cost(al, m, n) ==
    Cardinality(Replaced(al))
        + (m - Cardinality(al)) + (n - Cardinality(al))

\* The distance of the first m runes of a and the first n of b is d.
IsDistance(d, m, n) ==
    /\ \E al \in Alignments(m, n) : Cost(al, m, n) = d
    /\ \A al \in Alignments(m, n) : Cost(al, m, n) >= d

(***************************************************************************)
(* The score is one less the share of the longer title that the distance   *)
(* is, whatever the swapped rows held before, and 1 for equal titles only: *)
(* a window with the title of the entry is never beaten by one that        *)
(* resembles it.                                                           *)
(***************************************************************************)
ScoreIsSimilarity ==
    LET longest == IF Len(a) > Len(b) THEN Len(a) ELSE Len(b)
    IN  pc = "done" =>
            /\ \E d \in 0 .. longest :
                  /\ IsDistance(d, Len(a), Len(b))
                  /\ score[1] * longest = (longest - d) * score[2]
            /\ score[1] = score[2] <=> a = b
=============================================================================
