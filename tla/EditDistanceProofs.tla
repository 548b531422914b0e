-------------------------- MODULE EditDistanceProofs --------------------------
(***************************************************************************)
(* levenshtein computes the edit distance, for titles of every length.     *)
(***************************************************************************)
EXTENDS EditDistance, FiniteSetTheorems, TLAPS

(***************************************************************************)
(* Alignments are finite sets of pairs of positions.                       *)
(***************************************************************************)
Pairs(m, n) == (1 .. m) \X (1 .. n)

LEMMA AlignmentIsFinite ==
    ASSUME NEW m \in Nat, NEW n \in Nat, NEW al \in Alignments(m, n)
    PROVE  /\ al \subseteq Pairs(m, n)
           /\ IsFiniteSet(al)
           /\ Cardinality(al) \in Nat
           /\ IsFiniteSet(Replaced(al))
           /\ Cardinality(Replaced(al)) \in Nat
           /\ Cost(al, m, n) \in Int
    <1>1. al \subseteq Pairs(m, n)
        BY DEF Alignments, Pairs
    <1>2. IsFiniteSet(Pairs(m, n))
        <2>1. IsFiniteSet(1 .. m) /\ IsFiniteSet(1 .. n)
            BY FS_Interval
        <2> QED
            BY <2>1, FS_Product DEF Pairs
    <1>3. IsFiniteSet(al) /\ IsFiniteSet(Replaced(al))
        <2>1. Replaced(al) \subseteq Pairs(m, n)
            BY <1>1 DEF Replaced
        <2> QED
            BY <1>1, <1>2, <2>1, FS_Subset
    <1>4. Cardinality(al) \in Nat /\ Cardinality(Replaced(al)) \in Nat
        BY <1>3, FS_CardinalityType
    <1> QED
        BY <1>1, <1>3, <1>4 DEF Cost

(***************************************************************************)
(* Leaving a rune of one title alone costs one.                            *)
(***************************************************************************)
LEMMA OneMoreRune ==
    ASSUME NEW m \in Nat, NEW n \in Nat, NEW al \in Alignments(m, n)
    PROVE  /\ al \in Alignments(m + 1, n) /\ Cost(al, m + 1, n) = Cost(al, m, n) + 1
           /\ al \in Alignments(m, n + 1) /\ Cost(al, m, n + 1) = Cost(al, m, n) + 1
    <1>1. al \subseteq Pairs(m + 1, n) /\ al \subseteq Pairs(m, n + 1)
        BY AlignmentIsFinite DEF Pairs
    <1>2. al \in Alignments(m + 1, n) /\ al \in Alignments(m, n + 1)
        BY <1>1 DEF Alignments, Pairs
    <1> QED
        BY <1>2, AlignmentIsFinite DEF Cost

(***************************************************************************)
(* Pairing the last runes costs what their comparison says.                *)
(***************************************************************************)
Compared(m, n) == IF a[m] = b[n] THEN 0 ELSE 1

LEMMA OneMorePair ==
    ASSUME NEW m \in Nat, NEW n \in Nat, NEW al \in Alignments(m, n)
    PROVE  LET more == al \cup {<<m + 1, n + 1>>}
           IN  /\ more \in Alignments(m + 1, n + 1)
               /\ Cost(more, m + 1, n + 1) = Cost(al, m, n) + Compared(m + 1, n + 1)
    <1> DEFINE last == <<m + 1, n + 1>>
               more == al \cup {last}
    <1>1. al \subseteq Pairs(m, n)
        BY AlignmentIsFinite
    <1>2. last \notin al
        BY <1>1 DEF Pairs
    <1>3. more \in Alignments(m + 1, n + 1)
        <2>1. more \subseteq Pairs(m + 1, n + 1)
            BY <1>1 DEF Pairs
        <2>2. ASSUME NEW p \in more, NEW q \in more, p # q
              PROVE  (p[1] < q[1] /\ p[2] < q[2]) \/ (q[1] < p[1] /\ q[2] < p[2])
            <3>1. CASE p \in al /\ q \in al
                BY <2>2, <3>1 DEF Alignments
            <3>2. CASE p = last /\ q \in al
                BY <1>1, <3>2 DEF Pairs
            <3>3. CASE q = last /\ p \in al
                BY <1>1, <3>3 DEF Pairs
            <3> QED
                BY <2>2, <3>1, <3>2, <3>3
        <2> QED
            BY <2>1, <2>2 DEF Alignments, Pairs
    <1>4. Cardinality(more) = Cardinality(al) + 1
        BY <1>2, AlignmentIsFinite, FS_AddElement
    <1>5. Cardinality(Replaced(more)) = Cardinality(Replaced(al)) + Compared(m + 1, n + 1)
        <2>1. CASE a[m + 1] = b[n + 1]
            <3>1. Replaced(more) = Replaced(al)
                BY <2>1 DEF Replaced
            <3> QED
                BY <2>1, <3>1, AlignmentIsFinite DEF Compared
        <2>2. CASE a[m + 1] # b[n + 1]
            <3>1. Replaced(more) = Replaced(al) \cup {last} /\ last \notin Replaced(al)
                BY <1>2, <2>2 DEF Replaced
            <3> QED
                BY <2>2, <3>1, AlignmentIsFinite, FS_AddElement DEF Compared
        <2> QED
            BY <2>1, <2>2
    <1>6. Cost(more, m + 1, n + 1) = Cost(al, m, n) + Compared(m + 1, n + 1)
        <2>1. Compared(m + 1, n + 1) \in Nat
            BY DEF Compared
        <2> QED
            BY <1>4, <1>5, <2>1, AlignmentIsFinite DEF Cost
    <1> QED
        BY <1>3, <1>6

(***************************************************************************)
(* An alignment either pairs the last runes, and without that pair aligns  *)
(* the rest; or it leaves the last rune of one title alone, since two      *)
(* pairs with one of the last runes each would cross.                      *)
(***************************************************************************)
LEMMA LastRunes ==
    ASSUME NEW m \in Nat, NEW n \in Nat, NEW al \in Alignments(m + 1, n + 1)
    PROVE  \/ al \in Alignments(m, n + 1)
           \/ al \in Alignments(m + 1, n)
           \/ \E less \in Alignments(m, n) : al = less \cup {<<m + 1, n + 1>>}
    <1> DEFINE last == <<m + 1, n + 1>>
    <1>1. al \subseteq Pairs(m + 1, n + 1)
        BY AlignmentIsFinite
    <1>2. ASSUME NEW p \in al, NEW q \in al, p # q
          PROVE  (p[1] < q[1] /\ p[2] < q[2]) \/ (q[1] < p[1] /\ q[2] < p[2])
        BY <1>2 DEF Alignments
    <1>3. CASE last \in al
        <2> DEFINE less == al \ {last}
        <2>1. ASSUME NEW p \in less PROVE p \in Pairs(m, n)
            <3>1. p \in Pairs(m + 1, n + 1) /\ p # last
                BY <1>1, <2>1
            <3>2. (p[1] < m + 1 /\ p[2] < n + 1) \/ (m + 1 < p[1] /\ n + 1 < p[2])
                BY <1>2, <1>3, <2>1, <3>1
            <3> QED
                BY <3>1, <3>2 DEF Pairs
        <2>2. less \in Alignments(m, n)
            BY <1>2, <2>1 DEF Alignments, Pairs
        <2>3. al = less \cup {last}
            BY <1>3
        <2> QED
            BY <2>2, <2>3
    <1>4. CASE last \notin al
        <2>1. ASSUME NEW p \in al, NEW q \in al, p[1] = m + 1, q[2] = n + 1
              PROVE  FALSE
            <3>1. p \in Pairs(m + 1, n + 1) /\ q \in Pairs(m + 1, n + 1)
                BY <1>1
            <3>2. p # q
                BY <1>4, <2>1, <3>1 DEF Pairs
            <3>3. (p[1] < q[1] /\ p[2] < q[2]) \/ (q[1] < p[1] /\ q[2] < p[2])
                BY <1>2, <3>2
            <3> QED
                BY <2>1, <3>1, <3>3 DEF Pairs
        <2>2. CASE \A p \in al : p[1] # m + 1
            <3>1. al \subseteq Pairs(m, n + 1)
                BY <1>1, <2>2 DEF Pairs
            <3> QED
                BY <1>2, <3>1 DEF Alignments, Pairs
        <2>3. CASE \A q \in al : q[2] # n + 1
            <3>1. al \subseteq Pairs(m + 1, n)
                BY <1>1, <2>3 DEF Pairs
            <3> QED
                BY <1>2, <3>1 DEF Alignments, Pairs
        <2> QED
            BY <2>1, <2>2, <2>3
    <1> QED
        BY <1>3, <1>4

-----------------------------------------------------------------------------
(***************************************************************************)
(* What a cell of the table holds.                                         *)
(***************************************************************************)
LargerOf(u, v) == IF u > v THEN u ELSE v

SameUpTo(m, n) == m = n /\ \A l \in 1 .. m : a[l] = b[l]

Right(d, m, n) ==
    /\ d \in 0 .. LargerOf(m, n)
    /\ IsDistance(d, m, n)
    /\ d = 0 <=> SameUpTo(m, n)

LEMMA EmptyAligned ==
    ASSUME NEW m \in Nat
    PROVE  /\ {} \in Alignments(m, 0) /\ {} \in Alignments(0, m)
           /\ Alignments(m, 0) \subseteq {{}} /\ Alignments(0, m) \subseteq {{}}
           /\ Cost({}, m, 0) = m /\ Cost({}, 0, m) = m
    <1>1. Pairs(m, 0) = {} /\ Pairs(0, m) = {}
        BY DEF Pairs
    <1>2. /\ {} \in Alignments(m, 0) /\ {} \in Alignments(0, m)
          /\ Alignments(m, 0) \subseteq {{}} /\ Alignments(0, m) \subseteq {{}}
        BY <1>1 DEF Alignments, Pairs
    <1>3. Replaced({}) = {}
        BY DEF Replaced
    <1> QED
        BY <1>2, <1>3, FS_EmptySet DEF Cost

LEMMA FirstColumn ==
    ASSUME NEW m \in Nat
    PROVE  Right(m, m, 0) /\ Right(m, 0, m)
    <1>1. IsDistance(m, m, 0)
        <2>1. \A al \in Alignments(m, 0) : Cost(al, m, 0) = m
            BY EmptyAligned
        <2> QED
            BY <2>1, EmptyAligned DEF IsDistance
    <1>2. IsDistance(m, 0, m)
        <2>1. \A al \in Alignments(0, m) : Cost(al, 0, m) = m
            BY EmptyAligned
        <2> QED
            BY <2>1, EmptyAligned DEF IsDistance
    <1> QED
        BY <1>1, <1>2 DEF Right, LargerOf, SameUpTo

LEMMA LeastOfThree ==
    ASSUME NEW u \in Int, NEW v \in Int, NEW w \in Int
    PROVE  /\ Min3(u, v, w) \in {u, v, w}
           /\ Min3(u, v, w) <= u /\ Min3(u, v, w) <= v /\ Min3(u, v, w) <= w
    BY DEF Min3, SmallerOf

(***************************************************************************)
(* The recurrence.                                                         *)
(***************************************************************************)
LEMMA NextCell ==
    ASSUME NEW m \in Nat, NEW n \in Nat, NEW x, NEW y, NEW z,
           Right(x, m, n + 1), Right(y, m + 1, n), Right(z, m, n)
    PROVE  Right(Min3(y + 1, x + 1, z + Compared(m + 1, n + 1)), m + 1, n + 1)
    <1> DEFINE c == Compared(m + 1, n + 1)
               d == Min3(y + 1, x + 1, z + c)
    <1>1. x \in Nat /\ y \in Nat /\ z \in Nat /\ c \in 0 .. 1
        BY DEF Right, Compared
    <1>2. d \in {y + 1, x + 1, z + c} /\ d <= y + 1 /\ d <= x + 1 /\ d <= z + c
        BY <1>1, LeastOfThree
    <1>3. \E al \in Alignments(m + 1, n + 1) : Cost(al, m + 1, n + 1) = d
        <2>1. CASE d = x + 1
            <3>1. PICK al \in Alignments(m, n + 1) : Cost(al, m, n + 1) = x
                BY DEF Right, IsDistance
            <3> QED
                BY <2>1, <3>1, OneMoreRune
        <2>2. CASE d = y + 1
            <3>1. PICK al \in Alignments(m + 1, n) : Cost(al, m + 1, n) = y
                BY DEF Right, IsDistance
            <3> QED
                BY <2>2, <3>1, OneMoreRune
        <2>3. CASE d = z + c
            <3>1. PICK al \in Alignments(m, n) : Cost(al, m, n) = z
                BY DEF Right, IsDistance
            <3> QED
                BY <2>3, <3>1, OneMorePair
        <2> QED
            BY <1>2, <2>1, <2>2, <2>3
    <1>4. ASSUME NEW al \in Alignments(m + 1, n + 1) PROVE Cost(al, m + 1, n + 1) >= d
        <2>1. CASE al \in Alignments(m, n + 1)
            <3>1. Cost(al, m, n + 1) >= x
                BY <2>1 DEF Right, IsDistance
            <3>2. Cost(al, m + 1, n + 1) = Cost(al, m, n + 1) + 1 /\ Cost(al, m, n + 1) \in Int
                BY <2>1, OneMoreRune, AlignmentIsFinite
            <3> HIDE DEF d
            <3> QED
                BY <1>1, <1>2, <3>1, <3>2
        <2>2. CASE al \in Alignments(m + 1, n)
            <3>1. Cost(al, m + 1, n) >= y
                BY <2>2 DEF Right, IsDistance
            <3>2. Cost(al, m + 1, n + 1) = Cost(al, m + 1, n) + 1 /\ Cost(al, m + 1, n) \in Int
                BY <2>2, OneMoreRune, AlignmentIsFinite
            <3> HIDE DEF d
            <3> QED
                BY <1>1, <1>2, <3>1, <3>2
        <2>3. CASE \E less \in Alignments(m, n) : al = less \cup {<<m + 1, n + 1>>}
            <3>1. PICK less \in Alignments(m, n) : al = less \cup {<<m + 1, n + 1>>}
                BY <2>3
            <3>2. Cost(less, m, n) >= z
                BY DEF Right, IsDistance
            <3>3. Cost(al, m + 1, n + 1) = Cost(less, m, n) + c /\ Cost(less, m, n) \in Int
                BY <3>1, OneMorePair, AlignmentIsFinite
            <3> HIDE DEF d, c
            <3> QED
                BY <1>1, <1>2, <3>2, <3>3
        <2> QED
            BY <2>1, <2>2, <2>3, LastRunes
    <1>5. d = 0 <=> SameUpTo(m + 1, n + 1)
        <2>1. d = 0 <=> z = 0 /\ c = 0
            <3> HIDE DEF d, c
            <3> QED
                BY <1>1, <1>2
        <2>2. c = 0 <=> a[m + 1] = b[n + 1]
            BY DEF Compared
        <2>3. z = 0 <=> SameUpTo(m, n)
            BY DEF Right
        <2>4. SameUpTo(m + 1, n + 1) <=> SameUpTo(m, n) /\ a[m + 1] = b[n + 1]
            <3>1. 1 .. m + 1 = (1 .. m) \cup {m + 1}
                OBVIOUS
            <3> QED
                BY <3>1 DEF SameUpTo
        <2> QED
            BY <2>1, <2>2, <2>3, <2>4
    <1>6. d \in 0 .. LargerOf(m + 1, n + 1)
        <2>1. z \in 0 .. LargerOf(m, n)
            BY DEF Right
        <2> HIDE DEF d, c
        <2> QED
            BY <1>1, <1>2, <2>1 DEF LargerOf
    <1> HIDE DEF d
    <1>7. Right(d, m + 1, n + 1)
        BY <1>3, <1>4, <1>5, <1>6 DEF Right, IsDistance
    <1> QED
        BY <1>7 DEF d

(***************************************************************************)
(* Equal titles are at distance 0: every rune is paired with itself, and   *)
(* no alignment pairs more runes than there are.                           *)
(***************************************************************************)
LEMMA EqualTitles ==
    ASSUME NEW n \in Nat, SameUpTo(n, n)
    PROVE  IsDistance(0, n, n)
    <1> DEFINE diagonal == {p \in Pairs(n, n) : p[1] = p[2]}
    <1>1. diagonal \in Alignments(n, n)
        BY DEF Alignments, Pairs
    <1>2. Cardinality(diagonal) = n
        <2> DEFINE f == [k \in 1 .. n |-> <<k, k>>]
        <2>1. f \in Bijection(1 .. n, diagonal)
            <3>1. f \in [1 .. n -> diagonal]
                BY DEF Pairs
            <3>2. \A k, l \in 1 .. n : f[k] = f[l] => k = l
                OBVIOUS
            <3>3. \A p \in diagonal : p[1] \in 1 .. n /\ f[p[1]] = p
                BY DEF Pairs
            <3> QED
                BY <3>1, <3>2, <3>3 DEF Bijection, Injection, Surjection, IsInjective
        <2> QED
            BY <2>1, FS_CountingElements DEF ExistsBijection
    <1>3. Replaced(diagonal) = {}
        BY DEF Replaced, SameUpTo, Pairs
    <1>4. Cost(diagonal, n, n) = 0
        BY <1>2, <1>3, FS_EmptySet DEF Cost
    <1>5. ASSUME NEW al \in Alignments(n, n) PROVE Cost(al, n, n) >= 0
        <2> DEFINE f == [p \in al |-> p[1]]
        <2>1. al \subseteq Pairs(n, n)
            BY AlignmentIsFinite
        <2>2. f \in [al -> 1 .. n]
            BY <2>1 DEF Pairs
        <2>3. \A p, q \in al : f[p] = f[q] => p = q
            BY <2>1 DEF Alignments, Pairs
        <2>4. f \in Injection(al, 1 .. n)
            BY <2>2, <2>3 DEF Injection, IsInjective
        <2>5. IsFiniteSet(1 .. n) /\ Cardinality(1 .. n) = n
            BY FS_Interval
        <2>6. Cardinality(al) <= n
            BY <2>4, <2>5, FS_Injection
        <2> QED
            BY <2>6, AlignmentIsFinite DEF Cost
    <1> QED
        BY <1>1, <1>4, <1>5 DEF IsDistance

-----------------------------------------------------------------------------
(***************************************************************************)
(* The inductive invariant: prev is the row of the table before i, and     *)
(* curr is row i as far as the loop has come; behind that it holds         *)
(* anything.                                                               *)
(***************************************************************************)
TypeInv ==
    /\ a \in Seq(Rune) /\ b \in Seq(Rune)
    /\ prev \in [0 .. Len(b) -> Nat] /\ curr \in [0 .. Len(b) -> Nat]
    /\ i \in 1 .. Len(a) + 1 /\ j \in 1 .. Len(b) + 1
    /\ pc \in {"start", "row", "cell", "done"}

Table ==
    /\ pc = "start" => i = 1
    /\ pc \in {"row", "cell"} => a # b
    /\ pc = "cell" => i <= Len(a)
    /\ pc # "done" => \A k \in 0 .. Len(b) : Right(prev[k], i - 1, k)
    /\ pc = "cell" => \A k \in 0 .. j - 1 : Right(curr[k], i, k)

LEMMA RightKept ==
    ASSUME UNCHANGED <<a, b>>
    PROVE  \A d, m, n : Right(d, m, n)' <=> Right(d, m, n)
    BY DEF Right, IsDistance, Cost, Replaced, SameUpTo

LEMMA TableInit == Init => TypeInv /\ Table
    <1> SUFFICES ASSUME Init PROVE TypeInv /\ Table
        OBVIOUS
    <1>1. a \in Seq(Rune) /\ b \in Seq(Rune)
        BY DEF Init, Titles
    <1>2. Len(a) \in Nat /\ Len(b) \in Nat
        BY <1>1
    <1>3. TypeInv
        BY <1>1, <1>2 DEF Init, TypeInv
    <1>4. \A k \in 0 .. Len(b) : Right(prev[k], i - 1, k)
        BY <1>2, FirstColumn DEF Init
    <1> QED
        BY <1>3, <1>4 DEF Init, Table

LEMMA TypeNext == TypeInv /\ Table /\ [Next]_vars => TypeInv'
    <1> SUFFICES ASSUME TypeInv, Table, [Next]_vars PROVE TypeInv'
        OBVIOUS
    <1>0. Len(a) \in Nat /\ Len(b) \in Nat
        BY DEF TypeInv
    <1>1. CASE Start
        BY <1>1 DEF Start, TypeInv
    <1>2. CASE Row
        BY <1>0, <1>2 DEF Row, TypeInv
    <1>3. CASE Cell
        <2>1. j \in 1 .. Len(b) /\ j + 1 \in 1 .. Len(b) + 1
            BY <1>0, <1>3 DEF Cell, TypeInv
        <2>2. curr[j - 1] \in Nat /\ prev[j] \in Nat /\ prev[j - 1] \in Nat
            <3>1. j - 1 \in 0 .. Len(b) /\ j \in 0 .. Len(b)
                BY <1>0, <2>1
            <3> QED
                BY <3>1 DEF TypeInv
        <2>3. /\ curr[j - 1] + 1 \in Nat /\ prev[j] + 1 \in Nat
              /\ prev[j - 1] + (IF a[i] = b[j] THEN 0 ELSE 1) \in Nat
            BY <2>2
        <2>4. curr' \in [0 .. Len(b) -> Nat]
            BY <1>0, <1>3, <2>1, <2>3, LeastOfThree DEF Cell, TypeInv
        <2> QED
            BY <1>3, <2>1, <2>4 DEF Cell, TypeInv
    <1>4. CASE Swap
        BY <1>0, <1>4 DEF Swap, TypeInv, Table
    <1>5. CASE Return
        BY <1>5 DEF Return, TypeInv
    <1>6. CASE UNCHANGED vars
        BY <1>6 DEF vars, TypeInv
    <1> QED
        BY <1>1, <1>2, <1>3, <1>4, <1>5, <1>6 DEF Next

LEMMA TableNext == TypeInv /\ Table /\ [Next]_vars => Table'
    <1> SUFFICES ASSUME TypeInv, Table, [Next]_vars PROVE Table'
        OBVIOUS
    <1>0. Len(a) \in Nat /\ Len(b) \in Nat /\ i \in Nat \ {0} /\ j \in Nat \ {0}
        BY DEF TypeInv
    <1>kept. \A d, m, n : Right(d, m, n)' <=> Right(d, m, n)
        BY RightKept DEF Next, Start, Row, Cell, Swap, Return, vars
    <1>1. CASE Start
        BY <1>1, <1>kept DEF Start, Table
    <1>2. CASE Row
        <2>1. curr'[0] = i /\ i' = i /\ j' = 1 /\ prev' = prev /\ b' = b /\ a' = a
            BY <1>0, <1>2 DEF Row, TypeInv
        <2>2. Right(i, i, 0)
            BY <1>0, FirstColumn
        <2>3. \A k \in 0 .. 0 : Right(curr'[k], i, k)
            BY <2>1, <2>2
        <2> QED
            BY <1>2, <1>kept, <2>1, <2>3 DEF Row, Table
    <1>3. CASE Cell
        <2>1. j \in 1 .. Len(b) /\ j - 1 \in Nat /\ i - 1 \in Nat /\ j <= Len(b)
            BY <1>0, <1>3 DEF Cell, TypeInv
        <2>2. /\ Right(prev[j], i - 1, (j - 1) + 1) /\ Right(prev[j - 1], i - 1, j - 1)
              /\ Right(curr[j - 1], (i - 1) + 1, j - 1)
            BY <1>0, <1>3, <2>1 DEF Cell, Table
        <2>3. Right(Min3(curr[j - 1] + 1, prev[j] + 1, prev[j - 1] + Compared(i, j)), i, j)
            <3>1. (i - 1) + 1 = i /\ (j - 1) + 1 = j
                BY <1>0
            <3> QED
                BY <2>1, <2>2, <3>1, NextCell
        <2>4. /\ curr'[j] = Min3(curr[j - 1] + 1, prev[j] + 1, prev[j - 1] + Compared(i, j))
              /\ \A k \in 0 .. j - 1 : curr'[k] = curr[k]
            BY <1>0, <1>3, <2>1 DEF Cell, TypeInv, Compared
        <2>5. \A k \in 0 .. j : Right(curr'[k], i, k)
            <3>1. 0 .. j = (0 .. j - 1) \cup {j}
                BY <1>0
            <3> QED
                BY <1>3, <2>3, <2>4, <3>1 DEF Cell, Table
        <2>6. /\ a' = a /\ b' = b /\ prev' = prev /\ i' = i /\ pc' = pc /\ j' - 1 = j
              /\ pc = "cell"
            BY <1>0, <1>3 DEF Cell
        <2> QED
            BY <1>kept, <2>5, <2>6 DEF Table
    <1>4. CASE Swap
        <2>1. j - 1 = Len(b) /\ (i + 1) - 1 = i
            BY <1>0, <1>4 DEF Swap, TypeInv
        <2>2. \A k \in 0 .. Len(b) : Right(curr[k], i, k)
            BY <1>4, <2>1 DEF Swap, Table
        <2>3. /\ a' = a /\ b' = b /\ prev' = curr /\ i' - 1 = i /\ pc' = "row" /\ pc = "cell"
            BY <1>4, <2>1 DEF Swap
        <2> QED
            BY <1>kept, <2>2, <2>3 DEF Table
    <1>5. CASE Return
        BY <1>5 DEF Return, Table
    <1>6. CASE UNCHANGED vars
        BY <1>6, <1>kept DEF vars, Table
    <1> QED
        BY <1>1, <1>2, <1>3, <1>4, <1>5, <1>6 DEF Next

LEMMA ScoreNext ==
    TypeInv /\ Table /\ ScoreIsSimilarity /\ [Next]_vars => ScoreIsSimilarity'
    <1> SUFFICES ASSUME TypeInv, Table, ScoreIsSimilarity, [Next]_vars
                 PROVE  ScoreIsSimilarity'
        OBVIOUS
    <1> DEFINE longest == LargerOf(Len(a), Len(b))
    <1>0. Len(a) \in Nat /\ Len(b) \in Nat /\ longest \in Nat
        BY DEF TypeInv, LargerOf
    <1>1. ASSUME NEW d \in 0 .. longest, IsDistance(d, Len(a), Len(b)),
                 UNCHANGED <<a, b>>,
                 score'[1] * longest = (longest - d) * score'[2],
                 score'[1] = score'[2] <=> a = b
          PROVE  ScoreIsSimilarity'
        <2>1. \A e, m, n : IsDistance(e, m, n)' <=> IsDistance(e, m, n)
            BY <1>1 DEF IsDistance, Cost, Replaced
        <2> QED
            BY <1>1, <2>1 DEF ScoreIsSimilarity, LargerOf
    <1>2. CASE Start /\ a = b
        <2>1. SameUpTo(Len(a), Len(a))
            BY <1>2 DEF SameUpTo
        <2>2. IsDistance(0, Len(a), Len(b))
            BY <1>0, <1>2, <2>1, EqualTitles
        <2>3. score' = <<1, 1>> /\ UNCHANGED <<a, b>>
            BY <1>2 DEF Start
        <2> QED
            BY <1>0, <1>1, <1>2, <2>2, <2>3
    <1>3. CASE Start /\ a # b /\ (a = <<>> \/ b = <<>>)
        <2>1. IsDistance(longest, Len(a), Len(b))
            BY <1>0, <1>3, FirstColumn DEF Right, LargerOf
        <2>2. score' = <<0, 1>> /\ UNCHANGED <<a, b>>
            BY <1>3 DEF Start
        <2> QED
            BY <1>0, <1>1, <1>3, <2>1, <2>2
    <1>4. CASE Return
        <2> DEFINE d == prev[Len(b)]
        <2>1. i - 1 = Len(a) /\ a # b
            BY <1>0, <1>4 DEF Return, TypeInv, Table
        <2>2. Right(d, Len(a), Len(b))
            BY <1>0, <1>4, <2>1 DEF Return, Table
        <2>3. d \in 0 .. longest /\ IsDistance(d, Len(a), Len(b)) /\ d # 0
            <3>1. ~SameUpTo(Len(a), Len(b))
                BY <2>1 DEF SameUpTo, TypeInv
            <3> QED
                BY <2>2, <3>1 DEF Right
        <2>4. score' = <<longest - d, longest>> /\ UNCHANGED <<a, b>>
            BY <1>4 DEF Return, LargerOf
        <2>5. score'[1] * longest = (longest - d) * score'[2]
            BY <2>4
        <2>6. score'[1] # score'[2]
            BY <1>0, <2>3, <2>4
        <2> HIDE DEF d, longest
        <2> QED
            BY <1>1, <2>1, <2>3, <2>4, <2>5, <2>6
    <1>5. CASE pc' # "done"
        BY <1>5 DEF ScoreIsSimilarity
    <1>6. CASE UNCHANGED vars
        BY <1>6 DEF vars, ScoreIsSimilarity, IsDistance, Cost, Replaced
    <1> QED
        BY <1>2, <1>3, <1>4, <1>5, <1>6 DEF Next, Start, Row, Cell, Swap

(***************************************************************************)
(* The score of two titles is the one their edit distance gives, for       *)
(* titles of every length over any alphabet.                               *)
(***************************************************************************)
THEOREM ScoreIsSimilarityAlways == Spec => []ScoreIsSimilarity
    <1>1. Init => TypeInv /\ Table /\ ScoreIsSimilarity
        BY TableInit DEF Init, ScoreIsSimilarity
    <1> QED
        BY <1>1, TypeNext, TableNext, ScoreNext, PTL DEF Spec
=============================================================================
