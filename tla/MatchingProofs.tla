---------------------------- MODULE MatchingProofs ----------------------------
(***************************************************************************)
(* What MatchEntries guarantees for lists of every length, every set of    *)
(* executables and titles, and every measure of similarity.                *)
(***************************************************************************)
EXTENDS Matching, TLAPS

\* The candidate a step claims is one of its choices: free, and of the
\* entry's executable.
LEMMA ChoiceIsFree ==
    ASSUME NEW i, NEW j \in Choices(i)
    PROVE  /\ j \in DOMAIN candidates
           /\ SameExe(i, j)
           /\ pass = 1 => candidates[j].title = entries[i].title
           /\ pass = 2 => Score(i, j) >= SimilarityThreshold
    BY DEF Choices, Suits, Resembles

-----------------------------------------------------------------------------
\* What a claim does, and to whom.
LEMMA ClaimDoes ==
    ASSUME TypeOK, NEW j \in DOMAIN candidates, Claim(j)
    PROVE  /\ pass \in 1 .. 3 /\ at \in DOMAIN entries /\ matched[at] = 0 /\ j # 0
           /\ j \in Choices(at)
           /\ taken' = taken \cup {j}
           /\ matched' = [matched EXCEPT ![at] = j]
           /\ at' = at + 1
           /\ UNCHANGED <<entries, live, candidates, pass>>
    <1>1. at \in Nat \ {0} /\ entries \in Seq(Entry) /\ candidates \in Seq(Window)
        BY DEF TypeOK
    <1>2. at <= Len(entries)
        BY DEF Claim
    <1>3. at \in DOMAIN entries /\ j # 0
        BY <1>1, <1>2
    <1>4. pass \in 1 .. 3 /\ matched[at] = 0 /\ j \in Choices(at)
        BY DEF Claim, IsPick
    <1>5. /\ taken' = taken \cup {j} /\ matched' = [matched EXCEPT ![at] = j]
          /\ at' = at + 1 /\ UNCHANGED <<entries, live, candidates, pass>>
        BY DEF Claim
    <1> QED
        BY <1>3, <1>4, <1>5

-----------------------------------------------------------------------------
(***************************************************************************)
(* Types.                                                                  *)
(***************************************************************************)
LEMMA TypeInit == Init => TypeOK
    BY MatchingAssumption DEF Init, TypeOK

LEMMA TypeStep == TypeOK /\ [Next]_vars => TypeOK'
    <1> SUFFICES ASSUME TypeOK, [Next]_vars PROVE TypeOK'
        OBVIOUS
    <1> USE DEF TypeOK
    <1>1. CASE Collect
        <2>1. live[at] \in Window
            BY <1>1 DEF Collect
        <2>2. CASE live[at].eligible
            <3>1. candidates' = Append(candidates, live[at])
                BY <1>1, <2>2 DEF Collect
            <3>2. candidates' \in Seq(Window) /\ DOMAIN candidates \subseteq DOMAIN candidates'
                BY <2>1, <3>1
            <3>3. \A j \in DOMAIN candidates' : candidates'[j].eligible
                BY <2>1, <2>2, <3>1
            <3> QED
                BY <1>1, <3>2, <3>3 DEF Collect
        <2>3. CASE ~live[at].eligible
            BY <1>1, <2>3 DEF Collect
        <2> QED
            BY <2>2, <2>3
    <1>2. CASE NextPass
        BY <1>2 DEF NextPass
    <1>3. CASE Skip
        BY <1>3 DEF Skip
    <1>4. ASSUME NEW j \in DOMAIN candidates, Claim(j) PROVE TypeOK'
        <2>1. /\ UNCHANGED <<entries, live, candidates, pass>> /\ at' = at + 1
              /\ taken' = taken \cup {j} /\ matched' = [matched EXCEPT ![at] = j]
            BY <1>4, ClaimDoes
        <2>2. matched' \in [DOMAIN entries' -> {0} \cup DOMAIN candidates']
            BY <2>1
        <2>3. taken' \subseteq DOMAIN candidates'
            BY <2>1
        <2> QED
            BY <2>1, <2>2, <2>3
    <1>5. CASE UNCHANGED vars
        BY <1>5 DEF vars
    <1> QED
        BY <1>1, <1>2, <1>3, <1>4, <1>5 DEF Next

\* Type correctness of every state, and that only eligible windows are matched.
THEOREM TypeCorrect == Spec => []TypeOK
    BY TypeInit, TypeStep, PTL DEF Spec

-----------------------------------------------------------------------------
(***************************************************************************)
(* No window is claimed twice.  OneToOne is inductive with the types.      *)
(***************************************************************************)
LEMMA OneToOneInit == Init => OneToOne
    BY DEF Init, OneToOne

LEMMA OneToOneStep == TypeOK /\ OneToOne /\ [Next]_vars => OneToOne'
    <1> SUFFICES ASSUME TypeOK, OneToOne, [Next]_vars PROVE OneToOne'
        OBVIOUS
    <1>1. ASSUME NEW j \in DOMAIN candidates, Claim(j) PROVE OneToOne'
        <2>1. at \in DOMAIN entries /\ matched[at] = 0 /\ j # 0
            BY <1>1, ClaimDoes
        <2>2. j \notin taken
            BY <1>1, ClaimDoes, ChoiceIsFree DEF SameExe
        <2>3. matched' = [matched EXCEPT ![at] = j] /\ taken' = taken \cup {j} /\ entries' = entries
            BY <1>1, ClaimDoes
        <2>4. \A i \in DOMAIN entries : matched'[i] = IF i = at THEN j ELSE matched[i]
            BY <2>3 DEF TypeOK
        <2>5. \A i \in DOMAIN entries : matched[i] # j
            BY <2>1, <2>2 DEF OneToOne
        <2>6. taken' = {matched'[i] : i \in DOMAIN entries} \ {0}
            BY <2>1, <2>3, <2>4 DEF OneToOne
        <2>7. ASSUME NEW i \in DOMAIN entries, NEW k \in DOMAIN entries, i # k,
                     matched'[i] = matched'[k]
              PROVE  matched'[i] = 0
            BY <2>1, <2>4, <2>5, <2>7 DEF OneToOne
        <2> QED
            BY <2>3, <2>6, <2>7 DEF OneToOne
    <1>2. CASE ~\E j \in DOMAIN candidates : Claim(j)
        BY <1>2 DEF Next, Collect, NextPass, Skip, vars, OneToOne
    <1> QED
        BY <1>1, <1>2

\* A window is claimed by at most one entry, in every state, for lists of
\* every length.
THEOREM OneToOneAlways == Spec => []OneToOne
    BY TypeInit, TypeStep, OneToOneInit, OneToOneStep, PTL DEF Spec

-----------------------------------------------------------------------------
(***************************************************************************)
(* Stability.  What is settled after pass q, and for the entries pass q    *)
(* has dealt with, stays settled: an entry keeps its window, and no later  *)
(* claim makes anyone lack more.  And no pass claims a window of less      *)
(* quality than its own.                                                   *)
(***************************************************************************)
Settled(i, q) == q < pass \/ (q = pass /\ i < at)

StableInv ==
    /\ \A i \in DOMAIN entries, j \in DOMAIN candidates, q \in 1 .. 3 :
          Settled(i, q) => ~Blocks(i, j, q)
    /\ \A i \in DOMAIN entries : matched[i] # 0 => Quality(i, matched[i]) <= pass
    /\ pass = 0 => matched = [i \in DOMAIN entries |-> 0]

LEMMA StableInit == Init => StableInv
    BY DEF Init, StableInv, Settled

\* The quality of a window is that of a pass, or none.
LEMMA QualityRange ==
    ASSUME NEW i, NEW j
    PROVE  Quality(i, j) \in 1 .. 4
    BY DEF Quality

LEMMA StableStep == TypeOK /\ OneToOne /\ StableInv /\ [Next]_vars => StableInv'
    <1> SUFFICES ASSUME TypeOK, OneToOne, StableInv, [Next]_vars PROVE StableInv'
        OBVIOUS
    <1> USE DEF TypeOK
    <1>1. CASE Collect
        <2>1. pass = 0 /\ pass' = 0 /\ entries' = entries /\ matched' = matched
            BY <1>1 DEF Collect
        <2>2. \A i, q : q \in 1 .. 3 => ~Settled(i, q)'
            BY <2>1 DEF Settled
        <2>3. \A i \in DOMAIN entries : matched'[i] = 0
            BY <2>1 DEF StableInv
        <2> QED
            BY <2>1, <2>2, <2>3 DEF StableInv
    <1>2. CASE NextPass
        <2>1. UNCHANGED <<entries, candidates, taken, matched>> /\ pass' = pass + 1 /\ at' = 1
            BY <1>2 DEF NextPass
        <2>2. \A i, j, q : Blocks(i, j, q)' <=> Blocks(i, j, q)
            BY <2>1 DEF Blocks, Quality, EntryLacks, WindowLacks, Score
        <2>3. ASSUME NEW i \in DOMAIN entries, NEW q \in 1 .. 3, Settled(i, q)'
              PROVE  Settled(i, q)
            <3>1. i < at \/ pass = 0
                BY <1>2 DEF NextPass
            <3>2. q < pass + 1
                BY <2>1, <2>3 DEF Settled
            <3> QED
                BY <3>1, <3>2 DEF Settled
        <2>4. \A i \in DOMAIN entries :
                 matched'[i] # 0 => Quality(i, matched[i])' <= pass'
            <3> SUFFICES ASSUME NEW i \in DOMAIN entries, matched[i] # 0
                         PROVE  Quality(i, matched[i])' <= pass'
                BY <2>1
            <3>1. Quality(i, matched[i])' = Quality(i, matched[i])
                BY <2>1 DEF Quality, Score
            <3> QED
                BY <2>1, <3>1, QualityRange DEF StableInv
        <2> QED
            BY <2>1, <2>2, <2>3, <2>4 DEF StableInv
    <1>3. CASE Skip
        <2>1. /\ UNCHANGED <<entries, candidates, taken, matched, pass>> /\ at' = at + 1
              /\ pass \in 1 .. 3 /\ at \in DOMAIN entries
            BY <1>3 DEF Skip
        <2>2. \A i, j, q : Blocks(i, j, q)' <=> Blocks(i, j, q)
            BY <2>1 DEF Blocks, Quality, EntryLacks, WindowLacks, Score
        <2>3. ASSUME NEW j \in DOMAIN candidates, Blocks(at, j, pass) PROVE FALSE
            <3>1. CASE matched[at] # 0
                <4>1. Quality(at, matched[at]) \in 1 .. 4
                    BY QualityRange
                <4> QED
                    BY <2>1, <2>3, <3>1, <4>1 DEF StableInv, Blocks, EntryLacks
            <3>2. CASE matched[at] = 0
                <4>1. Choices(at) = {}
                    BY <1>3, <3>2 DEF Skip
                <4>2. j \notin taken
                    <5> SUFFICES ASSUME j \in taken PROVE FALSE
                        OBVIOUS
                    <5>1. PICK k \in DOMAIN entries : matched[k] = j
                        BY DEF OneToOne
                    <5>2. j # 0 /\ Quality(k, j) \in 1 .. 4
                        BY QualityRange
                    <5>3. Quality(k, j) <= pass
                        BY <5>1, <5>2 DEF StableInv
                    <5> QED
                        BY <2>1, <2>3, <5>1, <5>2, <5>3 DEF Blocks, WindowLacks
                <4>3. candidates[j].exe = entries[at].exe
                    BY <2>1, <2>3 DEF Blocks, Quality
                <4>4. Suits(at, j)
                    BY <2>1, <2>3, <4>2, <4>3
                       DEF Blocks, Quality, Suits, SameExe, Resembles
                <4> QED
                    BY <4>1, <4>4 DEF Choices
            <3> QED
                BY <3>1, <3>2
        <2>4. ASSUME NEW i \in DOMAIN entries, NEW q \in 1 .. 3, Settled(i, q)',
                     ~Settled(i, q)
              PROVE  i = at /\ q = pass
            <3>1. i \in Nat /\ at \in Nat /\ pass \in Nat
                OBVIOUS
            <3>2. q \in Nat /\ (q < pass \/ (q = pass /\ i < at + 1))
                BY <2>1, <2>4 DEF Settled
            <3>3. ~(q < pass) /\ ~(q = pass /\ i < at)
                BY <2>4 DEF Settled
            <3> QED
                BY <3>1, <3>2, <3>3
        <2>5. \A i \in DOMAIN entries :
                 matched'[i] # 0 => Quality(i, matched[i])' <= pass'
            BY <2>1 DEF StableInv, Quality, Score
        <2> QED
            BY <2>1, <2>2, <2>3, <2>4, <2>5 DEF StableInv
    <1>4. ASSUME NEW w \in DOMAIN candidates, Claim(w) PROVE StableInv'
        <2>1. /\ UNCHANGED <<entries, candidates, pass>> /\ at' = at + 1
              /\ pass \in 1 .. 3 /\ at \in DOMAIN entries /\ matched[at] = 0
              /\ matched' = [matched EXCEPT ![at] = w] /\ w \in Choices(at)
            BY <1>4, ClaimDoes
        <2>2. \A i \in DOMAIN entries : matched'[i] = IF i = at THEN w ELSE matched[i]
            BY <2>1
        <2>3. w \notin taken /\ \A i \in DOMAIN entries : matched[i] # w
            BY <2>1, ChoiceIsFree DEF SameExe, OneToOne
        <2>4. \A i, j : Quality(i, j)' = Quality(i, j)
            BY <2>1 DEF Quality, Score
        <2>5. Quality(at, w) <= pass
            BY <2>1, ChoiceIsFree DEF Quality, SameExe
        <2>6. ASSUME NEW i \in DOMAIN entries, NEW j \in DOMAIN candidates,
                     NEW q \in 1 .. 3, Blocks(i, j, q)'
              PROVE  Blocks(i, j, q)
            <3>1. Quality(i, j) = q
                BY <2>4, <2>6 DEF Blocks
            <3>2. EntryLacks(i, q)
                BY <2>1, <2>2, <2>4, <2>6 DEF Blocks, EntryLacks
            <3>3. WindowLacks(j, q)
                BY <2>1, <2>2, <2>4, <2>6 DEF Blocks, WindowLacks
            <3> QED
                BY <3>1, <3>2, <3>3 DEF Blocks
        <2>7. ASSUME NEW i, i = at, NEW q, q = pass,
                     NEW j \in DOMAIN candidates, Blocks(i, j, q)'
              PROVE  FALSE
            <3>1. EntryLacks(i, q)'
                BY <2>7 DEF Blocks
            <3>2. matched'[i] = w /\ w # 0
                BY <2>1, <2>2, <2>7
            <3>3. Quality(i, w) > q
                BY <2>4, <3>1, <3>2 DEF EntryLacks
            <3> QED
                BY <2>5, <2>7, <3>3, QualityRange
        <2>8. ASSUME NEW i \in DOMAIN entries, NEW q \in 1 .. 3, Settled(i, q)',
                     ~Settled(i, q)
              PROVE  i = at /\ q = pass
            <3>1. i \in Nat /\ at \in Nat /\ pass \in Nat
                OBVIOUS
            <3>2. q \in Nat /\ (q < pass \/ (q = pass /\ i < at + 1))
                BY <2>1, <2>8 DEF Settled
            <3>3. ~(q < pass) /\ ~(q = pass /\ i < at)
                BY <2>8 DEF Settled
            <3> QED
                BY <3>1, <3>2, <3>3
        <2>9. \A i \in DOMAIN entries :
                 matched'[i] # 0 => Quality(i, matched'[i]) <= pass
            BY <2>2, <2>5 DEF StableInv
        <2> QED
            <3>1. ASSUME NEW i \in DOMAIN entries, NEW j \in DOMAIN candidates,
                         NEW q \in 1 .. 3, Settled(i, q)', Blocks(i, j, q)'
                  PROVE  FALSE
                <4>1. CASE Settled(i, q)
                    BY <2>6, <3>1, <4>1 DEF StableInv
                <4>2. CASE ~Settled(i, q)
                    BY <2>7, <2>8, <3>1, <4>2
                <4> QED
                    BY <4>1, <4>2
            <3>2. \A i \in DOMAIN entries :
                     matched'[i] # 0 => Quality(i, matched[i])' <= pass'
                BY <2>1, <2>9 DEF Quality, Score
            <3> QED
                BY <2>1, <3>1, <3>2 DEF StableInv
    <1>5. CASE UNCHANGED vars
        <2>1. UNCHANGED <<entries, candidates, taken, matched, pass, at>>
            BY <1>5 DEF vars
        <2>2. \A i, j, q : Blocks(i, j, q)' <=> Blocks(i, j, q)
            BY <2>1 DEF Blocks, Quality, EntryLacks, WindowLacks, Score
        <2>3. \A i, q : Settled(i, q)' <=> Settled(i, q)
            BY <2>1 DEF Settled
        <2>4. \A i \in DOMAIN entries :
                 matched'[i] # 0 => Quality(i, matched[i])' <= pass'
            BY <2>1 DEF StableInv, Quality, Score
        <2> QED
            BY <2>1, <2>2, <2>3, <2>4 DEF StableInv
    <1> QED
        BY <1>1, <1>2, <1>3, <1>4, <1>5 DEF Next

LEMMA StableInvImplies == StableInv => Stable
    <1> SUFFICES ASSUME StableInv, pass = 4,
                        NEW i \in DOMAIN entries, NEW j \in DOMAIN candidates,
                        NEW q \in 1 .. 3
                 PROVE  ~Blocks(i, j, q)
        BY DEF Stable
    <1>1. Settled(i, q)
        BY DEF Settled
    <1> QED
        BY <1>1 DEF StableInv

\* When MatchEntries is done no entry and window of one executable would both
\* do better with each other, for lists of every length.
THEOREM StableAlways == Spec => []Stable
    <1>1. Init => TypeOK /\ OneToOne /\ StableInv
        BY TypeInit, OneToOneInit, StableInit
    <1>2. TypeOK /\ OneToOne /\ StableInv /\ [Next]_vars => (TypeOK /\ OneToOne /\ StableInv)'
        BY TypeStep, OneToOneStep, StableStep
    <1>3. StableInv => Stable
        BY StableInvImplies
    <1> QED
        BY <1>1, <1>2, <1>3, PTL DEF Spec

-----------------------------------------------------------------------------
(***************************************************************************)
(* Order.  An entry has a window of another title only since pass 3, and   *)
(* took the first that was free then: all that are free now come later.    *)
(***************************************************************************)
OrderInv ==
    \A i \in DOMAIN entries :
        matched[i] # 0 /\ Quality(i, matched[i]) = 3 =>
            /\ pass = 3 => i < at
            /\ pass >= 3
            /\ \A j \in DOMAIN candidates : SameExe(i, j) => matched[i] < j

LEMMA OrderStep ==
    TypeOK /\ OneToOne /\ StableInv /\ OrderInv /\ OrderKept /\ [Next]_vars
        => OrderInv' /\ OrderKept'
    <1> SUFFICES ASSUME TypeOK, OneToOne, StableInv, OrderInv, OrderKept, [Next]_vars
                 PROVE  OrderInv' /\ OrderKept'
        OBVIOUS
    <1> USE DEF TypeOK
    <1>1. CASE Collect
        <2>1. pass = 0 /\ entries' = entries /\ matched' = matched
            BY <1>1 DEF Collect
        <2>2. \A i \in DOMAIN entries : matched'[i] = 0
            BY <2>1 DEF StableInv
        <2> QED
            BY <2>1, <2>2 DEF OrderInv, OrderKept
    <1>2. ASSUME UNCHANGED <<entries, candidates, taken, matched>>,
                 \/ pass' = pass /\ at' \in {at, at + 1}
                 \/ pass' = pass + 1
          PROVE  OrderInv' /\ OrderKept'
        <2>1. \A i, j : /\ Quality(i, j)' = Quality(i, j)
                        /\ SameExe(i, j)' = SameExe(i, j)
            BY <1>2 DEF Quality, Score, SameExe
        <2>2. ASSUME NEW i \in DOMAIN entries, matched[i] # 0, Quality(i, matched[i]) = 3
              PROVE  /\ pass' = 3 => i < at'
                     /\ pass' >= 3
            <3>1. pass >= 3 /\ (pass = 3 => i < at)
                BY <2>2 DEF OrderInv
            <3> QED
                BY <1>2, <3>1
        <2>3. OrderInv'
            BY <1>2, <2>1, <2>2 DEF OrderInv
        <2>4. OrderKept'
            BY <1>2, <2>1 DEF OrderKept
        <2> QED
            BY <2>3, <2>4
    <1>3. ASSUME NEW w \in DOMAIN candidates, Claim(w) PROVE OrderInv' /\ OrderKept'
        <2>1. /\ UNCHANGED <<entries, candidates, pass>> /\ at' = at + 1
              /\ pass \in 1 .. 3 /\ at \in DOMAIN entries /\ matched[at] = 0 /\ w # 0
              /\ matched' = [matched EXCEPT ![at] = w] /\ w \in Choices(at)
              /\ taken' = taken \cup {w}
            BY <1>3, ClaimDoes
        <2>2. \A i \in DOMAIN entries : matched'[i] = IF i = at THEN w ELSE matched[i]
            BY <2>1
        <2>3. \A i, j : Quality(i, j)' = Quality(i, j)
            BY <2>1 DEF Quality, Score
        <2>4. \A i, j : SameExe(i, j)' => SameExe(i, j) /\ j # w
            BY <2>1 DEF SameExe
        <2>5. SameExe(at, w)
            BY <2>1, ChoiceIsFree
        <2>6. ASSUME Quality(at, w) = 3
              PROVE  /\ pass = 3
                     /\ \A j \in DOMAIN candidates : SameExe(at, j) => w <= j
            <3>1. pass = 3
                BY <2>1, <2>6, ChoiceIsFree DEF Quality
            <3>2. ASSUME NEW j \in DOMAIN candidates, SameExe(at, j) PROVE w <= j
                <4>1. j \in Choices(at)
                    BY <3>1, <3>2 DEF Choices, Suits
                <4> QED
                    BY <1>3, <3>1, <4>1 DEF Claim, IsPick, Precedes
            <3> QED
                BY <3>1, <3>2
        <2>7. ASSUME NEW i \in DOMAIN entries, matched'[i] # 0, Quality(i, matched'[i]) = 3
              PROVE  /\ pass = 3
                     /\ i < at + 1
                     /\ \A j \in DOMAIN candidates : SameExe(i, j)' => matched'[i] < j
            <3>1. CASE i = at
                <4>0. matched'[i] = w /\ Quality(at, w) = 3
                    BY <2>2, <2>7, <3>1
                <4>1. \A j \in DOMAIN candidates : SameExe(i, j)' => w < j
                    <5> SUFFICES ASSUME NEW j \in DOMAIN candidates, SameExe(i, j)'
                                 PROVE  w < j
                        OBVIOUS
                    <5>1. w <= j /\ w # j
                        BY <2>4, <2>6, <3>1, <4>0
                    <5> QED
                        BY <5>1
                <4> QED
                    <5>1. i < at + 1
                        BY <2>1, <3>1
                    <5> QED
                        BY <2>6, <4>0, <4>1, <5>1
            <3>2. CASE i # at
                <4>1. matched'[i] = matched[i] /\ Quality(i, matched[i]) = 3 /\ matched[i] # 0
                    BY <2>2, <2>7, <3>2
                <4>2. pass = 3 /\ i < at
                    BY <2>1, <4>1 DEF OrderInv
                <4>3. \A j \in DOMAIN candidates : SameExe(i, j) => matched[i] < j
                    BY <4>1 DEF OrderInv
                <4> QED
                    BY <2>4, <4>1, <4>2, <4>3
            <3> QED
                BY <3>1, <3>2
        <2>8. OrderInv'
            BY <2>1, <2>3, <2>7 DEF OrderInv
        <2>9. ASSUME NEW i \in DOMAIN entries, NEW k \in DOMAIN entries, i < k,
                     matched'[i] # 0, matched'[k] # 0, entries[i].exe = entries[k].exe,
                     Quality(i, matched'[i]) = 3, Quality(k, matched'[k]) = 3
              PROVE  matched'[i] < matched'[k]
            <3>1. CASE k = at
                <4>1. matched'[i] = matched[i] /\ matched'[k] = w
                    BY <2>2, <2>9, <3>1
                <4>2. SameExe(i, w)
                    BY <2>5, <2>9, <3>1 DEF SameExe
                <4> QED
                    BY <2>9, <4>1, <4>2 DEF OrderInv
            <3>2. CASE k # at
                <4>1. i # at
                    BY <2>2, <2>7, <2>9, <3>2
                <4>2. matched'[i] = matched[i] /\ matched'[k] = matched[k]
                    BY <2>2, <3>2, <4>1
                <4> QED
                    BY <2>9, <4>2 DEF OrderKept
            <3> QED
                BY <3>1, <3>2
        <2>10. OrderKept'
            BY <2>1, <2>3, <2>9 DEF OrderKept
        <2> QED
            BY <2>8, <2>10
    <1>4. CASE NextPass
        BY <1>2, <1>4 DEF NextPass
    <1>5. CASE Skip
        BY <1>2, <1>5 DEF Skip
    <1>6. CASE UNCHANGED vars
        BY <1>2, <1>6 DEF vars
    <1> QED
        BY <1>1, <1>3, <1>4, <1>5, <1>6 DEF Next

\* Entries of one executable that found no title get their windows in the
\* order they were saved in, for lists of every length.
THEOREM OrderKeptAlways == Spec => []OrderKept
    <1>1. Init => TypeOK /\ OneToOne /\ StableInv /\ OrderInv /\ OrderKept
        <2>1. Init => OrderInv /\ OrderKept
            BY DEF Init, OrderInv, OrderKept
        <2> QED
            BY <2>1, TypeInit, OneToOneInit, StableInit
    <1>2. TypeOK /\ OneToOne /\ StableInv /\ OrderInv /\ OrderKept /\ [Next]_vars
            => (TypeOK /\ OneToOne /\ StableInv /\ OrderInv /\ OrderKept)'
        BY TypeStep, OneToOneStep, StableStep, OrderStep
    <1> QED
        BY <1>1, <1>2, PTL DEF Spec

-----------------------------------------------------------------------------
(***************************************************************************)
(* Round trip.  In pass 1 every entry before at has the window of its own  *)
(* number, and no later window is claimed; the other passes find nothing   *)
(* left to do.                                                             *)
(***************************************************************************)
RoundTripInv ==
    pass >= 1 /\ Captured =>
        \A k \in DOMAIN entries :
            matched[k] = IF pass > 1 \/ k < at THEN k ELSE 0

LEMMA RoundTripStep ==
    TypeOK /\ OneToOne /\ StableInv /\ RoundTripInv /\ [Next]_vars => RoundTripInv'
    <1> SUFFICES ASSUME TypeOK, OneToOne, StableInv, RoundTripInv, [Next]_vars,
                        pass' >= 1, Captured'
                 PROVE  \A k \in DOMAIN entries' :
                            matched'[k] = IF pass' > 1 \/ k < at' THEN k ELSE 0
        BY DEF RoundTripInv
    <1> USE DEF TypeOK
    <1>1. CASE Collect
        BY <1>1 DEF Collect
    <1>2. CASE NextPass
        <2>1. UNCHANGED <<entries, candidates, matched>> /\ pass' = pass + 1 /\ at' = 1
            BY <1>2 DEF NextPass
        <2>2. Captured
            BY <2>1 DEF Captured
        <2>3. CASE pass = 0
            BY <2>1, <2>3 DEF StableInv
        <2>4. CASE pass >= 1
            <3>1. at > Len(entries)
                BY <1>2, <2>4 DEF NextPass
            <3>2. \A k \in DOMAIN entries : k < at
                BY <3>1
            <3> QED
                BY <2>1, <2>2, <2>4, <3>2 DEF RoundTripInv
        <2> QED
            BY <2>3, <2>4
    <1>3. ASSUME pass >= 1, UNCHANGED <<entries, candidates>>, at \in DOMAIN entries
          PROVE  /\ Captured
                 /\ pass = 1 => SameExe(at, at) /\ at \in Choices(at)
        <2>1. Captured
            BY <1>3 DEF Captured
        <2>2. ASSUME pass = 1 PROVE SameExe(at, at) /\ at \in Choices(at)
            <3>1. /\ at \in DOMAIN candidates
                  /\ candidates[at].exe = entries[at].exe
                  /\ candidates[at].title = entries[at].title
                BY <1>3, <2>1 DEF Captured
            <3>2. \A k \in DOMAIN entries : matched[k] # at
                BY <2>1, <2>2 DEF RoundTripInv
            <3>3. at \notin taken
                BY <3>2 DEF OneToOne
            <3> QED
                BY <2>2, <3>1, <3>3 DEF SameExe, Choices, Suits
        <2> QED
            BY <2>1, <2>2
    <1>4. CASE Skip
        <2>1. /\ UNCHANGED <<entries, candidates, matched, pass>> /\ at' = at + 1
              /\ pass \in 1 .. 3 /\ at \in DOMAIN entries
              /\ matched[at] # 0 \/ Choices(at) = {}
            BY <1>4 DEF Skip
        <2>2. Captured /\ (pass = 1 => at \in Choices(at))
            BY <1>3, <2>1
        <2>3. \A k \in DOMAIN entries : matched[k] = IF pass > 1 \/ k < at THEN k ELSE 0
            BY <2>1, <2>2 DEF RoundTripInv
        <2>4. pass > 1
            BY <2>1, <2>2, <2>3
        <2> QED
            BY <2>1, <2>3, <2>4
    <1>5. ASSUME NEW w \in DOMAIN candidates, Claim(w)
          PROVE  \A k \in DOMAIN entries' :
                     matched'[k] = IF pass' > 1 \/ k < at' THEN k ELSE 0
        <2>1. /\ UNCHANGED <<entries, candidates, pass>> /\ at' = at + 1
              /\ pass \in 1 .. 3 /\ at \in DOMAIN entries /\ matched[at] = 0 /\ w # 0
              /\ matched' = [matched EXCEPT ![at] = w] /\ w \in Choices(at)
            BY <1>5, ClaimDoes
        <2>0. DOMAIN entries \subseteq Nat /\ at \in Nat /\ w \in Nat /\ w >= 1
            OBVIOUS
        <2>2. Captured /\ (pass = 1 => at \in Choices(at))
            BY <1>3, <2>1
        <2>3. \A k \in DOMAIN entries : matched[k] = IF pass > 1 \/ k < at THEN k ELSE 0
            BY <2>1, <2>2 DEF RoundTripInv
        <2>4. pass = 1
            BY <2>1, <2>3
        <2>5. w <= at
            BY <1>5, <2>2, <2>4 DEF Claim, IsPick, Precedes
        <2>6. w \notin taken
            BY <2>1, ChoiceIsFree DEF SameExe
        <2>7. ~(w < at)
            <3> SUFFICES ASSUME w < at PROVE FALSE
                OBVIOUS
            <3>1. w \in DOMAIN entries
                <4>1. DOMAIN entries = 1 .. Len(entries) /\ Len(entries) \in Nat
                    BY DEF TypeOK
                <4>2. at \in DOMAIN entries
                    BY <2>1
                <4> QED
                    BY <2>0, <4>1, <4>2
            <3>2. matched[w] = w
                BY <2>3, <3>1
            <3> QED
                BY <2>1, <2>6, <3>1, <3>2 DEF OneToOne
        <2>8. w = at
            BY <2>1, <2>5, <2>7
        <2>9. \A k \in DOMAIN entries : matched'[k] = IF k = at THEN at ELSE matched[k]
            BY <2>1, <2>8
        <2>10. ASSUME NEW k \in DOMAIN entries
               PROVE  matched'[k] = IF pass' > 1 \/ k < at' THEN k ELSE 0
            <3>1. k \in Nat /\ at \in Nat /\ at' = at + 1 /\ pass' = 1
                BY <2>0, <2>1, <2>4
            <3>2. CASE k = at
                BY <2>9, <3>1, <3>2
            <3>3. CASE k # at
                <4>1. k < at' <=> k < at
                    BY <3>1, <3>3
                <4> QED
                    BY <2>3, <2>4, <2>9, <3>1, <3>3, <4>1
            <3> QED
                BY <3>2, <3>3
        <2> QED
            BY <2>1, <2>10
    <1>6. CASE UNCHANGED vars
        <2>1. UNCHANGED <<entries, candidates, matched, pass, at>>
            BY <1>6 DEF vars
        <2> QED
            BY <2>1 DEF RoundTripInv, Captured
    <1> QED
        BY <1>1, <1>2, <1>4, <1>5, <1>6 DEF Next

\* A layout restored right after it was saved gives every entry the very
\* window it was made of, for lists of every length.
THEOREM RoundTripAlways == Spec => []RoundTrip
    <1>1. Init => TypeOK /\ OneToOne /\ StableInv /\ RoundTripInv
        <2>1. Init => RoundTripInv
            BY DEF Init, RoundTripInv
        <2> QED
            BY <2>1, TypeInit, OneToOneInit, StableInit
    <1>2. TypeOK /\ OneToOne /\ StableInv /\ RoundTripInv /\ [Next]_vars
            => (TypeOK /\ OneToOne /\ StableInv /\ RoundTripInv)'
        BY TypeStep, OneToOneStep, StableStep, RoundTripStep
    <1>3. RoundTripInv => RoundTrip
        BY DEF RoundTripInv, RoundTrip
    <1> QED
        BY <1>1, <1>2, <1>3, PTL DEF Spec
=============================================================================
