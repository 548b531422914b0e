------------------------------ MODULE MenuProofs ------------------------------
(***************************************************************************)
(* What the menu shows and does, for any number of layouts, windows and    *)
(* monitors, and whatever happens while it is open.                        *)
(***************************************************************************)
EXTENDS Menu, FiniteSetTheorems, FunctionTheorems, NaturalsInduction, SequenceTheorems, TLAPS

(***************************************************************************)
(* A nonempty set of numbers has a least member: the form of induction the *)
(* provers can use.                                                        *)
(***************************************************************************)
Smaller == {p \in Nat \X Nat : p[1] < p[2]}

LEMMA SmallerIsWellFounded == IsWellFoundedOn(Smaller, Nat)
    BY NatLessThanWellFounded DEF OpToRel, Smaller

LEMMA LeastMember ==
    ASSUME NEW T, T \subseteq Nat, T # {}
    PROVE  \E n \in T : \A m \in T : n <= m
    <1>1. PICK n \in T : \A m \in T : ~(<<m, n>> \in Smaller)
        BY SmallerIsWellFounded, WFMin
    <1>2. ASSUME NEW m \in T PROVE n <= m
        <2>1. <<m, n>> \in Nat \X Nat /\ <<m, n>>[1] = m /\ <<m, n>>[2] = n
            OBVIOUS
        <2>2. ~(m < n)
            BY <1>1, <2>1 DEF Smaller
        <2> QED
            BY <2>2
    <1> QED
        BY <1>2

-----------------------------------------------------------------------------
(***************************************************************************)
(* Joined: the loop exists for every number of lists, ...                  *)
(***************************************************************************)
Joins(f, lists, n) ==
    f = [k \in 0 .. n |-> IF k = 0 THEN <<>> ELSE f[k - 1] \o lists[k]]

LEMMA JoinsUpTo ==
    ASSUME NEW lists, NEW n \in Nat
    PROVE  \E f : Joins(f, lists, n)
    <1> DEFINE Step(f, k) == IF k = 0 THEN <<>> ELSE f[k - 1] \o lists[k]
               Fcn(f, m)  == f = [k \in 0 .. m |-> Step(f, k)]
               Wrong      == {m \in Nat : ~\E f : Fcn(f, m)}
    <1>1. ASSUME Wrong # {} PROVE FALSE
        <2>1. PICK m \in Wrong : \A j \in Wrong : m <= j
            <3>1. Wrong \subseteq Nat
                OBVIOUS
            <3> HIDE DEF Wrong
            <3> QED
                BY <1>1, <3>1, LeastMember
        <2>2. CASE m = 0
            <3> DEFINE f == [k \in 0 .. 0 |-> <<>>]
            <3>1. \A k \in 0 .. 0 : k = 0
                OBVIOUS
            <3>2. [k \in 0 .. 0 |-> <<>>] = [k \in 0 .. 0 |-> Step(f, k)]
                BY <3>1
            <3>3. Fcn(f, m)
                BY <2>2, <3>2
            <3> QED
                BY <2>1, <3>3
        <2>3. CASE m # 0
            <3>1. m \in Nat /\ m - 1 \in Nat /\ ~(m <= m - 1)
                BY <2>1, <2>3
            <3>2. PICK f : Fcn(f, m - 1)
                BY <2>1, <3>1
            <3> DEFINE g == [k \in 0 .. m |-> IF k = m THEN Step(f, m) ELSE f[k]]
            <3>3. ASSUME NEW k \in 0 .. m PROVE g[k] = Step(g, k)
                <4>1. k # 0 => k - 1 \in 0 .. m /\ k - 1 # m
                    BY <3>1
                <4>2. k # 0 => g[k - 1] = f[k - 1]
                    BY <4>1
                <4>3. Step(g, k) = Step(f, k)
                    BY <4>2
                <4>4. CASE k = m
                    BY <4>3, <4>4
                <4>5. CASE k # m
                    <5>1. k \in 0 .. m - 1
                        BY <3>1, <4>5
                    <5>2. f[k] = Step(f, k)
                        BY <3>2, <5>1
                    <5> QED
                        BY <4>3, <4>5, <5>2
                <4> QED
                    BY <4>4, <4>5
            <3>4. g = [k \in 0 .. m |-> g[k]]
                OBVIOUS
            <3> HIDE DEF g
            <3>5. Fcn(g, m)
                BY <3>3, <3>4
            <3> QED
                BY <2>1, <3>5
        <2> QED
            BY <2>2, <2>3
    <1>2. \E f : Fcn(f, n)
        BY <1>1
    <1> QED
        BY <1>2 DEF Joins

Sums(f, lists, n) ==
    /\ f[0] = <<>>
    /\ \A k \in 1 .. n : f[k] = f[k - 1] \o lists[k]
    /\ Joined(lists, n) = f[n]

LEMMA JoinedSteps ==
    ASSUME NEW S, NEW n \in Nat, NEW lists, \A k \in 1 .. n : lists[k] \in Seq(S)
    PROVE  \E f \in [0 .. n -> Seq(S)] : Sums(f, lists, n)
    <1> DEFINE Fcn(f) == f = [k \in 0 .. n |-> IF k = 0 THEN <<>> ELSE f[k - 1] \o lists[k]]
               f      == CHOOSE f : Fcn(f)
    <1>1. Fcn(f)
        <2>1. \E g : Fcn(g)
            BY JoinsUpTo DEF Joins
        <2> HIDE DEF Fcn
        <2> QED
            BY <2>1
    <1>2. Joined(lists, n) = f[n]
        BY DEF Joined
    <1> HIDE DEF f
    <1>3. f[0] = <<>> /\ \A k \in 1 .. n : f[k] = f[k - 1] \o lists[k]
        <2>1. \A k \in 0 .. n : f[k] = IF k = 0 THEN <<>> ELSE f[k - 1] \o lists[k]
            <3> DEFINE Body(k) == IF k = 0 THEN <<>> ELSE f[k - 1] \o lists[k]
            <3>1. f = [k \in 0 .. n |-> Body(k)]
                BY <1>1
            <3> HIDE DEF Body
            <3>2. \A k \in 0 .. n : f[k] = Body(k)
                BY <3>1
            <3> QED
                BY <3>2 DEF Body
        <2>2. 0 \in 0 .. n /\ \A k \in 1 .. n : k \in 0 .. n /\ k # 0
            OBVIOUS
        <2>3. f[0] = <<>>
            BY <2>1, <2>2
        <2>4. ASSUME NEW k \in 1 .. n PROVE f[k] = f[k - 1] \o lists[k]
            BY <2>1, <2>2
        <2> QED
            BY <2>3, <2>4
    <1> DEFINE Wrong == {k \in 0 .. n : f[k] \notin Seq(S)}
    <1>4. ASSUME Wrong # {} PROVE FALSE
        <2>1. PICK k \in Wrong : \A j \in Wrong : k <= j
            <3>1. Wrong \subseteq Nat
                OBVIOUS
            <3> HIDE DEF Wrong
            <3> QED
                BY <1>4, <3>1, LeastMember
        <2>2. k # 0
            <3>1. <<>> \in Seq(S)
                OBVIOUS
            <3> QED
                BY <1>3, <2>1, <3>1
        <2>3. k \in 1 .. n /\ k - 1 \in 0 .. n /\ ~(k <= k - 1)
            BY <2>1, <2>2
        <2>4. f[k - 1] \in Seq(S) /\ lists[k] \in Seq(S)
            BY <2>1, <2>3
        <2>5. f[k] = f[k - 1] \o lists[k]
            BY <1>3, <2>3
        <2>6. f[k] \in Seq(S)
            <3> DEFINE s == f[k - 1]
                       t == lists[k]
            <3>1. s \in Seq(S) /\ t \in Seq(S)
                BY <2>4
            <3> HIDE DEF s, t
            <3>2. s \o t \in Seq(S)
                BY <3>1
            <3> QED
                BY <2>5, <3>2 DEF s, t
        <2> QED
            BY <2>1, <2>6
    <1>5. f \in [0 .. n -> Seq(S)]
        BY <1>1, <1>4
    <1> QED
        BY <1>2, <1>3, <1>5 DEF Sums

(***************************************************************************)
(* ... and it returns what is in the lists, and nothing else.              *)
(***************************************************************************)
MembersOf(s) == {s[k] : k \in DOMAIN s}

LEMMA MembersOfJoint ==
    ASSUME NEW S, NEW s \in Seq(S), NEW t \in Seq(S)
    PROVE  MembersOf(s \o t) = MembersOf(s) \cup MembersOf(t)
    <1> DEFINE u == s \o t
    <1>1. /\ Len(u) = Len(s) + Len(t) /\ Len(s) \in Nat /\ Len(t) \in Nat
          /\ DOMAIN u = 1 .. Len(u) /\ DOMAIN s = 1 .. Len(s) /\ DOMAIN t = 1 .. Len(t)
          /\ \A k \in 1 .. Len(u) : u[k] = IF k <= Len(s) THEN s[k] ELSE t[k - Len(s)]
        OBVIOUS
    <1> HIDE DEF u
    <1>2. ASSUME NEW k \in 1 .. Len(u) PROVE u[k] \in MembersOf(s) \cup MembersOf(t)
        <2>1. CASE k <= Len(s)
            BY <1>1, <2>1 DEF MembersOf
        <2>2. CASE ~(k <= Len(s))
            <3>1. k - Len(s) \in 1 .. Len(t)
                BY <1>1, <2>2
            <3> QED
                BY <1>1, <2>2, <3>1 DEF MembersOf
        <2> QED
            BY <2>1, <2>2
    <1>3. ASSUME NEW k \in 1 .. Len(s) PROVE s[k] \in MembersOf(u)
        <2>1. k \in 1 .. Len(u) /\ k <= Len(s)
            BY <1>1
        <2> QED
            BY <1>1, <2>1 DEF MembersOf
    <1>4. ASSUME NEW k \in 1 .. Len(t) PROVE t[k] \in MembersOf(u)
        <2>1. k + Len(s) \in 1 .. Len(u) /\ ~(k + Len(s) <= Len(s)) /\ (k + Len(s)) - Len(s) = k
            BY <1>1
        <2>2. u[k + Len(s)] = t[k]
            BY <1>1, <2>1
        <2> QED
            BY <1>1, <2>1, <2>2 DEF MembersOf
    <1>5. MembersOf(u) = MembersOf(s) \cup MembersOf(t)
        BY <1>1, <1>2, <1>3, <1>4 DEF MembersOf
    <1> QED
        BY <1>5 DEF u

-----------------------------------------------------------------------------
(***************************************************************************)
(* Less orders the monitors, but for those with equal keys.                *)
(***************************************************************************)
Rank(m) == IF m.primary THEN 1 ELSE 0

SameKey(m, n) ==
    m.y = n.y /\ m.x = n.x /\ m.w = n.w /\ m.h = n.h /\ m.scale = n.scale
        /\ m.primary = n.primary

Precedes(m, n) ==
    \/ m.y < n.y
    \/ m.y = n.y /\ m.x < n.x
    \/ m.y = n.y /\ m.x = n.x /\ m.w < n.w
    \/ m.y = n.y /\ m.x = n.x /\ m.w = n.w /\ m.h < n.h
    \/ m.y = n.y /\ m.x = n.x /\ m.w = n.w /\ m.h = n.h /\ m.scale < n.scale
    \/ m.y = n.y /\ m.x = n.x /\ m.w = n.w /\ m.h = n.h /\ m.scale = n.scale
        /\ Rank(m) < Rank(n)

LEMMA LessIsPrecedes ==
    ASSUME NEW m \in Monitor, NEW n \in Monitor
    PROVE  Less(m, n) <=> Precedes(m, n)
    <1> DEFINE k == Key(m)
               l == Key(n)
    <1>1. /\ k[1] = m.y /\ k[2] = m.x /\ k[3] = m.w /\ k[4] = m.h /\ k[5] = m.scale
          /\ k[6] = Rank(m)
        BY DEF Key, Rank
    <1>2. /\ l[1] = n.y /\ l[2] = n.x /\ l[3] = n.w /\ l[4] = n.h /\ l[5] = n.scale
          /\ l[6] = Rank(n)
        BY DEF Key, Rank
    <1>3. Less(m, n) <=> \E i \in 1 .. 6 : k[i] < l[i] /\ \A j \in 1 .. i - 1 : k[j] = l[j]
        BY DEF Less
    <1> HIDE DEF k, l
    <1>4. ASSUME NEW i \in 1 .. 6, k[i] < l[i], \A j \in 1 .. i - 1 : k[j] = l[j]
          PROVE  Precedes(m, n)
        <2>1. i = 1 \/ i = 2 \/ i = 3 \/ i = 4 \/ i = 5 \/ i = 6
            OBVIOUS
        <2>2. CASE i = 1
            BY <1>1, <1>2, <1>4, <2>2 DEF Precedes
        <2>3. CASE i = 2
            BY <1>1, <1>2, <1>4, <2>3 DEF Precedes
        <2>4. CASE i = 3
            <3>1. 1 \in 1 .. i - 1 /\ 2 \in 1 .. i - 1
                BY <2>4
            <3> QED
                BY <1>1, <1>2, <1>4, <2>4, <3>1 DEF Precedes
        <2>5. CASE i = 4
            <3>1. 1 \in 1 .. i - 1 /\ 2 \in 1 .. i - 1 /\ 3 \in 1 .. i - 1
                BY <2>5
            <3> QED
                BY <1>1, <1>2, <1>4, <2>5, <3>1 DEF Precedes
        <2>6. CASE i = 5
            <3>1. 1 \in 1 .. i - 1 /\ 2 \in 1 .. i - 1 /\ 3 \in 1 .. i - 1 /\ 4 \in 1 .. i - 1
                BY <2>6
            <3> QED
                BY <1>1, <1>2, <1>4, <2>6, <3>1 DEF Precedes
        <2>7. CASE i = 6
            <3>1. /\ 1 \in 1 .. i - 1 /\ 2 \in 1 .. i - 1 /\ 3 \in 1 .. i - 1
                  /\ 4 \in 1 .. i - 1 /\ 5 \in 1 .. i - 1
                BY <2>7
            <3> QED
                BY <1>1, <1>2, <1>4, <2>7, <3>1 DEF Precedes
        <2> QED
            BY <2>1, <2>2, <2>3, <2>4, <2>5, <2>6, <2>7
    <1>5. ASSUME Precedes(m, n)
          PROVE  \E i \in 1 .. 6 : k[i] < l[i] /\ \A j \in 1 .. i - 1 : k[j] = l[j]
        <2>1. ASSUME NEW j \in 1 .. 5 PROVE j = 1 \/ j = 2 \/ j = 3 \/ j = 4 \/ j = 5
            OBVIOUS
        <2>2. CASE m.y < n.y
            <3>1. k[1] < l[1] /\ \A j \in 1 .. 1 - 1 : k[j] = l[j]
                BY <1>1, <1>2, <2>2
            <3> QED
                BY <3>1
        <2>3. CASE m.y = n.y /\ m.x < n.x
            <3>1. k[2] < l[2] /\ \A j \in 1 .. 2 - 1 : k[j] = l[j]
                BY <1>1, <1>2, <2>3
            <3> QED
                BY <3>1
        <2>4. CASE m.y = n.y /\ m.x = n.x /\ m.w < n.w
            <3>1. k[3] < l[3] /\ \A j \in 1 .. 3 - 1 : k[j] = l[j]
                <4>1. \A j \in 1 .. 3 - 1 : j = 1 \/ j = 2
                    OBVIOUS
                <4> QED
                    BY <1>1, <1>2, <2>4, <4>1
            <3> QED
                BY <3>1
        <2>5. CASE m.y = n.y /\ m.x = n.x /\ m.w = n.w /\ m.h < n.h
            <3>1. k[4] < l[4] /\ \A j \in 1 .. 4 - 1 : k[j] = l[j]
                <4>1. \A j \in 1 .. 4 - 1 : j = 1 \/ j = 2 \/ j = 3
                    OBVIOUS
                <4> QED
                    BY <1>1, <1>2, <2>5, <4>1
            <3> QED
                BY <3>1
        <2>6. CASE m.y = n.y /\ m.x = n.x /\ m.w = n.w /\ m.h = n.h /\ m.scale < n.scale
            <3>1. k[5] < l[5] /\ \A j \in 1 .. 5 - 1 : k[j] = l[j]
                <4>1. \A j \in 1 .. 5 - 1 : j = 1 \/ j = 2 \/ j = 3 \/ j = 4
                    OBVIOUS
                <4> QED
                    BY <1>1, <1>2, <2>6, <4>1
            <3> QED
                BY <3>1
        <2>7. CASE /\ m.y = n.y /\ m.x = n.x /\ m.w = n.w /\ m.h = n.h /\ m.scale = n.scale
                   /\ Rank(m) < Rank(n)
            <3>1. k[6] < l[6] /\ \A j \in 1 .. 6 - 1 : k[j] = l[j]
                <4>1. \A j \in 1 .. 6 - 1 : j = 1 \/ j = 2 \/ j = 3 \/ j = 4 \/ j = 5
                    OBVIOUS
                <4> QED
                    BY <1>1, <1>2, <2>7, <4>1
            <3> QED
                BY <3>1
        <2> QED
            BY <1>5, <2>2, <2>3, <2>4, <2>5, <2>6, <2>7 DEF Precedes
    <1> QED
        BY <1>3, <1>4, <1>5

LEMMA MonitorFields ==
    ASSUME NEW m \in Monitor
    PROVE  /\ m.x \in Int /\ m.y \in Int /\ m.w \in Int /\ m.h \in Int /\ m.scale \in Int
           /\ m.primary \in BOOLEAN /\ Rank(m) \in Int
    BY DEF Monitor, Rank

LEMMA LessIsAnOrder ==
    ASSUME NEW l \in Monitor, NEW m \in Monitor, NEW n \in Monitor
    PROVE  /\ ~Less(m, m)
           /\ Less(l, m) /\ Less(m, n) => Less(l, n)
           /\ Less(m, n) \/ Less(n, m) \/ SameKey(m, n)
           /\ SameKey(l, m) /\ Less(m, n) => Less(l, n)
           /\ SameKey(m, n) /\ Less(l, m) => Less(l, n)
    <1>1. ~Precedes(m, m)
        BY MonitorFields DEF Precedes
    <1>2. Precedes(l, m) /\ Precedes(m, n) => Precedes(l, n)
        BY MonitorFields, SMTT(60) DEF Precedes
    <1>3. Precedes(m, n) \/ Precedes(n, m) \/ SameKey(m, n)
        <2>1. Rank(m) = Rank(n) => m.primary = n.primary
            BY MonitorFields DEF Rank
        <2> QED
            BY <2>1, MonitorFields DEF Precedes, SameKey
    <1>4. \A a, b : SameKey(a, b) => Rank(a) = Rank(b)
        BY DEF SameKey, Rank
    <1>5. SameKey(l, m) /\ Precedes(m, n) => Precedes(l, n)
        BY <1>4 DEF Precedes, SameKey
    <1>6. SameKey(m, n) /\ Precedes(l, m) => Precedes(l, n)
        BY <1>4 DEF Precedes, SameKey
    <1> QED
        BY <1>1, <1>2, <1>3, <1>5, <1>6, LessIsPrecedes

(***************************************************************************)
(* Moving all monitors by the same distance changes no order.              *)
(***************************************************************************)
LEMMA LessMoves ==
    ASSUME NEW a \in Monitor, NEW b \in Monitor, NEW c \in Monitor, NEW d \in Monitor,
           Alike(a, c), Alike(b, d), a.x - b.x = c.x - d.x, a.y - b.y = c.y - d.y
    PROVE  Less(a, b) <=> Less(c, d)
    <1>1. Rank(a) = Rank(c) /\ Rank(b) = Rank(d)
        BY DEF Rank, Alike
    <1> DEFINE Moved(p, q, r, s) == (p < q <=> r < s) /\ (p = q <=> r = s)
    <1>2. \A p, q, r, s \in Int : p - q = r - s => Moved(p, q, r, s)
        OBVIOUS
    <1>3. Moved(a.x, b.x, c.x, d.x) /\ Moved(a.y, b.y, c.y, d.y)
        <2> HIDE DEF Moved
        <2> QED
            BY <1>2, MonitorFields
    <1>4. Precedes(a, b) <=> Precedes(c, d)
        BY <1>1, <1>2, <1>3 DEF Precedes, Alike
    <1> QED
        BY <1>4, LessIsPrecedes

(***************************************************************************)
(* The elements of a sequence can be put in order: each goes to the place  *)
(* that is the number of those that come before it.                        *)
(***************************************************************************)
InOrder(ms) == \A i, j \in DOMAIN ms : i < j => ~Less(ms[j], ms[i])

Before(ms, j, i) == Less(ms[j], ms[i]) \/ (~Less(ms[i], ms[j]) /\ j < i)

LEMMA BeforeIsAnOrder ==
    ASSUME NEW ms \in Seq(Monitor), NEW i \in DOMAIN ms, NEW j \in DOMAIN ms,
           NEW k \in DOMAIN ms
    PROVE  /\ ~Before(ms, i, i)
           /\ i # j => Before(ms, i, j) \/ Before(ms, j, i)
           /\ Before(ms, i, j) /\ Before(ms, j, k) => Before(ms, i, k)
    <1>1. i \in Int /\ j \in Int /\ k \in Int
        OBVIOUS
    <1>2. ms[i] \in Monitor /\ ms[j] \in Monitor /\ ms[k] \in Monitor
        OBVIOUS
    <1> DEFINE a == ms[i]
               b == ms[j]
               c == ms[k]
    <1>3. a \in Monitor /\ b \in Monitor /\ c \in Monitor
        BY <1>2
    <1> HIDE DEF a, b, c
    <1>4. ~Less(a, a) /\ ~Less(b, b)
        BY <1>3, LessIsAnOrder
    <1>5. Less(a, b) => ~Less(b, a)
        BY <1>3, <1>4, LessIsAnOrder
    <1>6. Less(a, b) /\ Less(b, c) => Less(a, c)
        BY <1>3, LessIsAnOrder
    <1>7. Less(c, a) /\ Less(a, b) => Less(c, b)
        BY <1>3, LessIsAnOrder
    <1>8. Less(b, c) /\ Less(c, a) => Less(b, a)
        BY <1>3, LessIsAnOrder
    <1>9. Less(a, b) /\ ~Less(c, b) => Less(a, c)
        BY <1>3, LessIsAnOrder
    <1>10. ~Less(b, a) /\ Less(b, c) => Less(a, c)
        BY <1>3, LessIsAnOrder
    <1>11. ~Less(b, a) /\ ~Less(c, b) => ~Less(c, a)
        BY <1>3, LessIsAnOrder
    <1>12. Before(ms, i, j) <=> Less(a, b) \/ (~Less(b, a) /\ i < j)
        BY DEF Before, a, b
    <1>13. Before(ms, j, k) <=> Less(b, c) \/ (~Less(c, b) /\ j < k)
        BY DEF Before, c, b
    <1>14. Before(ms, i, k) <=> Less(a, c) \/ (~Less(c, a) /\ i < k)
        BY DEF Before, a, c
    <1>15. Before(ms, j, i) <=> Less(b, a) \/ (~Less(a, b) /\ j < i)
        BY DEF Before, a, b
    <1>16. Before(ms, i, i) <=> Less(a, a) \/ (~Less(a, a) /\ i < i)
        BY DEF Before, a
    <1>17. i < j /\ j < k => i < k
        BY <1>1
    <1>18. (i # j => i < j \/ j < i) /\ ~(i < i)
        BY <1>1
    <1> QED
        BY <1>4, <1>5, <1>6, <1>9, <1>10, <1>11, <1>12, <1>13, <1>14, <1>15, <1>16,
           <1>17, <1>18

LEMMA SortingExists ==
    ASSUME NEW ms \in Seq(Monitor)
    PROVE  \E p \in Bijection(DOMAIN ms, DOMAIN ms) :
              \A i, j \in DOMAIN ms : i < j => ~Less(ms[p[j]], ms[p[i]])
    <1> DEFINE D == DOMAIN ms
               n == Len(ms)
               Earlier(i) == {j \in D : Before(ms, j, i)}
               place == [i \in D |-> Cardinality(Earlier(i)) + 1]
    <1>1. n \in Nat /\ D = 1 .. n
        OBVIOUS
    <1>2. IsFiniteSet(D) /\ Cardinality(D) = n
        <2>1. IsFiniteSet(1 .. n) /\ Cardinality(1 .. n) = IF 1 > n THEN 0 ELSE n - 1 + 1
            <3>1. 1 \in Int /\ n \in Int
                BY <1>1
            <3> HIDE DEF n
            <3> QED
                BY <3>1, FS_Interval
        <2> HIDE DEF n, D
        <2> QED
            BY <1>1, <2>1
    <1> HIDE DEF n, D
    <1>3. ASSUME NEW i \in D
          PROVE  IsFiniteSet(Earlier(i)) /\ Cardinality(Earlier(i)) \in Nat
                    /\ Cardinality(Earlier(i)) < n
        <2>1. Earlier(i) \in SUBSET D /\ Earlier(i) # D
            <3>1. i \notin Earlier(i)
                BY BeforeIsAnOrder DEF D
            <3> QED
                BY <3>1
        <2> HIDE DEF Earlier
        <2>2. /\ IsFiniteSet(Earlier(i)) /\ Cardinality(Earlier(i)) <= Cardinality(D)
              /\ Cardinality(D) = Cardinality(Earlier(i)) => D = Earlier(i)
            BY <1>2, <2>1, FS_Subset
        <2>3. Cardinality(Earlier(i)) \in Nat
            BY <2>2, FS_CardinalityType
        <2> QED
            BY <1>1, <1>2, <2>1, <2>2, <2>3
    <1>4. ASSUME NEW i \in D, NEW j \in D, Before(ms, i, j)
          PROVE  place[i] < place[j]
        <2>1. Earlier(i) \in SUBSET Earlier(j) /\ Earlier(i) # Earlier(j)
            <3>1. i \in Earlier(j)
                BY <1>4
            <3>2. i \notin Earlier(i)
                BY BeforeIsAnOrder DEF D
            <3>3. \A k \in Earlier(i) : k \in D /\ Before(ms, k, i)
                OBVIOUS
            <3>4. \A k \in D : Before(ms, k, i) => Before(ms, k, j)
                BY <1>4, BeforeIsAnOrder DEF D
            <3> QED
                BY <3>1, <3>2, <3>3, <3>4
        <2>2. place[i] = Cardinality(Earlier(i)) + 1 /\ place[j] = Cardinality(Earlier(j)) + 1
            OBVIOUS
        <2> HIDE DEF Earlier, place
        <2>3. /\ IsFiniteSet(Earlier(j)) /\ Cardinality(Earlier(j)) \in Nat
              /\ Cardinality(Earlier(i)) \in Nat
            BY <1>3
        <2>4. /\ Cardinality(Earlier(i)) <= Cardinality(Earlier(j))
              /\ Cardinality(Earlier(j)) = Cardinality(Earlier(i)) => Earlier(j) = Earlier(i)
            BY <2>1, <2>3, FS_Subset
        <2> QED
            BY <2>1, <2>2, <2>3, <2>4
    <1>5. place \in [D -> D]
        <2>1. ASSUME NEW i \in D PROVE Cardinality(Earlier(i)) + 1 \in D
            <3> HIDE DEF Earlier, place
            <3> QED
                BY <1>1, <1>3
        <2> HIDE DEF Earlier
        <2> QED
            BY <2>1
    <1> HIDE DEF place, Earlier
    <1>6. \A i \in D : place[i] \in Int
        BY <1>1, <1>5
    <1>7. place \in Injection(D, D)
        <2>1. ASSUME NEW i \in D, NEW j \in D, place[i] = place[j] PROVE i = j
            <3>1. ~(place[i] < place[j]) /\ ~(place[j] < place[i])
                BY <1>6, <2>1
            <3>2. i # j => Before(ms, i, j) \/ Before(ms, j, i)
                BY BeforeIsAnOrder DEF D
            <3> QED
                BY <1>4, <3>1, <3>2
        <2> QED
            BY <1>5, <2>1, Fun_IsInj
    <1>8. place \in Bijection(D, D)
        <2>1. place \in Surjection(D, D)
            BY <1>2, <1>7, FS_Injection
        <2> QED
            BY <1>7, <2>1 DEF Bijection
    <1> DEFINE p == Inverse(place, D, D)
    <1>9. p \in Bijection(D, D) /\ \A i \in D : p[place[i]] = i
        BY <1>8, Fun_BijInverse
    <1>10. \A k \in D : p[k] \in D /\ place[p[k]] = k
        <2>1. \A t \in D : \E s \in D : place[s] = t
            BY <1>8, Fun_BijectionProperties
        <2> HIDE DEF p
        <2> QED
            BY <1>9, <2>1
    <1> HIDE DEF p
    <1>11. ASSUME NEW i \in D, NEW j \in D, i < j PROVE ~Less(ms[p[j]], ms[p[i]])
        <2>1. p[i] \in D /\ p[j] \in D /\ place[p[i]] = i /\ place[p[j]] = j
            BY <1>10
        <2>2. i \in Int /\ j \in Int
            BY <1>1
        <2>3. Before(ms, p[j], p[i]) => place[p[j]] < place[p[i]]
            BY <1>4, <2>1
        <2>4. ~(j < i)
            BY <1>11, <2>2
        <2>5. ~Before(ms, p[j], p[i])
            BY <2>1, <2>3, <2>4
        <2> QED
            BY <2>5 DEF Before
    <1> QED
        BY <1>9, <1>11 DEF D

(***************************************************************************)
(* Sorted is a rearrangement in order, ...                                 *)
(***************************************************************************)
LEMMA SortedIs ==
    ASSUME NEW ms \in Seq(Monitor)
    PROVE  \E p \in Bijection(DOMAIN ms, DOMAIN ms) :
              /\ Sorted(ms) = [k \in DOMAIN ms |-> ms[p[k]]]
              /\ InOrder([k \in DOMAIN ms |-> ms[p[k]]])
    <1> DEFINE Sorting(p) == \A i, j \in DOMAIN ms : i < j => ~Less(ms[p[j]], ms[p[i]])
               p == CHOOSE p \in Bijection(DOMAIN ms, DOMAIN ms) : Sorting(p)
    <1>1. Sorted(ms) = [k \in DOMAIN ms |-> ms[p[k]]]
        BY DEF Sorted
    <1>2. p \in Bijection(DOMAIN ms, DOMAIN ms) /\ Sorting(p)
        <2>1. \E q \in Bijection(DOMAIN ms, DOMAIN ms) : Sorting(q)
            BY SortingExists
        <2> HIDE DEF Sorting
        <2> QED
            BY <2>1
    <1> HIDE DEF p
    <1>3. InOrder([k \in DOMAIN ms |-> ms[p[k]]])
        BY <1>2 DEF InOrder
    <1> QED
        BY <1>1, <1>2, <1>3

LEMMA Permutation ==
    ASSUME NEW D, NEW p \in Bijection(D, D)
    PROVE  /\ p \in [D -> D]
           /\ \A i, j \in D : p[i] = p[j] => i = j
           /\ \E r \in Bijection(D, D) : \A i \in D : r[p[i]] = i /\ p[r[i]] = i
    <1>1. /\ p \in [D -> D] /\ \A i, j \in D : p[i] = p[j] => i = j
          /\ \A j \in D : \E i \in D : p[i] = j
        BY Fun_BijectionProperties
    <1>2. PICK r : r \in Bijection(D, D) /\ \A i \in D : r[p[i]] = i
        <2> DEFINE back == Inverse(p, D, D)
        <2>1. back \in Bijection(D, D) /\ \A i \in D : back[p[i]] = i
            BY Fun_BijInverse
        <2> HIDE DEF back
        <2> QED
            BY <2>1
    <1>3. \A i \in D : p[r[i]] = i
        BY <1>1, <1>2
    <1> QED
        BY <1>1, <1>2, <1>3

(***************************************************************************)
(* ... and there is only one such, up to equal keys: the first place where *)
(* two differ would leave the one more elements before it than there are   *)
(* places.                                                                 *)
(***************************************************************************)
LEMMA SortedOnce ==
    ASSUME NEW n \in Nat, NEW u \in [1 .. n -> Monitor], NEW t \in [1 .. n -> Monitor],
           InOrder(u), InOrder(t),
           NEW s \in Bijection(1 .. n, 1 .. n), \A i \in 1 .. n : t[i] = u[s[i]],
           NEW k \in 1 .. n
    PROVE  ~Less(u[k], t[k])
    <1>1. SUFFICES ASSUME Less(u[k], t[k]) PROVE FALSE
        OBVIOUS
    <1>2. DOMAIN u = 1 .. n /\ DOMAIN t = 1 .. n
        OBVIOUS
    <1>3. ASSUME NEW i \in k .. n PROVE s[i] \in k + 1 .. n
        <2>1. i \in 1 .. n /\ s[i] \in 1 .. n /\ k \in Int /\ i \in Int /\ k <= i
            <3>1. s \in [1 .. n -> 1 .. n]
                BY Fun_BijectionProperties
            <3> QED
                BY <3>1
        <2>2. Less(u[k], t[i])
            <3>1. ~Less(t[i], t[k])
                <4>1. k < i => ~Less(t[i], t[k])
                    BY <1>2, <2>1 DEF InOrder
                <4>2. k = i => ~Less(t[i], t[k])
                    BY <2>1, LessIsAnOrder
                <4> QED
                    BY <2>1, <4>1, <4>2
            <3>2. u[k] \in Monitor /\ t[k] \in Monitor /\ t[i] \in Monitor
                BY <2>1
            <3>3. Less(t[k], t[i]) \/ SameKey(t[k], t[i])
                BY <3>1, <3>2, LessIsAnOrder
            <3> QED
                BY <1>1, <3>2, <3>3, LessIsAnOrder
        <2>3. ASSUME s[i] <= k PROVE FALSE
            <3>1. ~Less(u[k], u[s[i]])
                <4>1. s[i] < k => ~Less(u[k], u[s[i]])
                    BY <1>2, <2>1 DEF InOrder
                <4>2. s[i] = k => ~Less(u[k], u[s[i]])
                    BY <2>1, LessIsAnOrder
                <4> QED
                    BY <2>1, <2>3, <4>1, <4>2
            <3> QED
                BY <2>1, <2>2, <3>1
        <2> QED
            BY <2>1, <2>3
    <1> DEFINE f == [i \in k .. n |-> s[i]]
    <1>4. f \in Injection(k .. n, k + 1 .. n)
        <2>1. f \in [k .. n -> k + 1 .. n]
            BY <1>3
        <2>2. \A i, j \in k .. n : f[i] = f[j] => i = j
            <3>1. \A i, j \in 1 .. n : s[i] = s[j] => i = j
                BY Permutation
            <3>2. \A i \in k .. n : i \in 1 .. n
                OBVIOUS
            <3> QED
                BY <3>1, <3>2
        <2> HIDE DEF f
        <2> QED
            BY <2>1, <2>2, Fun_IsInj
    <1> HIDE DEF f
    <1>5. k \in Int /\ n \in Int /\ k + 1 \in Int /\ ~(k > n)
        OBVIOUS
    <1>6. Cardinality(k .. n) = n - k + 1
        BY <1>5, FS_Interval
    <1>7. /\ IsFiniteSet(k + 1 .. n)
          /\ Cardinality(k + 1 .. n) = IF k + 1 > n THEN 0 ELSE n - (k + 1) + 1
        BY <1>5, FS_Interval
    <1>8. Cardinality(k .. n) <= Cardinality(k + 1 .. n)
        BY <1>4, <1>7, FS_Injection
    <1> QED
        BY <1>5, <1>6, <1>7, <1>8

LEMMA SortedUnique ==
    ASSUME NEW n \in Nat, NEW u \in [1 .. n -> Monitor], NEW t \in [1 .. n -> Monitor],
           InOrder(u), InOrder(t),
           NEW s \in Bijection(1 .. n, 1 .. n), \A i \in 1 .. n : t[i] = u[s[i]],
           NEW k \in 1 .. n
    PROVE  SameKey(u[k], t[k])
    <1>1. ~Less(u[k], t[k])
        BY SortedOnce
    <1>2. ~Less(t[k], u[k])
        <2>1. PICK r \in Bijection(1 .. n, 1 .. n) :
                 \A i \in 1 .. n : r[s[i]] = i /\ s[r[i]] = i
            BY Permutation
        <2>2. r \in [1 .. n -> 1 .. n]
            BY Permutation
        <2>3. \A j \in 1 .. n : u[j] = t[r[j]]
            BY <2>1, <2>2
        <2> QED
            BY <2>1, <2>3, SortedOnce
    <1>3. u[k] \in Monitor /\ t[k] \in Monitor
        OBVIOUS
    <1> QED
        BY <1>1, <1>2, <1>3, LessIsAnOrder

(***************************************************************************)
(* What a fingerprint consists of: the monitors in order, relative to the  *)
(* first primary one.                                                      *)
(***************************************************************************)
OriginAt(s, o) ==
    IF \E k \in DOMAIN s : s[k].primary
    THEN s[o].primary /\ \A k \in DOMAIN s : s[k].primary => o <= k
    ELSE o = 1

CanonAt(m, origin) ==
    [x |-> m.x - origin.x, y |-> m.y - origin.y, w |-> m.w, h |-> m.h,
     scale |-> m.scale, primary |-> m.primary]

LEMMA OriginIs ==
    ASSUME NEW n \in Nat, n # 0, NEW s \in [1 .. n -> Monitor]
    PROVE  \E o \in 1 .. n : Origin(s) = s[o] /\ OriginAt(s, o)
    <1> DEFINE P == {k \in DOMAIN s : s[k].primary}
    <1>1. DOMAIN s = 1 .. n /\ 1 \in 1 .. n
        OBVIOUS
    <1>2. CASE P = {}
        <2>1. Origin(s) = s[1] /\ OriginAt(s, 1)
            BY <1>2 DEF Origin, OriginAt
        <2> QED
            BY <1>1, <2>1
    <1>3. CASE P # {}
        <2> DEFINE First(k) == \A l \in P : k <= l
                   o == CHOOSE k \in P : First(k)
        <2>1. Origin(s) = s[o]
            BY <1>3 DEF Origin
        <2>2. o \in P /\ First(o)
            <3>1. P \subseteq Nat
                BY <1>1
            <3>2. \E k \in P : First(k)
                <4> HIDE DEF P
                <4> QED
                    BY <1>3, <3>1, LeastMember
            <3> HIDE DEF First, P
            <3> QED
                BY <3>2
        <2> HIDE DEF o
        <2>3. OriginAt(s, o)
            BY <2>2 DEF OriginAt
        <2> QED
            BY <1>1, <2>1, <2>2, <2>3
    <1> QED
        BY <1>2, <1>3

Orders(p, o, ms, D) ==
    LET s == [k \in D |-> ms[p[k]]]
    IN  /\ InOrder(s) /\ OriginAt(s, o)
        /\ FingerprintOf(ms) = [k \in D |-> CanonAt(s[k], s[o])]

LEMMA FingerprintIs ==
    ASSUME NEW ms \in Seq(Monitor), ms # <<>>
    PROVE  \E p \in Bijection(DOMAIN ms, DOMAIN ms), o \in DOMAIN ms :
              Orders(p, o, ms, DOMAIN ms)
    <1> DEFINE D == DOMAIN ms
    <1>1. PICK p \in Bijection(DOMAIN ms, DOMAIN ms) :
             /\ Sorted(ms) = [k \in DOMAIN ms |-> ms[p[k]]]
             /\ InOrder([k \in DOMAIN ms |-> ms[p[k]]])
        BY SortedIs
    <1> DEFINE s == [k \in DOMAIN ms |-> ms[p[k]]]
    <1>2. Len(ms) \in Nat /\ Len(ms) # 0 /\ D = 1 .. Len(ms)
        OBVIOUS
    <1>3. s \in [1 .. Len(ms) -> Monitor] /\ DOMAIN s = D
        <2>1. \A k \in D : ms[k] \in Monitor
            OBVIOUS
        <2>2. p \in [D -> D]
            BY Permutation
        <2> QED
            BY <1>2, <2>1, <2>2
    <1>4. Sorted(ms) = s /\ InOrder(s)
        BY <1>1
    <1> HIDE DEF s
    <1>5. PICK o \in 1 .. Len(ms) : Origin(s) = s[o] /\ OriginAt(s, o)
        BY <1>2, <1>3, OriginIs
    <1>6. ASSUME NEW k \in D PROVE Canon(Normalize(ms)[k]) = CanonAt(s[k], s[o])
        <2>1. Normalize(ms) = Relative(s)
            BY <1>4 DEF Normalize
        <2>2. Relative(s)[k] = [s[k] EXCEPT !.x = @ - s[o].x, !.y = @ - s[o].y]
            BY <1>3, <1>5 DEF Relative
        <2>3. s[k] \in Monitor
            BY <1>2, <1>3
        <2> DEFINE m == s[k]
                   b == s[o]
        <2>4. m \in Monitor
            BY <2>3
        <2> HIDE DEF m, b
        <2>5. Canon([m EXCEPT !.x = @ - b.x, !.y = @ - b.y]) = CanonAt(m, b)
            BY <2>4 DEF Canon, CanonAt, Monitor
        <2> QED
            BY <2>1, <2>2, <2>5 DEF m, b
    <1>7. FingerprintOf(ms) = [k \in D |-> Canon(Normalize(ms)[k])]
        BY DEF FingerprintOf
    <1>8. FingerprintOf(ms) = [k \in D |-> CanonAt(s[k], s[o])]
        BY <1>6, <1>7
    <1>9. Orders(p, o, ms, DOMAIN ms)
        BY <1>4, <1>5, <1>8 DEF Orders, s
    <1> QED
        BY <1>2, <1>9

LEMMA PermutationsCompose ==
    ASSUME NEW D, NEW p \in Bijection(D, D), NEW q \in Bijection(D, D)
    PROVE  [i \in D |-> q[p[i]]] \in Bijection(D, D)
    BY Fun_BijTransitive

LEMMA FingerprintType ==
    ASSUME NEW ms \in Seq(Monitor)
    PROVE  FingerprintOf(ms) \in Setup
    <1> DEFINE n == Len(ms)
               R == [x : Int, y : Int, w : Int, h : Int, scale : Int, primary : BOOLEAN]
    <1>1. n \in Nat /\ DOMAIN ms = 1 .. n
        OBVIOUS
    <1>2. CASE ms = <<>>
        <2>1. DOMAIN FingerprintOf(ms) = {} /\ FingerprintOf(ms) = <<>>
            BY <1>2 DEF FingerprintOf
        <2> QED
            BY <2>1 DEF Setup
    <1>3. CASE ms # <<>>
        <2>1. PICK p \in Bijection(DOMAIN ms, DOMAIN ms), o \in DOMAIN ms :
                 Orders(p, o, ms, DOMAIN ms)
            BY <1>3, FingerprintIs
        <2>2. p \in [DOMAIN ms -> DOMAIN ms]
            BY Permutation
        <2>3. FingerprintOf(ms) = [k \in 1 .. n |-> CanonAt(ms[p[k]], ms[p[o]])]
            BY <1>1, <2>1, <2>2 DEF Orders
        <2>4. ASSUME NEW k \in 1 .. n PROVE CanonAt(ms[p[k]], ms[p[o]]) \in R
            <3>1. ms[p[k]] \in Monitor /\ ms[p[o]] \in Monitor
                BY <1>1, <2>2
            <3>2. ASSUME NEW m \in Monitor, NEW b \in Monitor PROVE CanonAt(m, b) \in R
                <4>1. /\ m.x - b.x \in Int /\ m.y - b.y \in Int /\ m.w \in Int /\ m.h \in Int
                      /\ m.scale \in Int /\ m.primary \in BOOLEAN
                    BY MonitorFields
                <4> QED
                    BY <4>1 DEF CanonAt
            <3> QED
                BY <3>1, <3>2
        <2>5. FingerprintOf(ms) \in [1 .. n -> R]
            BY <2>3, <2>4
        <2> HIDE DEF R, n
        <2>6. FingerprintOf(ms) \in Seq(R)
            BY <1>1, <2>5
        <2> QED
            BY <2>6 DEF Setup, R
    <1> QED
        BY <1>2, <1>3

(***************************************************************************)
(* Two arrangements have one fingerprint exactly when one is the other,    *)
(* moved and listed in some order: the work areas do not count, nor where  *)
(* the origin of the desktop is, and nothing else is lost.                 *)
(***************************************************************************)
LEMMA SameHaveOneFingerprint ==
    ASSUME NEW ms \in Seq(Monitor), NEW ns \in Seq(Monitor), Same(ms, ns)
    PROVE  FingerprintOf(ms) = FingerprintOf(ns)
    <1> DEFINE n == Len(ms)
    <1>1. n \in Nat /\ DOMAIN ms = 1 .. n /\ DOMAIN ns = 1 .. n
        BY DEF Same
    <1>2. CASE ms = <<>>
        <2>1. DOMAIN ns = {} /\ ns = <<>>
            BY <1>2 DEF Same
        <2> QED
            BY <1>2, <2>1
    <1>3. CASE ms # <<>>
        <2>1. ns # <<>>
            BY <1>3 DEF Same
        <2> HIDE DEF n
        <2>2. PICK p \in Bijection(1 .. n, 1 .. n) : \A i, j \in 1 .. n :
                 /\ Alike(ms[i], ns[p[i]])
                 /\ ms[i].x - ms[j].x = ns[p[i]].x - ns[p[j]].x
                 /\ ms[i].y - ms[j].y = ns[p[i]].y - ns[p[j]].y
            BY <1>1 DEF Same
        <2>3. PICK q \in Bijection(1 .. n, 1 .. n), o \in 1 .. n : Orders(q, o, ms, 1 .. n)
            BY <1>1, <1>3, FingerprintIs
        <2>4. PICK r \in Bijection(1 .. n, 1 .. n), a \in 1 .. n : Orders(r, a, ns, 1 .. n)
            BY <1>1, <2>1, FingerprintIs
        <2> DEFINE s == [k \in 1 .. n |-> ms[q[k]]]
                   t == [k \in 1 .. n |-> ns[r[k]]]
                   u == [k \in 1 .. n |-> ns[p[q[k]]]]
        <2>5. /\ p \in [1 .. n -> 1 .. n] /\ q \in [1 .. n -> 1 .. n]
              /\ r \in [1 .. n -> 1 .. n]
            BY Permutation
        <2>6. (\A k \in 1 .. n : ms[k] \in Monitor) /\ \A k \in 1 .. n : ns[k] \in Monitor
            BY <1>1
        <2>7. /\ s \in [1 .. n -> Monitor] /\ t \in [1 .. n -> Monitor]
              /\ u \in [1 .. n -> Monitor]
            BY <2>5, <2>6
        <2>8. /\ InOrder(s) /\ OriginAt(s, o)
              /\ FingerprintOf(ms) = [k \in 1 .. n |-> CanonAt(s[k], s[o])]
            BY <2>3 DEF Orders
        <2>9. /\ InOrder(t) /\ OriginAt(t, a)
              /\ FingerprintOf(ns) = [k \in 1 .. n |-> CanonAt(t[k], t[a])]
            BY <2>4 DEF Orders
        <2>10. ASSUME NEW i \in 1 .. n, NEW j \in 1 .. n
               PROVE  /\ Alike(s[i], u[i])
                      /\ s[i].x - s[j].x = u[i].x - u[j].x
                      /\ s[i].y - s[j].y = u[i].y - u[j].y
            <3>1. q[i] \in 1 .. n /\ q[j] \in 1 .. n
                BY <2>5
            <3>2. /\ s[i] = ms[q[i]] /\ s[j] = ms[q[j]]
                  /\ u[i] = ns[p[q[i]]] /\ u[j] = ns[p[q[j]]]
                OBVIOUS
            <3>3. /\ Alike(ms[q[i]], ns[p[q[i]]])
                  /\ ms[q[i]].x - ms[q[j]].x = ns[p[q[i]]].x - ns[p[q[j]]].x
                  /\ ms[q[i]].y - ms[q[j]].y = ns[p[q[i]]].y - ns[p[q[j]]].y
                BY <2>2, <3>1
            <3> HIDE DEF s, u
            <3> QED
                BY <3>2, <3>3
        <2>11. PICK v \in Bijection(1 .. n, 1 .. n) : \A i \in 1 .. n : t[i] = u[v[i]]
            <3>1. PICK g \in Bijection(1 .. n, 1 .. n) :
                     \A i \in 1 .. n : g[p[i]] = i /\ p[g[i]] = i
                BY Permutation
            <3>2. PICK h \in Bijection(1 .. n, 1 .. n) :
                     \A i \in 1 .. n : h[q[i]] = i /\ q[h[i]] = i
                BY Permutation
            <3>3. [i \in 1 .. n |-> h[g[i]]] \in Bijection(1 .. n, 1 .. n)
                <4>1. g \in Bijection(1 .. n, 1 .. n) /\ h \in Bijection(1 .. n, 1 .. n)
                    BY <3>1, <3>2
                <4> QED
                    BY <4>1, PermutationsCompose
            <3> DEFINE hg == [i \in 1 .. n |-> h[g[i]]]
            <3>4. hg \in Bijection(1 .. n, 1 .. n)
                BY <3>3
            <3>5. g \in [1 .. n -> 1 .. n] /\ h \in [1 .. n -> 1 .. n]
                BY Permutation
            <3>6. \A i \in 1 .. n : hg[i] \in 1 .. n /\ p[q[hg[i]]] = i
                BY <3>1, <3>2, <3>5
            <3>7. [i \in 1 .. n |-> hg[r[i]]] \in Bijection(1 .. n, 1 .. n)
                <4> HIDE DEF hg
                <4> QED
                    BY <3>4, PermutationsCompose
            <3> DEFINE w == [i \in 1 .. n |-> hg[r[i]]]
            <3> HIDE DEF hg
            <3>8. \A i \in 1 .. n : w[i] \in 1 .. n /\ p[q[w[i]]] = r[i]
                BY <2>5, <3>6
            <3>9. w \in Bijection(1 .. n, 1 .. n)
                BY <3>7
            <3> HIDE DEF w
            <3>10. \A i \in 1 .. n : t[i] = u[w[i]]
                BY <3>8
            <3> QED
                BY <3>9, <3>10
        <2> HIDE DEF s, t, u
        <2>12. InOrder(u)
            <3>1. ASSUME NEW i \in 1 .. n, NEW j \in 1 .. n, i < j PROVE ~Less(u[j], u[i])
                <4>1. ~Less(s[j], s[i])
                    BY <2>7, <2>8, <3>1 DEF InOrder
                <4>2. /\ s[i] \in Monitor /\ s[j] \in Monitor
                      /\ u[i] \in Monitor /\ u[j] \in Monitor
                    BY <2>7
                <4>3. Less(s[j], s[i]) <=> Less(u[j], u[i])
                    BY <2>10, <4>2, LessMoves
                <4> QED
                    BY <4>1, <4>3
            <3> QED
                BY <2>7, <3>1 DEF InOrder
        <2>13. \A k \in 1 .. n : SameKey(u[k], t[k])
            BY <1>1, <2>7, <2>9, <2>11, <2>12, SortedUnique
        <2>14. \A k \in 1 .. n : s[k].primary = t[k].primary
            BY <2>10, <2>13 DEF Alike, SameKey
        <2>15. o = a
            <3>1. DOMAIN s = 1 .. n /\ DOMAIN t = 1 .. n
                BY <2>7
            <3>2. o \in Int /\ a \in Int
                BY <1>1
            <3>3. CASE \E k \in 1 .. n : s[k].primary
                <4>1. \E k \in 1 .. n : t[k].primary
                    BY <2>14, <3>3
                <4>2. s[o].primary /\ \A k \in 1 .. n : s[k].primary => o <= k
                    BY <2>8, <3>1, <3>3 DEF OriginAt
                <4>3. t[a].primary /\ \A k \in 1 .. n : t[k].primary => a <= k
                    BY <2>9, <3>1, <4>1 DEF OriginAt
                <4>4. o <= a /\ a <= o
                    BY <2>14, <4>2, <4>3
                <4> QED
                    BY <3>2, <4>4
            <3>4. CASE ~\E k \in 1 .. n : s[k].primary
                <4>1. ~\E k \in 1 .. n : t[k].primary
                    BY <2>14, <3>4
                <4> QED
                    BY <2>8, <2>9, <3>1, <3>4, <4>1 DEF OriginAt
            <3> QED
                BY <3>3, <3>4
        <2>16. ASSUME NEW k \in 1 .. n PROVE CanonAt(s[k], s[o]) = CanonAt(t[k], t[a])
            <3>1. s[k].x - s[o].x = t[k].x - t[a].x /\ s[k].y - s[o].y = t[k].y - t[a].y
                BY <2>10, <2>13, <2>15 DEF SameKey
            <3>2. Alike(s[k], t[k])
                BY <2>10, <2>13 DEF Alike, SameKey
            <3> QED
                BY <3>1, <3>2 DEF CanonAt, Alike
        <2> QED
            BY <2>8, <2>9, <2>16
    <1> QED
        BY <1>2, <1>3

LEMMA OneFingerprintIsSame ==
    ASSUME NEW ms \in Seq(Monitor), NEW ns \in Seq(Monitor),
           FingerprintOf(ms) = FingerprintOf(ns)
    PROVE  Same(ms, ns)
    <1> DEFINE n == Len(ms)
    <1>1. n \in Nat /\ DOMAIN ms = 1 .. n /\ DOMAIN ns = 1 .. n
        <2>1. DOMAIN FingerprintOf(ms) = DOMAIN ms /\ DOMAIN FingerprintOf(ns) = DOMAIN ns
            BY DEF FingerprintOf
        <2>2. DOMAIN ns = DOMAIN ms
            BY <2>1
        <2> QED
            BY <2>2
    <1>2. CASE ms = <<>>
        <2>1. DOMAIN ms = {} /\ DOMAIN ns = {}
            BY <1>1, <1>2
        <2>2. <<>> \in Bijection({}, {})
            <3>1. <<>> \in [{} -> {}]
                OBVIOUS
            <3> QED
                BY <3>1, Fun_IsBij
        <2> QED
            BY <2>1, <2>2 DEF Same
    <1>3. CASE ms # <<>>
        <2>1. ns # <<>>
            BY <1>1, <1>3
        <2> HIDE DEF n
        <2>2. PICK q \in Bijection(1 .. n, 1 .. n), o \in 1 .. n : Orders(q, o, ms, 1 .. n)
            BY <1>1, <1>3, FingerprintIs
        <2>3. PICK r \in Bijection(1 .. n, 1 .. n), a \in 1 .. n : Orders(r, a, ns, 1 .. n)
            BY <1>1, <2>1, FingerprintIs
        <2>4. q \in [1 .. n -> 1 .. n] /\ r \in [1 .. n -> 1 .. n]
            BY Permutation
        <2>5. (\A k \in 1 .. n : ms[k] \in Monitor) /\ \A k \in 1 .. n : ns[k] \in Monitor
            BY <1>1
        <2>6. ASSUME NEW k \in 1 .. n
              PROVE  CanonAt(ms[q[k]], ms[q[o]]) = CanonAt(ns[r[k]], ns[r[a]])
            <3>1. FingerprintOf(ms)[k] = CanonAt(ms[q[k]], ms[q[o]])
                BY <2>2 DEF Orders
            <3>2. FingerprintOf(ns)[k] = CanonAt(ns[r[k]], ns[r[a]])
                BY <2>3 DEF Orders
            <3> QED
                BY <3>1, <3>2
        <2>7. PICK h \in Bijection(1 .. n, 1 .. n) :
                 \A i \in 1 .. n : h[q[i]] = i /\ q[h[i]] = i
            BY Permutation
        <2>8. h \in [1 .. n -> 1 .. n]
            BY Permutation
        <2> DEFINE p == [i \in 1 .. n |-> r[h[i]]]
        <2>9. p \in Bijection(1 .. n, 1 .. n)
            BY PermutationsCompose
        <2>10. ASSUME NEW i \in 1 .. n
               PROVE  CanonAt(ms[i], ms[q[o]]) = CanonAt(ns[p[i]], ns[r[a]])
            BY <2>6, <2>7, <2>8
        <2>11. ASSUME NEW i \in 1 .. n
               PROVE  /\ Alike(ms[i], ns[p[i]])
                      /\ ms[i].x - ms[q[o]].x = ns[p[i]].x - ns[r[a]].x
                      /\ ms[i].y - ms[q[o]].y = ns[p[i]].y - ns[r[a]].y
            BY <2>10 DEF CanonAt, Alike
        <2>12. /\ \A i \in 1 .. n : p[i] \in 1 .. n
               /\ q[o] \in 1 .. n /\ r[a] \in 1 .. n
            BY <2>4, <2>8
        <2> HIDE DEF p
        <2> DEFINE Moved(b, c, d, e, f, g) ==
                       b - c = d - e /\ f - c = g - e => b - f = d - g
        <2>13. \A b, c, d, e, f, g \in Int : Moved(b, c, d, e, f, g)
            OBVIOUS
        <2>14. ASSUME NEW i \in 1 .. n, NEW j \in 1 .. n
               PROVE  /\ ms[i].x - ms[j].x = ns[p[i]].x - ns[p[j]].x
                      /\ ms[i].y - ms[j].y = ns[p[i]].y - ns[p[j]].y
            <3>1. /\ ms[i] \in Monitor /\ ms[j] \in Monitor /\ ms[q[o]] \in Monitor
                  /\ ns[p[i]] \in Monitor /\ ns[p[j]] \in Monitor /\ ns[r[a]] \in Monitor
                BY <2>5, <2>12
            <3>2. /\ Moved(ms[i].x, ms[q[o]].x, ns[p[i]].x, ns[r[a]].x, ms[j].x, ns[p[j]].x)
                  /\ Moved(ms[i].y, ms[q[o]].y, ns[p[i]].y, ns[r[a]].y, ms[j].y, ns[p[j]].y)
                <4> HIDE DEF Moved
                <4> QED
                    BY <2>13, <3>1, MonitorFields
            <3> QED
                BY <2>11, <3>2
        <2> DEFINE D == DOMAIN ms
        <2>15. D = 1 .. n /\ D = DOMAIN ns
            BY <1>1
        <2> HIDE DEF D
        <2>16. /\ p \in Bijection(D, D) /\ \A i \in D : Alike(ms[i], ns[p[i]])
               /\ \A i, j \in D : /\ ms[i].x - ms[j].x = ns[p[i]].x - ns[p[j]].x
                                  /\ ms[i].y - ms[j].y = ns[p[i]].y - ns[p[j]].y
            BY <2>9, <2>11, <2>14, <2>15
        <2>17. Same(ms, ns)
            <3>1. DOMAIN ms = D /\ DOMAIN ns = D
                BY <2>15 DEF D
            <3> QED
                BY <2>16, <3>1 DEF Same
        <2> QED
            BY <2>17
    <1> QED
        BY <1>2, <1>3

THEOREM FingerprintIdentifies ==
    ASSUME NEW ms \in Seq(Monitor), NEW ns \in Seq(Monitor)
    PROVE  FingerprintOf(ms) = FingerprintOf(ns) <=> Same(ms, ns)
    BY SameHaveOneFingerprint, OneFingerprintIsSame

-----------------------------------------------------------------------------
(***************************************************************************)
(* The rows of a menu are lists of their own members.                      *)
(***************************************************************************)
IsList(s) == s \in Seq(MembersOf(s))

LEMMA ListOfSome ==
    ASSUME NEW S, NEW s \in Seq(S)
    PROVE  IsList(s) /\ MembersOf(s) \subseteq S
    <1>1. Len(s) \in Nat /\ DOMAIN s = 1 .. Len(s) /\ \A k \in 1 .. Len(s) : s[k] \in S
        OBVIOUS
    <1>2. s = [k \in 1 .. Len(s) |-> s[k]]
        OBVIOUS
    <1>3. \A k \in 1 .. Len(s) : s[k] \in MembersOf(s)
        BY <1>1 DEF MembersOf
    <1>4. s \in [1 .. Len(s) -> MembersOf(s)]
        BY <1>2, <1>3
    <1>5. s \in Seq(MembersOf(s))
        BY <1>1, <1>4
    <1> QED
        BY <1>1, <1>5 DEF IsList, MembersOf

LEMMA ListJoint ==
    ASSUME NEW s, NEW t, IsList(s), IsList(t)
    PROVE  IsList(s \o t) /\ MembersOf(s \o t) = MembersOf(s) \cup MembersOf(t)
    <1> DEFINE S == MembersOf(s) \cup MembersOf(t)
    <1>1. s \in Seq(S) /\ t \in Seq(S)
        <2>1. \A A, B : A \subseteq B => Seq(A) \subseteq Seq(B)
            OBVIOUS
        <2>2. MembersOf(s) \subseteq S /\ MembersOf(t) \subseteq S
            OBVIOUS
        <2> HIDE DEF S
        <2> QED
            BY <2>1, <2>2 DEF IsList
    <1>2. MembersOf(s \o t) = S
        <2> HIDE DEF S
        <2>1. MembersOf(s \o t) = MembersOf(s) \cup MembersOf(t)
            BY <1>1, MembersOfJoint
        <2> QED
            BY <2>1 DEF S
    <1>3. s \o t \in Seq(S)
        <2> HIDE DEF S
        <2> QED
            BY <1>1
    <1> QED
        BY <1>2, <1>3, ListOfSome

LEMMA ListOfNone == IsList(<<>>) /\ MembersOf(<<>>) = {}
    BY DEF IsList, MembersOf

LEMMA ListOfOne ==
    ASSUME NEW a
    PROVE  IsList(<<a>>) /\ MembersOf(<<a>>) = {a}
    <1> DEFINE s == <<a>>
    <1>1. s \in Seq({a}) /\ DOMAIN s = {1} /\ s[1] = a
        OBVIOUS
    <1> HIDE DEF s
    <1>2. MembersOf(s) = {a}
        BY <1>1 DEF MembersOf
    <1>3. IsList(s)
        BY <1>1, <1>2 DEF IsList
    <1> QED
        BY <1>2, <1>3 DEF s

LEMMA ListOfTwo ==
    ASSUME NEW a, NEW b
    PROVE  IsList(<<a, b>>) /\ MembersOf(<<a, b>>) = {a, b}
    <1> DEFINE s == <<a, b>>
    <1>1. s \in Seq({a, b}) /\ DOMAIN s = {1, 2} /\ s[1] = a /\ s[2] = b
        OBVIOUS
    <1> HIDE DEF s
    <1>2. MembersOf(s) = {a, b}
        BY <1>1 DEF MembersOf
    <1>3. IsList(s)
        BY <1>1, <1>2 DEF IsList
    <1> QED
        BY <1>2, <1>3 DEF s

LEMMA ListOfFive ==
    ASSUME NEW a, NEW b, NEW c, NEW d, NEW e
    PROVE  IsList(<<a, b, c, d, e>>) /\ MembersOf(<<a, b, c, d, e>>) = {a, b, c, d, e}
    <1> DEFINE s == <<a, b, c, d, e>>
    <1>1. s \in Seq({a, b, c, d, e}) /\ DOMAIN s = 1 .. 5
        OBVIOUS
    <1>2. s[1] = a /\ s[2] = b /\ s[3] = c /\ s[4] = d /\ s[5] = e
        OBVIOUS
    <1> HIDE DEF s
    <1>3. \A k \in 1 .. 5 : k = 1 \/ k = 2 \/ k = 3 \/ k = 4 \/ k = 5
        OBVIOUS
    <1>4. 1 \in 1 .. 5 /\ 2 \in 1 .. 5 /\ 3 \in 1 .. 5 /\ 4 \in 1 .. 5 /\ 5 \in 1 .. 5
        OBVIOUS
    <1>5. MembersOf(s) = {a, b, c, d, e}
        <2>1. \A x \in MembersOf(s) : x \in {a, b, c, d, e}
            BY <1>1, <1>2, <1>3 DEF MembersOf
        <2>2. /\ a \in MembersOf(s) /\ b \in MembersOf(s) /\ c \in MembersOf(s)
              /\ d \in MembersOf(s) /\ e \in MembersOf(s)
            BY <1>1, <1>2, <1>4 DEF MembersOf
        <2> QED
            BY <2>1, <2>2
    <1>6. IsList(s)
        BY <1>1, ListOfSome
    <1> QED
        BY <1>5, <1>6 DEF s

(***************************************************************************)
(* Joined returns what is in the lists, and nothing else.                  *)
(***************************************************************************)
LEMMA JoinedIsList ==
    ASSUME NEW n \in Nat, NEW lists, \A k \in 1 .. n : IsList(lists[k])
    PROVE  /\ IsList(Joined(lists, n))
           /\ MembersOf(Joined(lists, n)) = UNION {MembersOf(lists[k]) : k \in 1 .. n}
    <1> DEFINE S == UNION {MembersOf(lists[k]) : k \in 1 .. n}
    <1>1. \A k \in 1 .. n : lists[k] \in Seq(S)
        <2>1. \A A, B : A \subseteq B => Seq(A) \subseteq Seq(B)
            OBVIOUS
        <2>2. \A k \in 1 .. n : MembersOf(lists[k]) \subseteq S
            OBVIOUS
        <2> HIDE DEF S
        <2> QED
            BY <2>1, <2>2 DEF IsList
    <1> HIDE DEF S
    <1>2. PICK f \in [0 .. n -> Seq(S)] : Sums(f, lists, n)
        BY <1>1, JoinedSteps
    <1>3. ASSUME NEW k \in 1 .. n
          PROVE  MembersOf(f[k]) = MembersOf(f[k - 1]) \cup MembersOf(lists[k])
        <2>1. k - 1 \in 0 .. n
            OBVIOUS
        <2>2. f[k - 1] \in Seq(S) /\ lists[k] \in Seq(S) /\ f[k] = f[k - 1] \o lists[k]
            BY <1>1, <1>2, <2>1 DEF Sums
        <2> QED
            BY <2>2, MembersOfJoint
    <1> DEFINE Wrong == {k \in 0 .. n : ~\A j \in 1 .. k : MembersOf(lists[j]) \subseteq MembersOf(f[k])}
    <1>4. ASSUME Wrong # {} PROVE FALSE
        <2>1. PICK k \in Wrong : \A j \in Wrong : k <= j
            <3>1. Wrong \subseteq Nat
                OBVIOUS
            <3> HIDE DEF Wrong
            <3> QED
                BY <1>4, <3>1, LeastMember
        <2>2. PICK j \in 1 .. k : ~(MembersOf(lists[j]) \subseteq MembersOf(f[k]))
            BY <2>1
        <2>3. k \in 1 .. n /\ k - 1 \in 0 .. n /\ ~(k <= k - 1) /\ (j # k => j \in 1 .. k - 1)
            BY <2>1, <2>2
        <2>4. \A i \in 1 .. k - 1 : MembersOf(lists[i]) \subseteq MembersOf(f[k - 1])
            BY <2>1, <2>3
        <2> QED
            BY <1>3, <2>2, <2>3, <2>4
    <1>5. S \subseteq MembersOf(Joined(lists, n))
        <2>1. n \in 0 .. n
            OBVIOUS
        <2>2. \A j \in 1 .. n : MembersOf(lists[j]) \subseteq MembersOf(f[n])
            BY <1>4, <2>1
        <2> QED
            BY <1>2, <2>2 DEF S, Sums
    <1>6. Joined(lists, n) \in Seq(S)
        <2>1. n \in 0 .. n
            OBVIOUS
        <2> QED
            BY <1>2, <2>1 DEF Sums
    <1>7. IsList(Joined(lists, n)) /\ MembersOf(Joined(lists, n)) \subseteq S
        BY <1>6, ListOfSome
    <1> QED
        BY <1>5, <1>7 DEF S

-----------------------------------------------------------------------------
(***************************************************************************)
(* The two walks number the rows alike: the list of the actions is that of *)
(* the actions of the rows Render numbers.                                 *)
(***************************************************************************)
Agree(rows, acts) == Len(acts) = Len(rows) /\ \A k \in 1 .. Len(rows) : acts[k] = rows[k].action

LEMMA AgreeJoint ==
    ASSUME NEW s, NEW t, NEW a, NEW b, IsList(s), IsList(t), IsList(a), IsList(b),
           Agree(s, a), Agree(t, b)
    PROVE  Agree(s \o t, a \o b)
    <1> DEFINE S == MembersOf(s) \cup MembersOf(t) \cup MembersOf(a) \cup MembersOf(b)
               u == s \o t
               c == a \o b
    <1>1. s \in Seq(S) /\ t \in Seq(S) /\ a \in Seq(S) /\ b \in Seq(S)
        <2>1. \A A, B : A \subseteq B => Seq(A) \subseteq Seq(B)
            OBVIOUS
        <2>2. /\ MembersOf(s) \subseteq S /\ MembersOf(t) \subseteq S
              /\ MembersOf(a) \subseteq S /\ MembersOf(b) \subseteq S
            OBVIOUS
        <2> HIDE DEF S
        <2> QED
            BY <2>1, <2>2 DEF IsList
    <1> HIDE DEF S
    <1>2. /\ Len(u) = Len(s) + Len(t) /\ Len(s) \in Nat /\ Len(t) \in Nat
          /\ \A k \in 1 .. Len(u) : u[k] = IF k <= Len(s) THEN s[k] ELSE t[k - Len(s)]
        BY <1>1
    <1>3. /\ Len(c) = Len(a) + Len(b) /\ Len(a) \in Nat /\ Len(b) \in Nat
          /\ \A k \in 1 .. Len(c) : c[k] = IF k <= Len(a) THEN a[k] ELSE b[k - Len(a)]
        BY <1>1
    <1> HIDE DEF u, c
    <1>4. /\ Len(a) = Len(s) /\ \A k \in 1 .. Len(s) : a[k] = s[k].action
          /\ Len(b) = Len(t) /\ \A k \in 1 .. Len(t) : b[k] = t[k].action
        BY DEF Agree
    <1>5. ASSUME NEW k \in 1 .. Len(u) PROVE c[k] = u[k].action
        <2>1. CASE k <= Len(s)
            <3>1. k \in 1 .. Len(s)
                BY <1>2, <2>1
            <3> QED
                BY <1>2, <1>3, <1>4, <2>1, <3>1
        <2>2. CASE ~(k <= Len(s))
            <3>1. k - Len(s) \in 1 .. Len(t)
                BY <1>2, <2>2
            <3> QED
                BY <1>2, <1>3, <1>4, <2>2, <3>1
        <2> QED
            BY <2>1, <2>2
    <1>6. Len(c) = Len(u)
        BY <1>2, <1>3, <1>4
    <1>7. Agree(u, c)
        BY <1>5, <1>6 DEF Agree
    <1> QED
        BY <1>7 DEF u, c

LEMMA JoinedAgree ==
    ASSUME NEW n \in Nat, NEW rows, NEW acts,
           \A k \in 1 .. n : IsList(rows[k]) /\ IsList(acts[k]) /\ Agree(rows[k], acts[k])
    PROVE  Agree(Joined(rows, n), Joined(acts, n))
    <1> DEFINE R == UNION {MembersOf(rows[k]) : k \in 1 .. n}
               A == UNION {MembersOf(acts[k]) : k \in 1 .. n}
    <1>1. \A k \in 1 .. n : rows[k] \in Seq(R) /\ acts[k] \in Seq(A)
        <2>1. \A X, Y : X \subseteq Y => Seq(X) \subseteq Seq(Y)
            OBVIOUS
        <2>2. \A k \in 1 .. n : MembersOf(rows[k]) \subseteq R /\ MembersOf(acts[k]) \subseteq A
            OBVIOUS
        <2> HIDE DEF R, A
        <2> QED
            BY <2>1, <2>2 DEF IsList
    <1> HIDE DEF R, A
    <1>2. PICK f \in [0 .. n -> Seq(R)] : Sums(f, rows, n)
        BY <1>1, JoinedSteps
    <1>3. PICK g \in [0 .. n -> Seq(A)] : Sums(g, acts, n)
        BY <1>1, JoinedSteps
    <1>4. \A k \in 0 .. n : IsList(f[k]) /\ IsList(g[k])
        BY ListOfSome
    <1> DEFINE Wrong == {k \in 0 .. n : ~Agree(f[k], g[k])}
    <1>5. ASSUME Wrong # {} PROVE FALSE
        <2>1. PICK k \in Wrong : \A j \in Wrong : k <= j
            <3>1. Wrong \subseteq Nat
                OBVIOUS
            <3> HIDE DEF Wrong
            <3> QED
                BY <1>5, <3>1, LeastMember
        <2>2. k # 0
            <3>1. f[0] = <<>> /\ g[0] = <<>>
                BY <1>2, <1>3 DEF Sums
            <3>2. Agree(<<>>, <<>>)
                BY DEF Agree
            <3> QED
                BY <2>1, <3>1, <3>2
        <2>3. k \in 1 .. n /\ k - 1 \in 0 .. n /\ ~(k <= k - 1)
            BY <2>1, <2>2
        <2>4. Agree(f[k - 1], g[k - 1])
            BY <2>1, <2>3
        <2>5. f[k] = f[k - 1] \o rows[k] /\ g[k] = g[k - 1] \o acts[k]
            BY <1>2, <1>3, <2>3 DEF Sums
        <2>6. Agree(f[k], g[k])
            BY <1>4, <2>3, <2>4, <2>5, AgreeJoint
        <2> QED
            BY <2>1, <2>6
    <1>6. n \in 0 .. n
        OBVIOUS
    <1> QED
        BY <1>2, <1>3, <1>5, <1>6 DEF Sums

\* What the walks are to return for a list: rows of a set, and their actions.
Walked(rows, acts, G) ==
    IsList(rows) /\ MembersOf(rows) \subseteq G /\ IsList(acts) /\ Agree(rows, acts)

RenderEach(items, below) ==
    [k \in DOMAIN items |->
        IF items[k].separator THEN <<>>
        ELSE IF items[k].children # <<>> THEN below[k]
        ELSE IF IsActionable(items[k]) THEN <<items[k]>> ELSE <<>>]

FlattenEach(items, below) ==
    [k \in DOMAIN items |->
        (IF IsActionable(items[k]) THEN <<items[k].action>> ELSE <<>>) \o below[k]]

Plain(r, G) == (r.separator => r.children = <<>>) /\ (IsActionable(r) => r \in G)

LEMMA WalkedOne ==
    ASSUME NEW items, NEW rows, NEW acts, NEW G, IsList(items), NEW k \in DOMAIN items,
           Plain(items[k], G), Walked(rows[k], acts[k], G),
           items[k].children = <<>> => acts[k] = <<>>
    PROVE  Walked(RenderEach(items, rows)[k], FlattenEach(items, acts)[k], G)
    <1> DEFINE it == items[k]
               r  == rows[k]
               a  == acts[k]
    <1>1. RenderEach(items, rows)[k] =
             IF it.separator THEN <<>> ELSE IF it.children # <<>> THEN r
             ELSE IF IsActionable(it) THEN <<it>> ELSE <<>>
        BY DEF RenderEach
    <1>2. FlattenEach(items, acts)[k] =
             (IF IsActionable(it) THEN <<it.action>> ELSE <<>>) \o a
        BY DEF FlattenEach
    <1>3. Plain(it, G) /\ Walked(r, a, G) /\ (it.children = <<>> => a = <<>>)
        OBVIOUS
    <1> HIDE DEF it, r, a
    <1>4. Walked(<<>>, <<>>, G)
        BY ListOfNone DEF Walked, Agree
    <1>5. \A x : IsList(x) => <<>> \o x = x /\ x \o <<>> = x
        BY DEF IsList
    <1>6. CASE it.children # <<>>
        <2>1. ~it.separator /\ ~IsActionable(it)
            BY <1>3, <1>6 DEF Plain, IsActionable
        <2>2. <<>> \o a = a
            BY <1>3, <1>5 DEF Walked
        <2> QED
            BY <1>1, <1>2, <1>3, <1>6, <2>1, <2>2
    <1>7. CASE it.children = <<>> /\ IsActionable(it)
        <2>1. ~it.separator /\ it \in G
            BY <1>3, <1>7 DEF Plain, IsActionable
        <2>2. <<it.action>> \o <<>> = <<it.action>>
            BY <1>5, ListOfOne
        <2>3. Walked(<<it>>, <<it.action>>, G)
            <3>1. Agree(<<it>>, <<it.action>>)
                BY DEF Agree
            <3> QED
                BY <2>1, <3>1, ListOfOne DEF Walked
        <2> QED
            BY <1>1, <1>2, <1>3, <1>7, <2>1, <2>2, <2>3
    <1>8. CASE it.children = <<>> /\ ~IsActionable(it)
        <2>1. <<>> \o <<>> = <<>>
            BY <1>5, ListOfNone
        <2> QED
            BY <1>1, <1>2, <1>3, <1>4, <1>8, <2>1
    <1> QED
        BY <1>6, <1>7, <1>8

LEMMA WalkedAll ==
    ASSUME NEW items, NEW rows, NEW acts, NEW G, IsList(items),
           \A k \in DOMAIN items :
              /\ Plain(items[k], G) /\ Walked(rows[k], acts[k], G)
              /\ items[k].children = <<>> => acts[k] = <<>>
    PROVE  Walked(Joined(RenderEach(items, rows), Len(items)),
                  Joined(FlattenEach(items, acts), Len(items)), G)
    <1> DEFINE n == Len(items)
               R == RenderEach(items, rows)
               A == FlattenEach(items, acts)
    <1>1. n \in Nat /\ DOMAIN items = 1 .. n
        BY DEF IsList
    <1> HIDE DEF n
    <1>2. \A k \in 1 .. n : Walked(R[k], A[k], G)
        BY <1>1, WalkedOne
    <1> HIDE DEF R, A
    <1>3. \A k \in 1 .. n : IsList(R[k]) /\ IsList(A[k]) /\ Agree(R[k], A[k])
                            /\ MembersOf(R[k]) \subseteq G
        BY <1>2 DEF Walked
    <1>4. IsList(Joined(R, n)) /\ MembersOf(Joined(R, n)) = UNION {MembersOf(R[k]) : k \in 1 .. n}
        BY <1>1, <1>3, JoinedIsList
    <1>5. IsList(Joined(A, n))
        BY <1>1, <1>3, JoinedIsList
    <1>6. Agree(Joined(R, n), Joined(A, n))
        BY <1>1, <1>3, JoinedAgree
    <1>7. Walked(Joined(R, n), Joined(A, n), G)
        BY <1>3, <1>4, <1>5, <1>6 DEF Walked
    <1> QED
        BY <1>7 DEF R, A, n

LEMMA JoinedNothing == \A lists : Joined(lists, 0) = <<>>
    <1>1. SUFFICES ASSUME NEW lists PROVE Joined(lists, 0) = <<>>
        OBVIOUS
    <1>2. \A k \in 1 .. 0 : lists[k] \in Seq({})
        OBVIOUS
    <1>3. PICK f \in [0 .. 0 -> Seq({})] : Sums(f, lists, 0)
        BY <1>2, JoinedSteps
    <1> QED
        BY <1>3 DEF Sums

\* The walks below the top of the menu.
Nothing(list) == <<>>
FlattenLeaves(list) == Flatten(list, Nothing)
FlattenRows(list)   == Flatten(list, FlattenLeaves)
RenderLeaves(list)  == Render(list, Nothing)
RenderRows(list)    == Render(list, RenderLeaves)

\* A menu one, two and three lists deep, whose actionable rows are in G.
OneDeep(list, G) ==
    IsList(list) /\ \A r \in MembersOf(list) : Plain(r, G) /\ r.children = <<>>

TwoDeep(list, G) ==
    IsList(list) /\ \A r \in MembersOf(list) : Plain(r, G) /\ OneDeep(r.children, G)

ThreeDeep(list, G) ==
    IsList(list) /\ \A r \in MembersOf(list) : Plain(r, G) /\ TwoDeep(r.children, G)

LEMMA WalkedLeaves ==
    ASSUME NEW list, NEW G, OneDeep(list, G)
    PROVE  /\ Walked(RenderLeaves(list), FlattenLeaves(list), G)
           /\ list = <<>> => FlattenLeaves(list) = <<>>
    <1> DEFINE none == [k \in DOMAIN list |-> <<>>]
    <1>1. RenderLeaves(list) = Joined(RenderEach(list, none), Len(list))
        <2>1. RenderEach(list, none) =
                 [k \in DOMAIN list |->
                     IF list[k].separator THEN <<>>
                     ELSE IF list[k].children # <<>> THEN <<>>
                     ELSE IF IsActionable(list[k]) THEN <<list[k]>> ELSE <<>>]
            BY DEF RenderEach
        <2> QED
            BY <2>1 DEF RenderLeaves, Render, Nothing
    <1>2. FlattenLeaves(list) = Joined(FlattenEach(list, none), Len(list))
        <2>1. FlattenEach(list, none) =
                 [k \in DOMAIN list |->
                     (IF IsActionable(list[k]) THEN <<list[k].action>> ELSE <<>>) \o <<>>]
            BY DEF FlattenEach
        <2> QED
            BY <2>1 DEF FlattenLeaves, Flatten, Nothing
    <1>3. \A k \in DOMAIN list : Plain(list[k], G) /\ none[k] = <<>>
        BY DEF OneDeep, MembersOf
    <1>4. Walked(<<>>, <<>>, G)
        BY ListOfNone DEF Walked, Agree
    <1> HIDE DEF none
    <1>5. Walked(RenderLeaves(list), FlattenLeaves(list), G)
        BY <1>1, <1>2, <1>3, <1>4, WalkedAll DEF OneDeep
    <1>6. list = <<>> => FlattenLeaves(list) = <<>>
        BY <1>2, JoinedNothing
    <1> QED
        BY <1>5, <1>6

LEMMA WalkedRows ==
    ASSUME NEW list, NEW G, TwoDeep(list, G)
    PROVE  /\ Walked(RenderRows(list), FlattenRows(list), G)
           /\ list = <<>> => FlattenRows(list) = <<>>
    <1> DEFINE rows == [k \in DOMAIN list |-> RenderLeaves(list[k].children)]
               acts == [k \in DOMAIN list |-> FlattenLeaves(list[k].children)]
    <1>1. RenderRows(list) = Joined(RenderEach(list, rows), Len(list))
        <2>1. RenderEach(list, rows) =
                 [k \in DOMAIN list |->
                     IF list[k].separator THEN <<>>
                     ELSE IF list[k].children # <<>> THEN RenderLeaves(list[k].children)
                     ELSE IF IsActionable(list[k]) THEN <<list[k]>> ELSE <<>>]
            BY DEF RenderEach
        <2> QED
            BY <2>1 DEF RenderRows, Render
    <1>2. FlattenRows(list) = Joined(FlattenEach(list, acts), Len(list))
        <2>1. FlattenEach(list, acts) =
                 [k \in DOMAIN list |->
                     (IF IsActionable(list[k]) THEN <<list[k].action>> ELSE <<>>)
                         \o FlattenLeaves(list[k].children)]
            BY DEF FlattenEach
        <2> QED
            BY <2>1 DEF FlattenRows, Flatten
    <1>3. \A k \in DOMAIN list :
             /\ Plain(list[k], G)
             /\ rows[k] = RenderLeaves(list[k].children)
             /\ acts[k] = FlattenLeaves(list[k].children)
             /\ OneDeep(list[k].children, G)
        BY DEF TwoDeep, MembersOf
    <1> HIDE DEF rows, acts
    <1>4. \A k \in DOMAIN list :
             /\ Plain(list[k], G) /\ Walked(rows[k], acts[k], G)
             /\ list[k].children = <<>> => acts[k] = <<>>
        BY <1>3, WalkedLeaves
    <1>5. Walked(RenderRows(list), FlattenRows(list), G)
        BY <1>1, <1>2, <1>4, WalkedAll DEF TwoDeep
    <1>6. list = <<>> => FlattenRows(list) = <<>>
        BY <1>2, JoinedNothing
    <1> QED
        BY <1>5, <1>6

LEMMA WalkedMenu ==
    ASSUME NEW list, NEW G, ThreeDeep(list, G)
    PROVE  Walked(Commands(list), FlattenActions(list), G)
    <1> DEFINE rows == [k \in DOMAIN list |-> RenderRows(list[k].children)]
               acts == [k \in DOMAIN list |-> FlattenRows(list[k].children)]
    <1>1. Commands(list) = Joined(RenderEach(list, rows), Len(list))
        <2>1. RenderEach(list, rows) =
                 [k \in DOMAIN list |->
                     IF list[k].separator THEN <<>>
                     ELSE IF list[k].children # <<>> THEN RenderRows(list[k].children)
                     ELSE IF IsActionable(list[k]) THEN <<list[k]>> ELSE <<>>]
            BY DEF RenderEach
        <2> QED
            BY <2>1 DEF Commands, RenderRows, RenderLeaves, Nothing, Render
    <1>2. FlattenActions(list) = Joined(FlattenEach(list, acts), Len(list))
        <2>1. FlattenEach(list, acts) =
                 [k \in DOMAIN list |->
                     (IF IsActionable(list[k]) THEN <<list[k].action>> ELSE <<>>)
                         \o FlattenRows(list[k].children)]
            BY DEF FlattenEach
        <2> QED
            BY <2>1 DEF FlattenActions, FlattenRows, FlattenLeaves, Nothing, Flatten
    <1>3. \A k \in DOMAIN list :
             /\ Plain(list[k], G)
             /\ rows[k] = RenderRows(list[k].children)
             /\ acts[k] = FlattenRows(list[k].children)
             /\ TwoDeep(list[k].children, G)
        BY DEF ThreeDeep, MembersOf
    <1> HIDE DEF rows, acts
    <1>4. \A k \in DOMAIN list :
             /\ Plain(list[k], G) /\ Walked(rows[k], acts[k], G)
             /\ list[k].children = <<>> => acts[k] = <<>>
        BY <1>3, WalkedRows
    <1> QED
        BY <1>1, <1>2, <1>4, WalkedAll DEF ThreeDeep

-----------------------------------------------------------------------------
(***************************************************************************)
(* What BuildMenu returns.  A row is right about the store and the options *)
(* it was built from: ls are the layouts, option and auto the boxes.       *)
(***************************************************************************)
OnLayout == {"restore", "overwrite", "rename", "hotkey", "delete", "toggleInclude"}

About(act, ls) ==
    /\ "id" \in DOMAIN act => act.id \in Ids(ls)
    /\ act.type \in OnLayout => "id" \in DOMAIN act

Ticked(r, ls) ==
    \E i \in DOMAIN ls :
        /\ ls[i].id = r.action.id
        /\ r.action.idx \in DOMAIN ls[i].windows
        /\ ls[i].windows[r.action.idx].exe = r.label[1]
        /\ ls[i].windows[r.action.idx].include = r.checked

Right(r, ls, option, auto) ==
    /\ About(r.action, ls)
    /\ r.action.type = "toggleInclude" => Ticked(r, ls)
    /\ r.action.type = "minimizeOthers" => r.checked = option
    /\ r.action.type = "autostart" =>
          r.checked = (auto /\ available) /\ r.disabled = ~available

LEMMA RowIs ==
    ASSUME NEW label, NEW act
    PROVE  /\ Row(label, act).label = label /\ Row(label, act).action = act
           /\ Row(label, act).separator = FALSE /\ Row(label, act).children = <<>>
           /\ Row(label, act).checked = FALSE /\ Row(label, act).disabled = FALSE
           /\ Separator.action = NoAction /\ Separator.separator = TRUE
           /\ Separator.children = <<>>
    BY DEF Row, Separator

\* The rows of one layout's submenu.
WindowRow(l, k, live) ==
    [Row(<<l.windows[k].exe>>, Toggle(l.id, k)) EXCEPT
        !.checked = l.windows[k].include,
        !.disabled = ~\E i \in DOMAIN live : live[i] = l.windows[k].exe]

IsOwn(r, l, live) ==
    \/ r = Separator
    \/ \E s \in OnLayout \ {"toggleInclude"} : r = Row(<<s>>, ActOn(s, l.id))
    \/ \E k \in DOMAIN l.windows : r = WindowRow(l, k, live)

IsItem(it, l, live, current, taken) ==
    /\ it.separator = FALSE /\ it.action = ActOn("restore", l.id)
    /\ it.label = Stripped(l.name) \o (IF current THEN Accelerator(l, taken) ELSE <<>>)
    /\ it.children # <<>> /\ IsList(it.children)
    /\ \A r \in MembersOf(it.children) : IsOwn(r, l, live)

LEMMA LayoutItemIs ==
    ASSUME NEW l \in Layout, NEW live, NEW current, NEW taken
    PROVE  IsItem(LayoutItem(l, live, current, taken), l, live, current, taken)
    <1> DEFINE it == LayoutItem(l, live, current, taken)
               R(s) == Row(<<s>>, ActOn(s, l.id))
               rows == [k \in DOMAIN l.windows |-> WindowRow(l, k, live)]
               first == <<R("restore")>>
               line  == IF rows = <<>> THEN <<>> ELSE <<Separator>>
               last  == <<Separator, R("overwrite"), R("rename"), R("hotkey"), R("delete")>>
               list  == first \o line \o rows \o last
    <1>1. it = [Row(Stripped(l.name) \o (IF current THEN Accelerator(l, taken) ELSE <<>>),
                    ActOn("restore", l.id)) EXCEPT !.children = list]
        BY DEF LayoutItem, WindowRow
    <1>2. IsList(rows) /\ MembersOf(rows) = {WindowRow(l, k, live) : k \in DOMAIN l.windows}
        <2> DEFINE W(k) == WindowRow(l, k, live)
                   S == {W(k) : k \in DOMAIN l.windows}
        <2>1. l.windows \in Seq([exe : STRING, include : BOOLEAN])
            BY DEF Layout
        <2>2. Len(l.windows) \in Nat /\ DOMAIN l.windows = 1 .. Len(l.windows)
            BY <2>1
        <2>3. \A k \in DOMAIN l.windows : W(k) \in S
            OBVIOUS
        <2>4. rows \in [1 .. Len(l.windows) -> S]
            BY <2>2, <2>3
        <2>5. rows \in Seq(S)
            BY <2>2, <2>4
        <2>6. IsList(rows)
            BY <2>5, ListOfSome
        <2>7. MembersOf(rows) = S
            BY DEF MembersOf
        <2> QED
            BY <2>6, <2>7
    <1>3. IsList(first) /\ MembersOf(first) = {R("restore")}
        BY ListOfOne
    <1>4. IsList(line) /\ MembersOf(line) \subseteq {Separator}
        BY ListOfOne, ListOfNone
    <1>5. /\ IsList(last)
          /\ MembersOf(last) = {Separator, R("overwrite"), R("rename"), R("hotkey"), R("delete")}
        BY ListOfFive
    <1>6. /\ IsList(list)
          /\ MembersOf(list) =
                MembersOf(first) \cup MembersOf(line) \cup MembersOf(rows) \cup MembersOf(last)
        <2> HIDE DEF first, line, rows, last
        <2> QED
            BY <1>2, <1>3, <1>4, <1>5, ListJoint
    <1>7. list # <<>>
        BY <1>3, <1>6, ListOfNone
    <1>8. ASSUME NEW r \in MembersOf(list)
          PROVE  IsOwn(r, l, live)
        <2>1. \A s \in {"restore", "overwrite", "rename", "hotkey", "delete"} :
                 s \in OnLayout \ {"toggleInclude"}
            BY DEF OnLayout
        <2>2. \/ r = R("restore") \/ r = Separator
              \/ r \in {WindowRow(l, k, live) : k \in DOMAIN l.windows}
              \/ r = R("overwrite") \/ r = R("rename") \/ r = R("hotkey") \/ r = R("delete")
            <3> HIDE DEF R, list, first, line, rows, last
            <3> QED
                BY <1>2, <1>3, <1>4, <1>5, <1>6, <1>8
        <2> HIDE DEF list
        <2> QED
            BY <2>1, <2>2 DEF IsOwn
    <1> HIDE DEF list
    <1>9. /\ it.separator = FALSE /\ it.action = ActOn("restore", l.id) /\ it.children = list
          /\ it.label = Stripped(l.name) \o (IF current THEN Accelerator(l, taken) ELSE <<>>)
        BY <1>1 DEF Row
    <1> HIDE DEF it
    <1>10. IsItem(it, l, live, current, taken)
        BY <1>6, <1>7, <1>8, <1>9 DEF IsItem
    <1> QED
        BY <1>10 DEF it

\* The rows of the layouts of the setup, and of the others.
IsOfSetup(in, k, current) == (in.layouts[k].setup = FingerprintOf(in.mons)) = current

Taken(in, k) == in.layouts[k].id \in in.unavailable

ItemOf(in, k, current) == LayoutItem(in.layouts[k], in.live, current, Taken(in, k))

ItemsOf(in, current) ==
    Joined([k \in DOMAIN in.layouts |->
               IF IsOfSetup(in, k, current) THEN <<ItemOf(in, k, current)>> ELSE <<>>],
           Len(in.layouts))

OthersRow(list) == [Row(<<"others">>, NoAction) EXCEPT !.children = list]
NoneRow         == [Row(<<"none">>, NoAction) EXCEPT !.disabled = TRUE]
AutostartRow(in) ==
    [Row(<<"autostart">>, Act("autostart")) EXCEPT
        !.checked = in.autostartOn /\ available, !.disabled = ~available]
MinimizeRow(in) ==
    [Row(<<"minimizeOthers">>, Act("minimizeOthers")) EXCEPT !.checked = in.minimizeOthers]
SimpleRow(s)    == Row(<<s>>, Act(s))

LEMMA ItemsAre ==
    ASSUME NEW in, in.layouts \in Seq(Layout), NEW current
    PROVE  /\ IsList(ItemsOf(in, current))
           /\ MembersOf(ItemsOf(in, current)) =
                 {ItemOf(in, k, current) : k \in {j \in DOMAIN in.layouts : IsOfSetup(in, j, current)}}
    <1> DEFINE n == Len(in.layouts)
               Mine(k) == IsOfSetup(in, k, current)
               It(k) == ItemOf(in, k, current)
               lists == [k \in DOMAIN in.layouts |-> IF Mine(k) THEN <<It(k)>> ELSE <<>>]
    <1>1. n \in Nat /\ DOMAIN in.layouts = 1 .. n
        OBVIOUS
    <1>2. ItemsOf(in, current) = Joined(lists, n)
        BY DEF ItemsOf
    <1>3. \A k \in 1 .. n : lists[k] = IF Mine(k) THEN <<It(k)>> ELSE <<>>
        BY <1>1
    <1> HIDE DEF n, lists, Mine, It
    <1>4. \A k \in 1 .. n : IsList(lists[k]) /\ MembersOf(lists[k]) = IF Mine(k) THEN {It(k)} ELSE {}
        BY <1>3, ListOfOne, ListOfNone
    <1>5. /\ IsList(Joined(lists, n))
          /\ MembersOf(Joined(lists, n)) = UNION {MembersOf(lists[k]) : k \in 1 .. n}
        BY <1>1, <1>4, JoinedIsList
    <1>6. UNION {MembersOf(lists[k]) : k \in 1 .. n} = {It(k) : k \in {j \in 1 .. n : Mine(j)}}
        BY <1>4
    <1>7. /\ IsList(ItemsOf(in, current))
          /\ MembersOf(ItemsOf(in, current)) = {It(k) : k \in {j \in DOMAIN in.layouts : Mine(j)}}
        BY <1>1, <1>2, <1>5, <1>6
    <1> QED
        BY <1>7 DEF It, Mine

LEMMA MenuIs ==
    ASSUME NEW in, in.layouts \in Seq(Layout)
    PROVE  LET menu     == BuildMenu(in)
               matching == ItemsOf(in, TRUE)
               others   == ItemsOf(in, FALSE)
           IN  /\ IsList(menu)
               /\ MembersOf(menu) =
                     {SimpleRow("save"), Separator, AutostartRow(in), MinimizeRow(in),
                      SimpleRow("openFolder"), SimpleRow("quit")}
                     \cup (IF matching # <<>> THEN MembersOf(matching) ELSE {NoneRow})
                     \cup (IF others = <<>> THEN {} ELSE {OthersRow(others)})
    <1> DEFINE matching == ItemsOf(in, TRUE)
               others   == ItemsOf(in, FALSE)
               first  == <<SimpleRow("save"), Separator>>
               second == IF matching # <<>> THEN matching ELSE <<NoneRow>>
               third  == IF others = <<>> THEN <<>> ELSE <<Separator, OthersRow(others)>>
               last   == <<Separator, AutostartRow(in), MinimizeRow(in),
                           SimpleRow("openFolder"), SimpleRow("quit")>>
               menu   == first \o second \o third \o last
    <1>1. BuildMenu(in) = menu
        BY DEF BuildMenu, ItemsOf, ItemOf, Taken, IsOfSetup, NoneRow, OthersRow, AutostartRow,
               MinimizeRow, SimpleRow
    <1>2. IsList(first) /\ MembersOf(first) = {SimpleRow("save"), Separator}
        BY ListOfTwo
    <1>3. /\ IsList(second)
          /\ MembersOf(second) = IF matching # <<>> THEN MembersOf(matching) ELSE {NoneRow}
        <2>1. IsList(matching)
            BY ItemsAre
        <2> HIDE DEF matching
        <2> QED
            BY <2>1, ListOfOne
    <1>4. /\ IsList(third)
          /\ MembersOf(third) = IF others = <<>> THEN {} ELSE {Separator, OthersRow(others)}
        <2> HIDE DEF others
        <2> QED
            BY ListOfTwo, ListOfNone
    <1>5. /\ IsList(last)
          /\ MembersOf(last) = {Separator, AutostartRow(in), MinimizeRow(in),
                                SimpleRow("openFolder"), SimpleRow("quit")}
        BY ListOfFive
    <1>6. /\ IsList(menu)
          /\ MembersOf(menu) =
                MembersOf(first) \cup MembersOf(second) \cup MembersOf(third) \cup MembersOf(last)
        <2>1. IsList(first) /\ IsList(second) /\ IsList(third) /\ IsList(last)
            BY <1>2, <1>3, <1>4, <1>5
        <2> HIDE DEF first, second, third, last
        <2>2. /\ IsList(first \o second)
              /\ MembersOf(first \o second) = MembersOf(first) \cup MembersOf(second)
            BY <2>1, ListJoint
        <2>3. /\ IsList(first \o second \o third)
              /\ MembersOf(first \o second \o third) =
                    MembersOf(first \o second) \cup MembersOf(third)
            BY <2>1, <2>2, ListJoint
        <2>4. /\ IsList(menu)
              /\ MembersOf(menu) = MembersOf(first \o second \o third) \cup MembersOf(last)
            BY <2>1, <2>3, ListJoint
        <2> QED
            BY <2>2, <2>3, <2>4
    <1>7. MembersOf(menu) =
             {SimpleRow("save"), Separator, AutostartRow(in), MinimizeRow(in),
              SimpleRow("openFolder"), SimpleRow("quit")}
             \cup (IF matching # <<>> THEN MembersOf(matching) ELSE {NoneRow})
             \cup (IF others = <<>> THEN {} ELSE {OthersRow(others)})
        <2> HIDE DEF menu, first, second, third, last, matching, others
        <2> QED
            BY <1>2, <1>3, <1>4, <1>5, <1>6
    <1> QED
        BY <1>1, <1>6, <1>7

LEMMA LayoutRowsRight ==
    ASSUME NEW in, in.layouts \in Seq(Layout), NEW k \in DOMAIN in.layouts, NEW current,
           NEW r \in MembersOf(ItemOf(in, k, current).children)
    PROVE  /\ r.children = <<>>
           /\ IsActionable(r) => Right(r, in.layouts, in.minimizeOthers, in.autostartOn)
    <1> DEFINE l == in.layouts[k]
    <1>1. l \in Layout
        OBVIOUS
    <1>2. l.id \in Ids(in.layouts)
        BY DEF Ids
    <1>3. \/ r = Separator
          \/ \E s \in OnLayout \ {"toggleInclude"} : r = Row(<<s>>, ActOn(s, l.id))
          \/ \E j \in DOMAIN l.windows : r = WindowRow(l, j, in.live)
        <2>1. IsItem(ItemOf(in, k, current), l, in.live, current, Taken(in, k))
            BY <1>1, LayoutItemIs DEF ItemOf
        <2> HIDE DEF l
        <2> QED
            BY <2>1 DEF IsItem, IsOwn
    <1>4. CASE r = Separator
        BY <1>4, RowIs DEF IsActionable
    <1>5. ASSUME NEW s \in OnLayout \ {"toggleInclude"}, r = Row(<<s>>, ActOn(s, l.id))
          PROVE  /\ r.children = <<>>
                 /\ Right(r, in.layouts, in.minimizeOthers, in.autostartOn)
        <2>1. r.children = <<>> /\ r.action = ActOn(s, l.id)
            BY <1>5 DEF Row
        <2>2. r.action.type = s /\ r.action.id = l.id /\ "id" \in DOMAIN r.action
            BY <2>1 DEF ActOn
        <2>3. s # "toggleInclude" /\ s # "minimizeOthers" /\ s # "autostart"
            BY DEF OnLayout
        <2> QED
            BY <1>2, <2>1, <2>2, <2>3 DEF Right, About
    <1>6. ASSUME NEW j \in DOMAIN l.windows, r = WindowRow(l, j, in.live)
          PROVE  /\ r.children = <<>>
                 /\ Right(r, in.layouts, in.minimizeOthers, in.autostartOn)
        <2>1. /\ r.children = <<>> /\ r.action = Toggle(l.id, j)
              /\ r.label = <<l.windows[j].exe>> /\ r.checked = l.windows[j].include
            BY <1>6 DEF WindowRow, Row
        <2>2. /\ r.action.type = "toggleInclude" /\ r.action.id = l.id /\ r.action.idx = j
              /\ "id" \in DOMAIN r.action /\ r.label[1] = l.windows[j].exe
            BY <2>1 DEF Toggle
        <2>3. Ticked(r, in.layouts)
            BY <2>1, <2>2 DEF Ticked
        <2> QED
            BY <1>2, <2>1, <2>2, <2>3 DEF Right, About
    <1> QED
        BY <1>3, <1>4, <1>5, <1>6

LEMMA TopRowsRight ==
    ASSUME NEW in, NEW r \in {SimpleRow("save"), Separator, AutostartRow(in), MinimizeRow(in),
                             SimpleRow("openFolder"), SimpleRow("quit"), NoneRow}
    PROVE  /\ r.children = <<>>
           /\ IsActionable(r) => Right(r, in.layouts, in.minimizeOthers, in.autostartOn)
    <1>1. ASSUME NEW s \in {"save", "openFolder", "quit"}, r = SimpleRow(s)
          PROVE  /\ r.children = <<>>
                 /\ Right(r, in.layouts, in.minimizeOthers, in.autostartOn)
        <2>1. r.children = <<>> /\ r.action.type = s /\ DOMAIN r.action = {"type"}
            BY <1>1 DEF SimpleRow, Act, Row
        <2> QED
            BY <2>1 DEF Right, About, OnLayout
    <1>2. CASE r = Separator
        BY <1>2, RowIs DEF IsActionable
    <1>3. CASE r = NoneRow
        BY <1>3 DEF NoneRow, Row, IsActionable
    <1>4. CASE r = AutostartRow(in)
        <2>1. /\ r.children = <<>> /\ r.action = Act("autostart")
              /\ r.checked = (in.autostartOn /\ available) /\ r.disabled = ~available
            BY <1>4 DEF AutostartRow, Row
        <2>2. r.action.type = "autostart" /\ DOMAIN r.action = {"type"}
            BY <2>1 DEF Act
        <2> QED
            BY <2>1, <2>2 DEF Right, About, OnLayout
    <1>5. CASE r = MinimizeRow(in)
        <2>1. /\ r.children = <<>> /\ r.action = Act("minimizeOthers")
              /\ r.checked = in.minimizeOthers
            BY <1>5 DEF MinimizeRow, Row
        <2>2. r.action.type = "minimizeOthers" /\ DOMAIN r.action = {"type"}
            BY <2>1 DEF Act
        <2> QED
            BY <2>1, <2>2 DEF Right, About, OnLayout
    <1> QED
        BY <1>1, <1>2, <1>3, <1>4, <1>5

LEMMA ItemIs ==
    ASSUME NEW in, in.layouts \in Seq(Layout), NEW k \in DOMAIN in.layouts, NEW current
    PROVE  LET l == in.layouts[k]
               it == ItemOf(in, k, current)
           IN  /\ it.separator = FALSE /\ it.action = ActOn("restore", l.id)
               /\ it.action # NoAction /\ it.action.id = l.id
               /\ it.label = Stripped(l.name) \o
                      (IF current THEN Accelerator(l, Taken(in, k)) ELSE <<>>)
               /\ it.children # <<>> /\ IsList(it.children)
    <1> DEFINE l == in.layouts[k]
               it == ItemOf(in, k, current)
    <1>1. l \in Layout
        OBVIOUS
    <1>2. IsItem(it, l, in.live, current, Taken(in, k))
        BY <1>1, LayoutItemIs DEF ItemOf
    <1> HIDE DEF it, l
    <1>3. it.action # NoAction /\ it.action.id = l.id
        BY <1>2 DEF ActOn, NoAction, IsItem
    <1> QED
        BY <1>2, <1>3 DEF l, it, IsItem

LEMMA MenuRowsRight ==
    ASSUME NEW in, in.layouts \in Seq(Layout)
    PROVE  \E G : /\ ThreeDeep(BuildMenu(in), G)
                  /\ \A r \in G : Right(r, in.layouts, in.minimizeOthers, in.autostartOn)
    <1> DEFINE Fits(r) == Right(r, in.layouts, in.minimizeOthers, in.autostartOn)
               top == MembersOf(BuildMenu(in))
               below(rows) == UNION {MembersOf(r.children) : r \in rows}
               all == top \cup below(top) \cup below(below(top))
               G == {r \in all : Fits(r)}
               IsLayout(r) == \E current \in BOOLEAN : \E k \in DOMAIN in.layouts : r = ItemOf(in, k, current)
    <1>1. ASSUME NEW r, IsLayout(r), r \in top \cup below(top)
          PROVE  Plain(r, G) /\ OneDeep(r.children, G)
        <2>1. PICK current \in BOOLEAN, k \in DOMAIN in.layouts : r = ItemOf(in, k, current)
            BY <1>1
        <2>2. r.separator = FALSE /\ r.children # <<>> /\ IsList(r.children)
            BY <2>1, ItemIs
        <2>3. Plain(r, G)
            BY <2>2 DEF Plain, IsActionable
        <2>4. ASSUME NEW c \in MembersOf(r.children)
              PROVE  Plain(c, G) /\ c.children = <<>>
            <3>1. c.children = <<>> /\ (IsActionable(c) => Fits(c))
                BY <2>1, LayoutRowsRight
            <3>2. c \in all
                BY <1>1
            <3> HIDE DEF all, Fits
            <3> QED
                BY <3>1, <3>2 DEF Plain
        <2> HIDE DEF G
        <2> QED
            BY <2>2, <2>3, <2>4 DEF OneDeep
    <1>2. OneDeep(<<>>, G) /\ TwoDeep(<<>>, G)
        BY ListOfNone DEF OneDeep, TwoDeep
    <1>3. ASSUME NEW current \in BOOLEAN, NEW r \in MembersOf(ItemsOf(in, current)) PROVE IsLayout(r)
        BY ItemsAre
    <1>4. ASSUME NEW r \in top PROVE Plain(r, G) /\ TwoDeep(r.children, G)
        <2>1. /\ IsList(BuildMenu(in))
              /\ \/ r \in {SimpleRow("save"), Separator, AutostartRow(in), MinimizeRow(in),
                           SimpleRow("openFolder"), SimpleRow("quit"), NoneRow}
                 \/ r \in MembersOf(ItemsOf(in, TRUE))
                 \/ r = OthersRow(ItemsOf(in, FALSE))
            BY <1>4, MenuIs
        <2>2. CASE r \in {SimpleRow("save"), Separator, AutostartRow(in), MinimizeRow(in),
                         SimpleRow("openFolder"), SimpleRow("quit"), NoneRow}
            <3>1. r.children = <<>> /\ (IsActionable(r) => Fits(r))
                BY <2>2, TopRowsRight
            <3>2. r \in all
                OBVIOUS
            <3>3. Plain(r, G)
                <4> HIDE DEF all, Fits
                <4> QED
                    BY <3>1, <3>2 DEF Plain
            <3> HIDE DEF G
            <3> QED
                BY <1>2, <3>1, <3>3
        <2>3. CASE r \in MembersOf(ItemsOf(in, TRUE))
            <3>1. IsLayout(r)
                BY <1>3, <2>3
            <3>2. Plain(r, G) /\ OneDeep(r.children, G)
                BY <1>1, <3>1
            <3>3. ASSUME NEW c \in MembersOf(r.children) PROVE OneDeep(c.children, G) /\ Plain(c, G)
                <4> HIDE DEF G
                <4> QED
                    BY <1>2, <3>2 DEF OneDeep
            <3> HIDE DEF G
            <3> QED
                BY <3>2, <3>3 DEF OneDeep, TwoDeep
        <2>4. CASE r = OthersRow(ItemsOf(in, FALSE))
            <3>1. /\ r.children = ItemsOf(in, FALSE) /\ r.action = NoAction /\ r.separator = FALSE
                BY <2>4 DEF OthersRow, Row
            <3>2. Plain(r, G)
                BY <3>1 DEF Plain, IsActionable
            <3>3. IsList(r.children)
                BY <3>1, ItemsAre
            <3>4. ASSUME NEW c \in MembersOf(r.children) PROVE Plain(c, G) /\ OneDeep(c.children, G)
                <4>1. IsLayout(c)
                    BY <1>3, <3>1
                <4>2. c \in below(top)
                    BY <1>4
                <4> HIDE DEF G, IsLayout, below, top
                <4> QED
                    BY <1>1, <4>1, <4>2
            <3> HIDE DEF G
            <3> QED
                BY <3>2, <3>3, <3>4 DEF TwoDeep
        <2> QED
            BY <2>1, <2>2, <2>3, <2>4
    <1>5. IsList(BuildMenu(in))
        BY MenuIs
    <1>6. \A r \in G : Fits(r)
        OBVIOUS
    <1>7. ThreeDeep(BuildMenu(in), G)
        <2> HIDE DEF G
        <2> QED
            BY <1>4, <1>5 DEF ThreeDeep
    <1> QED
        BY <1>6, <1>7

\* So a click finds the action of its row, and the row is right.
LEMMA CommandsRight ==
    ASSUME NEW in, in.layouts \in Seq(Layout), NEW k \in DOMAIN Commands(BuildMenu(in))
    PROVE  /\ FlattenActions(BuildMenu(in))[k] = Commands(BuildMenu(in))[k].action
           /\ Right(Commands(BuildMenu(in))[k], in.layouts, in.minimizeOthers, in.autostartOn)
    <1> DEFINE rows == Commands(BuildMenu(in))
               acts == FlattenActions(BuildMenu(in))
    <1>1. PICK G : /\ ThreeDeep(BuildMenu(in), G)
                   /\ \A r \in G : Right(r, in.layouts, in.minimizeOthers, in.autostartOn)
        BY MenuRowsRight
    <1>2. Walked(rows, acts, G)
        BY <1>1, WalkedMenu
    <1> HIDE DEF rows, acts
    <1>3. DOMAIN rows = 1 .. Len(rows)
        BY <1>2 DEF Walked, IsList
    <1>4. k \in DOMAIN rows
        BY DEF rows
    <1>5. rows[k] \in G /\ acts[k] = rows[k].action
        BY <1>2, <1>3, <1>4 DEF Walked, Agree, MembersOf
    <1> QED
        BY <1>1, <1>5 DEF rows, acts

(***************************************************************************)
(* Which layouts stand where, and what the right column says.              *)
(***************************************************************************)
LEMMA OwnersAre ==
    ASSUME NEW in, in.layouts \in Seq(Layout)
    PROVE  /\ RowsOf(BuildMenu(in)) =
                 MembersOf(ItemsOf(in, TRUE))
                 \cup (IF ItemsOf(in, FALSE) = <<>> THEN {} ELSE {OthersRow(ItemsOf(in, FALSE))})
           /\ \A current \in BOOLEAN :
                 RowsOf(ItemsOf(in, current)) = MembersOf(ItemsOf(in, current))
    <1> DEFINE matching == ItemsOf(in, TRUE)
               others   == ItemsOf(in, FALSE)
               plain    == {SimpleRow("save"), Separator, AutostartRow(in), MinimizeRow(in),
                            SimpleRow("openFolder"), SimpleRow("quit"), NoneRow}
    <1>1. \A items : RowsOf(items) = {r \in MembersOf(items) : r.children # <<>>}
        BY DEF RowsOf, MembersOf
    <1>2. ASSUME NEW current, NEW r \in MembersOf(ItemsOf(in, current)) PROVE r.children # <<>>
        <2>1. PICK k \in DOMAIN in.layouts : r = ItemOf(in, k, current)
            BY ItemsAre
        <2> QED
            BY <2>1, ItemIs
    <1>3. \A r \in plain : r.children = <<>>
        BY TopRowsRight
    <1>4. /\ MembersOf(BuildMenu(in)) \subseteq
                 plain \cup MembersOf(matching) \cup (IF others = <<>> THEN {} ELSE {OthersRow(others)})
          /\ MembersOf(matching) \subseteq MembersOf(BuildMenu(in))
          /\ others # <<>> => OthersRow(others) \in MembersOf(BuildMenu(in))
        <2>1. matching = <<>> => MembersOf(matching) = {}
            <3> HIDE DEF matching
            <3> QED
                BY ListOfNone
        <2>2. MembersOf(BuildMenu(in)) =
                 {SimpleRow("save"), Separator, AutostartRow(in), MinimizeRow(in),
                  SimpleRow("openFolder"), SimpleRow("quit")}
                 \cup (IF matching # <<>> THEN MembersOf(matching) ELSE {NoneRow})
                 \cup (IF others = <<>> THEN {} ELSE {OthersRow(others)})
            BY MenuIs
        <2> HIDE DEF matching, others
        <2> QED
            BY <2>1, <2>2
    <1>5. OthersRow(others).children = others
        BY DEF OthersRow, Row
    <1> HIDE DEF plain
    <1>6. RowsOf(BuildMenu(in)) =
             MembersOf(matching) \cup (IF others = <<>> THEN {} ELSE {OthersRow(others)})
        BY <1>1, <1>2, <1>3, <1>4, <1>5
    <1>7. \A current \in BOOLEAN : RowsOf(ItemsOf(in, current)) = MembersOf(ItemsOf(in, current))
        BY <1>1, <1>2
    <1> QED
        BY <1>6, <1>7

IdsOf(in, current) == {in.layouts[k].id : k \in {j \in DOMAIN in.layouts : IsOfSetup(in, j, current)}}

LEMMA ListedAre ==
    ASSUME NEW in, in.layouts \in Seq(Layout)
    PROVE  Listed(BuildMenu(in)) = IdsOf(in, TRUE) /\ Submenus(BuildMenu(in)) = IdsOf(in, FALSE)
    <1> DEFINE menu     == BuildMenu(in)
               matching == ItemsOf(in, TRUE)
               others   == ItemsOf(in, FALSE)
    <1>1. \A items : Listed(items) = {r.action.id : r \in {q \in RowsOf(items) : q.action # NoAction}}
        BY DEF Listed, RowsOf
    <1>2. \A items : Submenus(items) =
             UNION {Listed(r.children) : r \in {q \in RowsOf(items) : q.action = NoAction}}
        BY DEF Submenus, RowsOf
    <1>3. /\ RowsOf(menu) = MembersOf(matching)
                 \cup (IF others = <<>> THEN {} ELSE {OthersRow(others)})
          /\ RowsOf(matching) = MembersOf(matching) /\ RowsOf(others) = MembersOf(others)
        BY OwnersAre
    <1>4. OthersRow(others).action = NoAction /\ OthersRow(others).children = others
        BY DEF OthersRow, Row
    <1>5. ASSUME NEW current \in BOOLEAN
          PROVE  /\ \A r \in MembersOf(ItemsOf(in, current)) : r.action # NoAction
                 /\ {r.action.id : r \in MembersOf(ItemsOf(in, current))} = IdsOf(in, current)
        <2>1. MembersOf(ItemsOf(in, current)) =
                 {ItemOf(in, k, current) : k \in {j \in DOMAIN in.layouts : IsOfSetup(in, j, current)}}
            BY ItemsAre
        <2>2. \A k \in DOMAIN in.layouts :
                 /\ ItemOf(in, k, current).action # NoAction
                 /\ ItemOf(in, k, current).action.id = in.layouts[k].id
            BY ItemIs
        <2> QED
            BY <2>1, <2>2 DEF IdsOf
    <1>6. Listed(menu) = IdsOf(in, TRUE)
        <2>1. {q \in RowsOf(menu) : q.action # NoAction} = MembersOf(matching)
            <3> HIDE DEF menu, matching, others
            <3>1. \A r \in MembersOf(matching) : r.action # NoAction
                BY <1>5 DEF matching
            <3> QED
                BY <1>3, <1>4, <3>1
        <2>2. {r.action.id : r \in MembersOf(matching)} = IdsOf(in, TRUE)
            BY <1>5
        <2>3. Listed(menu) = {r.action.id : r \in MembersOf(matching)}
            <3> HIDE DEF menu, matching
            <3> QED
                BY <1>1, <2>1
        <2> QED
            BY <2>2, <2>3
    <1>7. Listed(others) = IdsOf(in, FALSE)
        <2>1. {q \in RowsOf(others) : q.action # NoAction} = MembersOf(others)
            BY <1>3, <1>5
        <2>2. {r.action.id : r \in MembersOf(others)} = IdsOf(in, FALSE)
            BY <1>5
        <2>3. Listed(others) = {r.action.id : r \in MembersOf(others)}
            <3> HIDE DEF others
            <3> QED
                BY <1>1, <2>1
        <2> QED
            BY <2>2, <2>3
    <1>8. {q \in RowsOf(menu) : q.action = NoAction} =
             IF others = <<>> THEN {} ELSE {OthersRow(others)}
        <2>1. \A r \in MembersOf(matching) : r.action # NoAction
            BY <1>5
        <2> HIDE DEF menu, matching, others
        <2> QED
            BY <1>3, <1>4, <2>1
    <1>9. Submenus(menu) = IdsOf(in, FALSE)
        <2>1. others = <<>> => Listed(others) = {}
            <3>1. others = <<>> => MembersOf(others) = {}
                <4> HIDE DEF others
                <4> QED
                    BY ListOfNone
            <3> HIDE DEF others
            <3> QED
                BY <1>1, <1>3, <3>1
        <2> HIDE DEF menu, matching, others
        <2>2. CASE others = <<>>
            BY <1>2, <1>7, <1>8, <2>1, <2>2
        <2>3. CASE others # <<>>
            <3>1. Submenus(menu) = UNION {Listed(r.children) : r \in {OthersRow(others)}}
                BY <1>2, <1>8, <2>3
            <3> QED
                BY <1>4, <1>7, <3>1
        <2> QED
            BY <2>2, <2>3
    <1> QED
        BY <1>6, <1>9

Shows(r, m, current, mark) ==
    /\ r.action # NoAction /\ r.action.id = m.id
    /\ Len(r.label) > 1 <=> (current /\ HotkeyOf(m) # Zero)
    /\ (current /\ HotkeyOf(m) # Zero) =>
          (r.label[2].keys = HotkeyOf(m) /\ r.label[2].taken = mark)

LEMMA ColumnIs ==
    ASSUME NEW in, in.layouts \in Seq(Layout)
    PROVE  InColumn(BuildMenu(in)) =
              {<<in.layouts[k].id, HotkeyOf(in.layouts[k]), Taken(in, k)>> :
                  k \in {j \in DOMAIN in.layouts :
                            IsOfSetup(in, j, TRUE) /\ HotkeyOf(in.layouts[j]) # Zero}}
    <1> DEFINE menu     == BuildMenu(in)
               matching == ItemsOf(in, TRUE)
               others   == ItemsOf(in, FALSE)
    <1>1. /\ RowsOf(menu) = MembersOf(matching)
                 \cup (IF others = <<>> THEN {} ELSE {OthersRow(others)})
          /\ RowsOf(matching) = MembersOf(matching) /\ RowsOf(others) = MembersOf(others)
        BY OwnersAre
    <1>2. OthersRow(others).action = NoAction /\ OthersRow(others).children = others
        BY DEF OthersRow, Row
    <1>3. others = <<>> => MembersOf(others) = {}
        <2> HIDE DEF others
        <2> QED
            BY ListOfNone
    <1>4. ASSUME NEW current \in BOOLEAN, NEW k \in DOMAIN in.layouts
          PROVE  Shows(ItemOf(in, k, current), in.layouts[k], current, Taken(in, k))
        <2> DEFINE it == ItemOf(in, k, current)
                   l  == in.layouts[k]
                   taken == Taken(in, k)
        <2>1. /\ it.action # NoAction /\ it.action.id = l.id
              /\ it.label = Stripped(l.name) \o (IF current THEN Accelerator(l, taken) ELSE <<>>)
            BY ItemIs
        <2> HIDE DEF it, l, taken
        <2>2. \A a, b : /\ Len(<<a>> \o <<>>) = 1 /\ Len(<<a>> \o <<b>>) = 2
                       /\ (<<a>> \o <<b>>)[2] = b
            OBVIOUS
        <2>3. ASSUME current /\ HotkeyOf(l) # Zero PROVE Shows(it, l, current, taken)
            <3> DEFINE b == [keys |-> HotkeyOf(l), taken |-> taken]
            <3>1. it.label = <<l.name[1]>> \o <<b>>
                BY <2>1, <2>3 DEF Stripped, Accelerator
            <3>2. b.keys = HotkeyOf(l) /\ b.taken = taken
                OBVIOUS
            <3> HIDE DEF b
            <3>3. Len(it.label) > 1
                BY <2>2, <3>1
            <3>4. it.label[2] = b
                BY <2>2, <3>1
            <3>5. it.label[2].keys = HotkeyOf(l) /\ it.label[2].taken = taken
                BY <3>2, <3>4
            <3>6. it.action # NoAction /\ it.action.id = l.id
                BY <2>1
            <3> QED
                BY <2>3, <3>3, <3>5, <3>6 DEF Shows
        <2>4. ASSUME ~(current /\ HotkeyOf(l) # Zero) PROVE Shows(it, l, current, taken)
            <3>1. it.label = <<l.name[1]>> \o <<>>
                BY <2>1, <2>4 DEF Stripped, Accelerator
            <3>2. ~(Len(it.label) > 1)
                BY <2>2, <3>1
            <3>3. it.action # NoAction /\ it.action.id = l.id
                BY <2>1
            <3> QED
                BY <2>4, <3>2, <3>3 DEF Shows
        <2>5. Shows(it, l, current, taken)
            BY <2>3, <2>4
        <2> QED
            BY <2>5 DEF it, l, taken
    <1>5. \A current \in BOOLEAN : MembersOf(ItemsOf(in, current)) =
             {ItemOf(in, k, current) : k \in {j \in DOMAIN in.layouts : IsOfSetup(in, j, current)}}
        BY ItemsAre
    <1>6. ASSUME NEW current \in BOOLEAN, NEW r \in MembersOf(ItemsOf(in, current))
          PROVE  r.action # NoAction /\ RowsOf(r.children) = {}
        <2>1. PICK k \in DOMAIN in.layouts : r = ItemOf(in, k, current)
            BY <1>5
        <2>2. r.action # NoAction
            BY <1>4, <2>1 DEF Shows
        <2>3. \A c \in MembersOf(r.children) : c.children = <<>>
            BY <2>1, LayoutRowsRight
        <2>4. RowsOf(r.children) = {}
            BY <2>3 DEF RowsOf, MembersOf
        <2> QED
            BY <2>2, <2>4
    <1>7. LayoutRows(menu) = MembersOf(matching) \cup MembersOf(others)
        <2>1. /\ \A r \in MembersOf(matching) : r.action # NoAction /\ RowsOf(r.children) = {}
              /\ \A r \in MembersOf(others) : r.action # NoAction
            BY <1>6
        <2>2. LayoutRows(menu) = {r \in RowsOf(menu) \cup UNION {RowsOf(i.children) : i \in RowsOf(menu)} :
                                    r.action # NoAction}
            BY DEF LayoutRows
        <2> HIDE DEF menu, matching, others
        <2>3. UNION {RowsOf(i.children) : i \in RowsOf(menu)} = MembersOf(others)
            <3>1. CASE others = <<>>
                BY <1>1, <1>3, <2>1, <3>1
            <3>2. CASE others # <<>>
                BY <1>1, <1>2, <2>1, <3>2
            <3> QED
                BY <3>1, <3>2
        <2> QED
            BY <1>1, <1>2, <2>1, <2>2, <2>3
    <1> DEFINE Marks(k) == <<in.layouts[k].id, HotkeyOf(in.layouts[k]), Taken(in, k)>>
               Of(it) == <<it.action.id, it.label[2].keys, it.label[2].taken>>
               Here(k) == IsOfSetup(in, k, TRUE)
    <1>8. \A k \in DOMAIN in.layouts :
             /\ HotkeyOf(in.layouts[k]) # Zero =>
                   Len(ItemOf(in, k, TRUE).label) > 1 /\ Of(ItemOf(in, k, TRUE)) = Marks(k)
             /\ Len(ItemOf(in, k, TRUE).label) > 1 => HotkeyOf(in.layouts[k]) # Zero
             /\ ~(Len(ItemOf(in, k, FALSE).label) > 1)
        <2>1. \A k \in DOMAIN in.layouts :
                 /\ Shows(ItemOf(in, k, TRUE), in.layouts[k], TRUE, Taken(in, k))
                 /\ Shows(ItemOf(in, k, FALSE), in.layouts[k], FALSE, Taken(in, k))
            BY <1>4
        <2> QED
            BY <2>1 DEF Shows
    <1>9. InColumn(menu) = {Of(q) : q \in {r \in LayoutRows(menu) : Len(r.label) > 1}}
        BY DEF InColumn
    <1>10. {q \in LayoutRows(menu) : Len(q.label) > 1} =
              {ItemOf(in, k, TRUE) : k \in {j \in DOMAIN in.layouts :
                                              Here(j) /\ HotkeyOf(in.layouts[j]) # Zero}}
        <2>1. MembersOf(matching) = {ItemOf(in, k, TRUE) : k \in {j \in DOMAIN in.layouts : Here(j)}}
            BY <1>5
        <2>2. \A r \in MembersOf(others) : \E k \in DOMAIN in.layouts : r = ItemOf(in, k, FALSE)
            BY <1>5
        <2> HIDE DEF menu, matching, others, Here, Of
        <2> QED
            BY <1>7, <1>8, <2>1, <2>2
    <1>11. InColumn(menu) = {Marks(k) : k \in {j \in DOMAIN in.layouts :
                                                 Here(j) /\ HotkeyOf(in.layouts[j]) # Zero}}
        <2> HIDE DEF menu, Here, Of, Marks
        <2> QED
            BY <1>8, <1>9, <1>10
    <1> QED
        BY <1>11

-----------------------------------------------------------------------------
(***************************************************************************)
(* The inductive invariant.  The store is well formed; ...                 *)
(***************************************************************************)
TypeInv ==
    /\ WellFormed(layouts)
    /\ mons \in Seq(Monitor)
    /\ registry \in Registry
    /\ after \in {"idle", "reopen"}
    /\ left \in [{"edits", "events", "faults"} -> Int]

\* ... what the menu was built from is still so while it is open, but for what
\* others may have changed; ...
ReadInv ==
    phase \in {"menu", "dispatch"} => shown.mons \in Seq(Monitor) /\ shown.live \in Seq(STRING)

ShownInv ==
    phase = "menu" =>
        /\ shown.layouts = layouts /\ shown.minimizeOthers = minimizeOthers
        /\ shown.autostartOn \in BOOLEAN
        /\ "menu" \in drift \/ shown.autostartOn = (available /\ Enabled(registry))

\* ... and so is what the row clicked says; ...
RowInv ==
    phase = "dispatch" =>
        /\ action = row.action
        /\ \E auto \in BOOLEAN :
              /\ Right(row, layouts, minimizeOthers, auto)
              /\ "menu" \in drift \/ auto = (available /\ Enabled(registry))
        /\ action.type = "autostart" => available

\* ... and what actionToggleAutostart has found is so, too, unless others have
\* changed it, and it does what the row says; ...
CheckInv ==
    phase \in {"disable", "enable"} =>
        /\ action.type = "autostart"
        /\ "check" \in drift => "menu" \in drift
        /\ "menu" \in drift \/ row.checked = Enabled(registry)
        /\ "check" \in drift \/ (phase = "disable" <=> Enabled(registry))

\* ... and what is registered is what the last sync made of the store.
SyncInv ==
    phase # "sync" /\ synced # Unknown =>
        \E lost \in SUBSET Active(layouts, synced) :
            /\ registered = {<<layouts[i].id, Parse[layouts[i].hotkey]>> :
                                i \in Active(layouts, synced) \ lost}
            /\ unavailable = {layouts[i].id : i \in lost}

MenuInv == TypeInv /\ ReadInv /\ ShownInv /\ RowInv /\ CheckInv /\ SyncInv

Both == {"menu", "check"}

-----------------------------------------------------------------------------
(***************************************************************************)
(* The layouts stay well formed.                                           *)
(***************************************************************************)
LEMMA AtIs ==
    ASSUME WellFormed(layouts), NEW id \in Ids(layouts)
    PROVE  /\ At(id) \in DOMAIN layouts /\ layouts[At(id)].id = id
           /\ \A i \in DOMAIN layouts : layouts[i].id = id => i = At(id)
    <1> DEFINE Is(i) == layouts[i].id = id
    <1>1. \E i \in DOMAIN layouts : Is(i)
        BY DEF Ids
    <1>2. At(id) = CHOOSE i \in DOMAIN layouts : Is(i)
        BY DEF At
    <1> HIDE DEF Is
    <1>3. At(id) \in DOMAIN layouts /\ Is(At(id))
        BY <1>1, <1>2
    <1> QED
        BY <1>3 DEF WellFormed, Is

LEMMA LayoutsAre ==
    ASSUME NEW ls, WellFormed(ls)
    PROVE  /\ ls \in Seq(Layout) /\ Len(ls) \in Nat /\ DOMAIN ls = 1 .. Len(ls)
           /\ \A i \in DOMAIN ls : ls[i] \in Layout
    BY DEF WellFormed

LEMMA ReplacedWellFormed ==
    ASSUME NEW ls, WellFormed(ls), NEW i \in DOMAIN ls, NEW l \in Layout,
           l.id = ls[i].id, l.setup = FingerprintOf(l.monitors)
    PROVE  WellFormed([ls EXCEPT ![i] = l])
    <1> DEFINE new == [ls EXCEPT ![i] = l]
    <1>1. /\ ls \in Seq(Layout) /\ DOMAIN ls = 1 .. Len(ls) /\ Len(ls) \in Nat
          /\ \A j \in DOMAIN ls : ls[j] \in Layout
        BY LayoutsAre
    <1>2. DOMAIN new = DOMAIN ls /\ \A j \in DOMAIN ls : new[j] = IF j = i THEN l ELSE ls[j]
        OBVIOUS
    <1>3. new \in Seq(Layout)
        BY <1>1
    <1> HIDE DEF new
    <1>4. \A j \in DOMAIN ls : new[j].id = ls[j].id
        BY <1>2
    <1>5. \A j \in DOMAIN new : new[j].setup = FingerprintOf(new[j].monitors)
        BY <1>2 DEF WellFormed
    <1>6. WellFormed(new)
        BY <1>2, <1>3, <1>4, <1>5 DEF WellFormed
    <1> QED
        BY <1>6 DEF new

LEMMA AppendedWellFormed ==
    ASSUME NEW ls, WellFormed(ls), NEW l \in Layout,
           l.id \notin Ids(ls), l.setup = FingerprintOf(l.monitors)
    PROVE  WellFormed(Append(ls, l))
    <1> DEFINE new == Append(ls, l)
               n == Len(ls)
    <1>1. ls \in Seq(Layout) /\ DOMAIN ls = 1 .. n /\ n \in Nat
        BY LayoutsAre
    <1>2. /\ new \in Seq(Layout) /\ DOMAIN new = 1 .. n + 1
          /\ new[n + 1] = l /\ \A j \in 1 .. n : new[j] = ls[j]
        BY <1>1
    <1> HIDE DEF new, n
    <1>3. \A j \in 1 .. n + 1 : j \in 1 .. n \/ j = n + 1
        BY <1>1
    <1>4. \A j \in 1 .. n : ls[j].id # l.id
        BY <1>1 DEF Ids
    <1>5. \A j \in DOMAIN new : new[j].setup = FingerprintOf(new[j].monitors)
        BY <1>1, <1>2, <1>3 DEF WellFormed
    <1>6. \A j, k \in 1 .. n : ls[j].id = ls[k].id => j = k
        BY <1>1 DEF WellFormed
    <1>7. \A j, k \in DOMAIN new : new[j].id = new[k].id => j = k
        BY <1>2, <1>3, <1>4, <1>6
    <1>8. WellFormed(new)
        BY <1>2, <1>5, <1>7 DEF WellFormed
    <1> QED
        BY <1>8 DEF new

LEMMA RemoveAtIs ==
    ASSUME NEW S, NEW s \in Seq(S), NEW i \in DOMAIN s
    PROVE  /\ RemoveAt(s, i) \in Seq(S) /\ DOMAIN RemoveAt(s, i) = 1 .. Len(s) - 1
           /\ \A k \in 1 .. Len(s) - 1 : RemoveAt(s, i)[k] = IF k < i THEN s[k] ELSE s[k + 1]
    <1> DEFINE front == SubSeq(s, 1, i - 1)
               back  == SubSeq(s, i + 1, Len(s))
               new   == front \o back
               n     == Len(s)
    <1>1. n \in Nat /\ i \in 1 .. n /\ DOMAIN s = 1 .. n
        OBVIOUS
    <1>2. front \in Seq(S) /\ Len(front) = i - 1 /\ \A k \in 1 .. i - 1 : front[k] = s[k]
        BY <1>1
    <1>3. back \in Seq(S) /\ Len(back) = n - i /\ \A k \in 1 .. n - i : back[k] = s[k + i]
        BY <1>1
    <1>4. new = RemoveAt(s, i)
        BY DEF RemoveAt
    <1> HIDE DEF front, back, n
    <1>5. new \in Seq(S) /\ Len(new) = n - 1 /\ DOMAIN new = 1 .. n - 1
        <2>1. new \in Seq(S)
            BY <1>2, <1>3
        <2>2. Len(new) = Len(front) + Len(back)
            <3>1. front \in Seq(S) /\ back \in Seq(S)
                BY <1>2, <1>3
            <3> QED
                BY <3>1
        <2> HIDE DEF new
        <2>3. Len(new) = n - 1
            BY <1>1, <1>2, <1>3, <2>2
        <2> QED
            BY <2>1, <2>3
    <1>6. ASSUME NEW k \in 1 .. n - 1 PROVE new[k] = IF k < i THEN s[k] ELSE s[k + 1]
        <2>1. CASE k < i
            <3>1. k \in 1 .. i - 1
                BY <1>1, <2>1
            <3>2. new[k] = front[k]
                BY <1>1, <1>2, <1>3, <3>1
            <3> QED
                BY <1>2, <2>1, <3>1, <3>2
        <2>2. CASE ~(k < i)
            <3>1. k - (i - 1) \in 1 .. n - i /\ k - (i - 1) + i = k + 1
                BY <1>1, <2>2
            <3>2. new[k] = back[k - (i - 1)]
                <4>1. \A j \in 1 .. Len(front) + Len(back) :
                         new[j] = IF j <= Len(front) THEN front[j] ELSE back[j - Len(front)]
                    BY <1>2, <1>3
                <4> HIDE DEF new
                <4>2. k \in 1 .. Len(front) + Len(back) /\ ~(k <= Len(front))
                    BY <1>1, <1>2, <1>3, <2>2
                <4> QED
                    BY <1>2, <4>1, <4>2
            <3> QED
                BY <1>3, <2>2, <3>1, <3>2
        <2> QED
            BY <2>1, <2>2
    <1> QED
        BY <1>4, <1>5, <1>6 DEF n

LEMMA RemovedWellFormed ==
    ASSUME NEW ls, WellFormed(ls), NEW i \in DOMAIN ls
    PROVE  WellFormed(RemoveAt(ls, i))
    <1> DEFINE new == RemoveAt(ls, i)
               n == Len(ls)
               Old(k) == IF k < i THEN k ELSE k + 1
    <1>1. ls \in Seq(Layout) /\ DOMAIN ls = 1 .. n /\ n \in Nat /\ i \in Nat
        BY LayoutsAre
    <1>2. /\ new \in Seq(Layout) /\ DOMAIN new = 1 .. n - 1
          /\ \A k \in 1 .. n - 1 : new[k] = IF k < i THEN ls[k] ELSE ls[k + 1]
        BY <1>1, RemoveAtIs
    <1> HIDE DEF new, n
    <1>3. \A k \in 1 .. n - 1 : Old(k) \in 1 .. n /\ new[k] = ls[Old(k)]
        BY <1>1, <1>2
    <1>4. \A j, k \in 1 .. n - 1 : Old(j) = Old(k) => j = k
        BY <1>1
    <1> HIDE DEF Old
    <1>5. \A k \in DOMAIN new : new[k].setup = FingerprintOf(new[k].monitors)
        BY <1>1, <1>2, <1>3 DEF WellFormed
    <1>6. \A j, k \in DOMAIN new : new[j].id = new[k].id => j = k
        BY <1>1, <1>2, <1>3, <1>4 DEF WellFormed
    <1>7. WellFormed(new)
        BY <1>2, <1>5, <1>6 DEF WellFormed
    <1> QED
        BY <1>7 DEF new

-----------------------------------------------------------------------------
\* What an action on a layout finds.
LEMMA Dispatched ==
    ASSUME RowInv, phase = "dispatch"
    PROVE  /\ action = row.action
           /\ action.type \in OnLayout => action.id \in Ids(layouts)
           /\ "id" \in DOMAIN action => action.id \in Ids(layouts)
           /\ action.type = "toggleInclude" => Ticked(row, layouts)
           /\ action.type = "minimizeOthers" => row.checked = minimizeOthers
           /\ action.type = "autostart" =>
                 available /\ ("menu" \in drift \/ row.checked = (available /\ Enabled(registry)))
    BY DEF RowInv, Right, About

\* A layout that is being described.
Draft == [id : LayoutId, name : Names, setup : Setup \cup {Unknown}, monitors : Seq(Monitor),
          hotkey : Text, windows : Seq([exe : STRING, include : BOOLEAN])]

LEMMA CapturedIs ==
    ASSUME NEW l \in Draft, shown.mons \in Seq(Monitor), shown.live \in Seq(STRING)
    PROVE  /\ Captured(l) \in Layout /\ Captured(l).id = l.id
           /\ Captured(l).setup = FingerprintOf(Captured(l).monitors)
    <1> DEFINE ws == [k \in DOMAIN shown.live |-> [exe |-> shown.live[k], include |-> TRUE]]
               W  == [exe : STRING, include : BOOLEAN]
               ms == shown.mons
               f  == FingerprintOf(ms)
    <1>1. ws \in Seq(W)
        <2> DEFINE v == shown.live
                   n == Len(v)
        <2>1. n \in Nat /\ DOMAIN v = 1 .. n /\ \A k \in 1 .. n : v[k] \in STRING
            OBVIOUS
        <2>2. \A k \in 1 .. n : [exe |-> v[k], include |-> TRUE] \in W
            BY <2>1
        <2>3. ws \in [1 .. n -> W]
            BY <2>1, <2>2
        <2> HIDE DEF W, ws, n
        <2> QED
            BY <2>1, <2>3
    <1>2. ms \in Seq(Monitor) /\ f \in Setup
        BY FingerprintType
    <1>3. Captured(l) = [[l EXCEPT !.setup = f, !.monitors = ms] EXCEPT !.windows = ws]
        BY DEF Captured, Described
    <1> HIDE DEF ws, ms, f
    <1>4. Captured(l) = [id |-> l.id, name |-> l.name, setup |-> f, monitors |-> ms,
                         hotkey |-> l.hotkey, windows |-> ws]
        BY <1>3 DEF Draft
    <1>5. l.id \in LayoutId /\ l.name \in Names /\ l.hotkey \in Text
        BY DEF Draft
    <1>6. Captured(l) \in Layout
        BY <1>1, <1>2, <1>4, <1>5 DEF Layout
    <1> QED
        BY <1>4, <1>6 DEF f

LEMMA MutateWellFormed ==
    ASSUME NEW ls, NEW option, NEW next, WellFormed(layouts), WellFormed(ls),
           Mutate(ls, option, next)
    PROVE  WellFormed(layouts')
    <1>1. layouts' = ls \/ layouts' = layouts
        BY DEF Mutate, store
    <1> QED
        BY <1>1

LEMMA ChangeWellFormed ==
    ASSUME NEW id \in Ids(layouts), NEW l \in Layout, WellFormed(layouts),
           l.id = id, l.setup = FingerprintOf(l.monitors), Change(id, l)
    PROVE  WellFormed(layouts')
    <1>1. At(id) \in DOMAIN layouts /\ layouts[At(id)].id = id
        BY AtIs
    <1>2. WellFormed([layouts EXCEPT ![At(id)] = l])
        BY <1>1, ReplacedWellFormed
    <1> QED
        BY <1>2, MutateWellFormed DEF Change

LEMMA OnLayoutWellFormed ==
    ASSUME TypeInv, ReadInv, RowInv, phase = "dispatch", action.type \in OnLayout,
           \/ ActionOverwrite \/ ActionDelete \/ ActionToggleInclude
           \/ \E name \in Names : ActionRename(name)
           \/ \E hk \in Combo \cup {Zero} : ActionHotkey(hk)
    PROVE  WellFormed(layouts')
    <1> DEFINE id == action.id
               l  == layouts[At(id)]
    <1>1. id \in Ids(layouts) /\ WellFormed(layouts)
        BY Dispatched DEF TypeInv
    <1>2. At(id) \in DOMAIN layouts /\ l.id = id
        BY <1>1, AtIs
    <1>3. l \in Layout /\ l.setup = FingerprintOf(l.monitors)
        BY <1>1, <1>2, LayoutsAre DEF WellFormed
    <1>4. shown.mons \in Seq(Monitor) /\ shown.live \in Seq(STRING)
        BY DEF ReadInv
    <1>5. CASE ActionOverwrite
        <2>1. l \in Draft
            BY <1>3 DEF Draft, Layout
        <2>2. /\ Captured(l) \in Layout /\ Captured(l).id = id
              /\ Captured(l).setup = FingerprintOf(Captured(l).monitors)
            BY <1>2, <1>4, <2>1, CapturedIs
        <2>3. Change(id, Captured(l))
            BY <1>5 DEF ActionOverwrite
        <2> QED
            BY <1>1, <2>2, <2>3, ChangeWellFormed
    <1>6. ASSUME NEW name \in Names, ActionRename(name) PROVE WellFormed(layouts')
        <2> DEFINE new == [l EXCEPT !.name = name]
        <2>1. /\ new \in Layout /\ new.id = id /\ new.setup = l.setup
              /\ new.monitors = l.monitors
            BY <1>2, <1>3 DEF Layout
        <2>2. Change(id, new)
            BY <1>6 DEF ActionRename
        <2> HIDE DEF new
        <2> QED
            BY <1>1, <1>3, <2>1, <2>2, ChangeWellFormed
    <1>7. ASSUME NEW hk \in Combo \cup {Zero}, ActionHotkey(hk) PROVE WellFormed(layouts')
        <2> DEFINE new == [l EXCEPT !.hotkey = Canonical[hk]]
        <2>1. Canonical[hk] \in Text
            BY HotkeyTextAssumption
        <2>2. /\ new \in Layout /\ new.id = id /\ new.setup = l.setup
              /\ new.monitors = l.monitors
            BY <1>2, <1>3, <2>1 DEF Layout
        <2>3. Change(id, new)
            BY <1>7 DEF ActionHotkey
        <2> HIDE DEF new
        <2> QED
            BY <1>1, <1>3, <2>2, <2>3, ChangeWellFormed
    <1>8. CASE ActionDelete
        <2>1. WellFormed(RemoveAt(layouts, At(id)))
            BY <1>1, <1>2, RemovedWellFormed
        <2> QED
            BY <1>1, <1>8, <2>1, MutateWellFormed DEF ActionDelete
    <1>9. CASE ActionToggleInclude
        <2> DEFINE k   == action.idx
                   ws  == [l.windows EXCEPT ![k].include = ~@]
                   new == [l EXCEPT !.windows = ws]
                   W   == [exe : STRING, include : BOOLEAN]
        <2>1. ws \in Seq(W)
            <3>1. l.windows \in Seq(W)
                BY <1>3 DEF Layout
            <3>2. DOMAIN ws = DOMAIN l.windows
                OBVIOUS
            <3>3. \A j \in DOMAIN ws : ws[j] \in W
                <4>1. \A j \in DOMAIN ws : l.windows[j] \in W
                    <5> DEFINE v == l.windows
                    <5>1. v \in Seq(W) /\ DOMAIN ws = DOMAIN v
                        BY <3>1, <3>2
                    <5> HIDE DEF ws, W, v
                    <5>2. \A j \in DOMAIN ws : v[j] \in W
                        BY <5>1
                    <5> QED
                        BY <5>2 DEF v
                <4>2. \A w \in W : [w EXCEPT !.include = ~@] \in W
                    OBVIOUS
                <4>3. \A j \in DOMAIN ws :
                         ws[j] = IF j = k THEN [l.windows[j] EXCEPT !.include = ~@]
                                 ELSE l.windows[j]
                    OBVIOUS
                <4> HIDE DEF ws, W, l, k
                <4> QED
                    BY <4>1, <4>2, <4>3
            <3>4. Len(l.windows) \in Nat /\ DOMAIN l.windows = 1 .. Len(l.windows)
                BY <3>1
            <3>5. ws = [j \in 1 .. Len(l.windows) |-> ws[j]]
                BY <3>2, <3>4
            <3> HIDE DEF ws, W, l
            <3>6. ws \in [1 .. Len(l.windows) -> W]
                BY <3>2, <3>3, <3>4, <3>5
            <3> QED
                BY <3>4, <3>6
        <2>2. /\ new \in Layout /\ new.id = id /\ new.setup = l.setup
              /\ new.monitors = l.monitors
            <3> HIDE DEF ws
            <3> QED
                BY <1>2, <1>3, <2>1 DEF Layout
        <2>3. [layouts EXCEPT ![At(id)].windows[k].include = ~@] = [layouts EXCEPT ![At(id)] = new]
            OBVIOUS
        <2>4. WellFormed([layouts EXCEPT ![At(id)] = new])
            <3> HIDE DEF new
            <3> QED
                BY <1>1, <1>2, <1>3, <2>2, ReplacedWellFormed
        <2>5. Mutate([layouts EXCEPT ![At(id)].windows[k].include = ~@], minimizeOthers, "reopen")
            BY <1>9 DEF ActionToggleInclude
        <2> HIDE DEF new, k, id
        <2> QED
            BY <1>1, <2>3, <2>4, <2>5, MutateWellFormed
    <1> QED
        BY <1>5, <1>6, <1>7, <1>8, <1>9

(***************************************************************************)
(* The parts of the invariant, step by step.                               *)
(***************************************************************************)
LEMMA UsesType ==
    ASSUME left \in [{"edits", "events", "faults"} -> Int],
           NEW what \in {"edits", "events", "faults"}, Uses(what)
    PROVE  /\ left' \in [{"edits", "events", "faults"} -> Int]
           /\ \A other \in {"edits", "events", "faults"} \ {what} : left'[other] = left[other]
    BY DEF Uses

LEMMA SyncFrame ==
    ASSUME TypeInv, SyncHotkeys
    PROVE  left' \in [{"edits", "events", "faults"} -> Int]
    <1>1. ASSUME NEW r, EnumMonitors(r) PROVE left' \in [{"edits", "events", "faults"} -> Int]
        BY <1>1, UsesType DEF EnumMonitors, Fault, TypeInv
    <1>2. Fault => left' \in [{"edits", "events", "faults"} -> Int]
        BY UsesType DEF Fault, TypeInv
    <1> QED
        BY <1>1, <1>2 DEF SyncHotkeys

LEMMA MutateFrame ==
    ASSUME TypeInv, NEW ls, NEW option, NEW next \in {"idle", "reopen"},
           Mutate(ls, option, next)
    PROVE  /\ left' \in [{"edits", "events", "faults"} -> Int]
           /\ phase' = "sync" /\ after' \in {"idle", "reopen"}
           /\ mons' = mons /\ registry' = registry
    <1>1. CASE /\ layouts' = ls /\ minimizeOthers' = option /\ Uses("edits") /\ Finish(next)
        BY <1>1, UsesType DEF Finish, TypeInv, Mutate
    <1>2. CASE UNCHANGED store /\ Fault /\ Finish("idle")
        BY <1>2, UsesType DEF Finish, TypeInv, Mutate, Fault
    <1> QED
        BY <1>1, <1>2 DEF Mutate

LEMMA TypeInit == Init => TypeInv
    <1> SUFFICES ASSUME Init PROVE TypeInv
        OBVIOUS
    <1>1. WellFormed(layouts)
        BY MenuAssumption DEF Init
    <1>2. mons \in Seq(Monitor)
        BY MenuAssumption DEF Init
    <1>3. left \in [{"edits", "events", "faults"} -> Int]
        BY MenuAssumption DEF Init
    <1>4. registry \in Registry /\ after \in {"idle", "reopen"}
        BY DEF Init, Registry
    <1> QED
        BY <1>1, <1>2, <1>3, <1>4 DEF TypeInv

LEMMA TypeStep ==
    ASSUME TypeInv, ReadInv, RowInv, [Next]_vars
    PROVE  TypeInv'
    <1> DEFINE T == [{"edits", "events", "faults"} -> Int]
    <1> USE DEF TypeInv
    <1>1. \A f \in {"events", "faults", "edits"} : Uses(f) => left' \in T
        BY UsesType
    <1>2. (Fault => left' \in T) /\ (Event => left' \in T)
        BY <1>1 DEF Fault, Event
    <1> HIDE DEF T
    <1>3. CASE UNCHANGED vars
        BY <1>3 DEF vars, world, store, manager, choice
    <1>4. CASE ShowMenu
        <2>1. left' \in T
            BY <1>2, <1>4 DEF ShowMenu, ReadAutostart, T
        <2> QED
            BY <1>4, <2>1 DEF ShowMenu, store, manager, T
    <1>5. CASE ShowFails
        BY <1>2, <1>5 DEF ShowFails, world, store, T
    <1>6. CASE Dismiss
        BY <1>6 DEF Dismiss, world, store
    <1>7. CASE Click
        BY <1>7 DEF Click, world, store
    <1>8. CASE SyncAfter
        BY <1>8, SyncFrame DEF SyncAfter, world, store
    <1>9. CASE DeliverDisplayChange
        BY <1>9, SyncFrame DEF DeliverDisplayChange, store
    <1>10. CASE OtherApplication
        BY <1>2, <1>10 DEF OtherApplication, store, T
    <1>11. ASSUME NEW ms \in Arrangements, ChangeDisplay(ms) PROVE TypeInv'
        <2>1. ms \in Seq(Monitor)
            BY MenuAssumption
        <2> QED
            BY <1>2, <1>11, <2>1 DEF ChangeDisplay, store, T
    <1>12. ASSUME NEW r \in Entries, ChangeRegistry(r) PROVE TypeInv'
        <2>1. r \in Registry
            BY MenuAssumption
        <2> QED
            BY <1>2, <1>12, <2>1 DEF ChangeRegistry, store, T
    <1>13. CASE Handler
        <2>1. CASE NothingChanges
            BY <2>1 DEF NothingChanges, Finish, store
        <2>2. CASE ActionQuit
            BY <2>2 DEF ActionQuit, world, store
        <2>3. CASE CheckAutostart
            BY <2>3 DEF CheckAutostart, store
        <2>8. CASE CheckFails
            BY <1>2, <2>8 DEF CheckFails, Finish, store, T
        <2>9. CASE DisableAutostart \/ EnableAutostart
            <3>1. registry' \in Registry
                <4>1. NoKey \in Registry /\ NoValue \in Registry
                    BY DEF Registry
                <4>2. Enable(registry) \in Registry /\ Disable(registry) \in Registry
                    <5>1. Enable(registry) \in Registry
                        <6> DEFINE B == BOOLEAN
                                   P == {Exe, OtherExe}
                                   R == {Entry(p, q, u) : p \in P, q, u \in B}
                        <6>1. Exe \in P /\ TRUE \in B /\ FALSE \in B
                            OBVIOUS
                        <6> HIDE DEF B, P
                        <6>2. \A p \in P, q, u \in B : Entry(p, q, u) \in R
                            OBVIOUS
                        <6> HIDE DEF R
                        <6>3. Entry(Exe, TRUE, FALSE) \in R
                            BY <6>1, <6>2, Zenon
                        <6>4. Registry = {NoKey, NoValue} \cup R
                            BY DEF Registry, R, P, B
                        <6> QED
                            BY <6>3, <6>4 DEF Enable
                    <5> QED
                        BY <4>1, <5>1 DEF Disable
                <4> QED
                    BY <2>9, <4>1, <4>2 DEF DisableAutostart, EnableAutostart, AfterFailure
            <3>2. left' \in T
                BY <1>2, <2>9 DEF DisableAutostart, EnableAutostart, T
            <3> QED
                BY <2>9, <3>1, <3>2 DEF DisableAutostart, EnableAutostart, Finish, store, T
        <2>4. CASE ActionToggleMinimizeOthers
            <3>1. Mutate(layouts, ~minimizeOthers, "reopen")
                BY <2>4 DEF ActionToggleMinimizeOthers
            <3>2. WellFormed(layouts')
                BY <3>1, MutateWellFormed
            <3> QED
                BY <3>1, <3>2, MutateFrame
        <2>5. ASSUME NEW name \in Names, NEW id \in LayoutId, ActionSave(id, name) PROVE TypeInv'
            <3> DEFINE new == [id |-> id, name |-> name, setup |-> Unknown, monitors |-> <<>>,
                               hotkey |-> Canonical[Zero], windows |-> <<>>]
            <3>1. Mutate(Append(layouts, Captured(new)), minimizeOthers, "idle")
                BY <2>5 DEF ActionSave
            <3>2. new \in Draft /\ new.id = id
                <4>1. Canonical[Zero] \in Text
                    BY HotkeyTextAssumption
                <4> QED
                    BY <4>1 DEF Draft
            <3> HIDE DEF new
            <3>3. /\ Captured(new) \in Layout /\ Captured(new).id = id
                  /\ Captured(new).setup = FingerprintOf(Captured(new).monitors)
                <4>1. shown.mons \in Seq(Monitor) /\ shown.live \in Seq(STRING)
                    BY <2>5 DEF ActionSave, Dispatch, ReadInv
                <4> QED
                    BY <3>2, <4>1, CapturedIs
            <3>4. id \notin Ids(layouts)
                BY <2>5 DEF ActionSave
            <3>5. WellFormed(Append(layouts, Captured(new)))
                BY <3>3, <3>4, AppendedWellFormed
            <3>6. WellFormed(layouts')
                BY <3>1, <3>5, MutateWellFormed
            <3> QED
                BY <3>1, <3>6, MutateFrame
        <2>6. CASE \/ ActionOverwrite \/ ActionDelete \/ ActionToggleInclude
                   \/ \E name \in Names : ActionRename(name)
                   \/ \E hk \in Combo \cup {Zero} : ActionHotkey(hk)
            <3>1. phase = "dispatch" /\ action.type \in OnLayout
                BY <2>6 DEF ActionOverwrite, ActionDelete, ActionToggleInclude, ActionRename,
                        ActionHotkey, Dispatch, OnLayout
            <3>2. WellFormed(layouts')
                BY <2>6, <3>1, OnLayoutWellFormed
            <3>3. \E ls, option : \E next \in {"idle", "reopen"} : Mutate(ls, option, next)
                BY <2>6 DEF ActionOverwrite, ActionDelete, ActionToggleInclude, ActionRename,
                        ActionHotkey, Change
            <3> QED
                BY <3>2, <3>3, MutateFrame
        <2> QED
            BY <1>13, <2>1, <2>2, <2>3, <2>4, <2>5, <2>6, <2>8, <2>9 DEF Handler
    <1> QED
        BY <1>3, <1>4, <1>5, <1>6, <1>7, <1>8, <1>9, <1>10, <1>11, <1>12, <1>13 DEF Next

\* Which steps a menu or its action survives, ...
LEMMA MenuSteps ==
    ASSUME TypeInv, [Next]_vars
    PROVE  \/ ShowMenu \/ Click \/ phase' \notin {"menu", "dispatch"}
           \/ /\ UNCHANGED <<phase, choice, store, available>>
              /\ UNCHANGED <<registry, drift>> \/ drift' = Both
    <1> DEFINE Kept == /\ UNCHANGED <<phase, choice, store, available>>
                       /\ UNCHANGED <<registry, drift>> \/ drift' = Both
               Over == phase' \notin {"menu", "dispatch"}
    <1>1. CASE UNCHANGED vars
        <2>1. Kept
            BY <1>1 DEF vars, world
        <2> QED
            BY <2>1
    <1>2. CASE ShowFails \/ Dismiss
        BY <1>2 DEF ShowFails, Dismiss
    <1>3. CASE SyncAfter
        BY <1>3 DEF SyncAfter, TypeInv
    <1>4. CASE Handler
        <2>1. Over
            BY <1>4 DEF Handler, NothingChanges, ActionOverwrite, ActionRename, ActionHotkey,
                    ActionDelete, ActionToggleInclude, ActionToggleMinimizeOthers, ActionSave,
                    CheckAutostart, CheckFails, DisableAutostart, EnableAutostart, ActionQuit,
                    Change, Mutate, Finish
        <2> QED
            BY <2>1
    <1>5. CASE DeliverDisplayChange
        <2>1. Kept
            BY <1>5 DEF DeliverDisplayChange
        <2> QED
            BY <2>1
    <1>6. CASE OtherApplication
        <2>1. Kept
            BY <1>6 DEF OtherApplication
        <2> QED
            BY <2>1
    <1>7. ASSUME NEW ms \in Arrangements, ChangeDisplay(ms) PROVE Kept
        BY <1>7 DEF ChangeDisplay
    <1>8. ASSUME NEW r \in Entries, ChangeRegistry(r) PROVE Kept
        BY <1>8 DEF ChangeRegistry, Both
    <1> QED
        BY <1>1, <1>2, <1>3, <1>4, <1>5, <1>6, <1>7, <1>8 DEF Next

\* ... and which leave the hotkeys alone.
LEMMA SyncSteps ==
    ASSUME [Next]_vars
    PROVE  \/ phase' = "sync"
           \/ SyncHotkeys /\ UNCHANGED store
           \/ phase # "sync" /\ UNCHANGED <<store, manager>>
    <1>1. CASE UNCHANGED vars
        BY <1>1 DEF vars
    <1>2. CASE ShowMenu \/ ShowFails \/ Dismiss \/ Click
        BY <1>2 DEF ShowMenu, ShowFails, Dismiss, Click
    <1>3. CASE SyncAfter \/ DeliverDisplayChange
        BY <1>3 DEF SyncAfter, DeliverDisplayChange
    <1>4. CASE Handler
        BY <1>4 DEF Handler, NothingChanges, ActionOverwrite, ActionRename, ActionHotkey,
                    ActionDelete, ActionToggleInclude, ActionToggleMinimizeOthers, ActionSave,
                    CheckAutostart, CheckFails, DisableAutostart, EnableAutostart, ActionQuit,
                    Change, Mutate, Finish, Dispatch
    <1>5. CASE OtherApplication
        BY <1>5 DEF OtherApplication
    <1>6. ASSUME NEW ms \in Arrangements, ChangeDisplay(ms)
          PROVE  UNCHANGED <<phase, store, manager>>
        BY <1>6 DEF ChangeDisplay
    <1>7. ASSUME NEW r \in Entries, ChangeRegistry(r) PROVE UNCHANGED <<phase, store, manager>>
        BY <1>7 DEF ChangeRegistry
    <1> QED
        BY <1>1, <1>2, <1>3, <1>4, <1>5, <1>6, <1>7 DEF Next

LEMMA ReadStep ==
    ASSUME TypeInv, ReadInv, [Next]_vars
    PROVE  ReadInv'
    <1>1. CASE ShowMenu
        <2>1. PICK r \in {mons} \cup Partial(mons), live \in LiveLists, on \in BOOLEAN :
                 shown' = MenuInput(r, live, on)
            BY <1>1 DEF ShowMenu
        <2>2. shown'.mons = r /\ shown'.live = live
            BY <2>1 DEF MenuInput
        <2>3. r \in Seq(Monitor)
            <3>1. mons \in Seq(Monitor)
                BY DEF TypeInv
            <3>2. \A k \in DOMAIN mons : RemoveAt(mons, k) \in Seq(Monitor)
                BY <3>1, RemoveAtIs
            <3> QED
                BY <3>1, <3>2 DEF Partial
        <2>4. live \in Seq(STRING)
            BY MenuAssumption
        <2> QED
            BY <2>2, <2>3, <2>4 DEF ReadInv
    <1>2. CASE Click
        BY <1>2 DEF Click, ReadInv
    <1>3. CASE phase' \notin {"menu", "dispatch"}
        BY <1>3 DEF ReadInv
    <1>4. CASE UNCHANGED <<phase, choice>>
        BY <1>4 DEF ReadInv, choice
    <1> QED
        BY <1>1, <1>2, <1>3, <1>4, MenuSteps

LEMMA ShownStep ==
    ASSUME TypeInv, ShownInv, [Next]_vars
    PROVE  ShownInv'
    <1>1. CASE ShowMenu
        <2>1. PICK r \in {mons} \cup Partial(mons), live \in LiveLists, on \in BOOLEAN :
                 /\ shown' = MenuInput(r, live, on)
                 /\ "menu" \in drift' \/ on = (available /\ Enabled(registry))
            BY <1>1 DEF ShowMenu, ReadAutostart
        <2>2. /\ shown'.layouts = layouts /\ shown'.minimizeOthers = minimizeOthers
              /\ shown'.autostartOn = on
            BY <2>1 DEF MenuInput
        <2>3. UNCHANGED <<layouts, minimizeOthers, available, registry>>
            BY <1>1 DEF ShowMenu, store
        <2> QED
            BY <2>1, <2>2, <2>3 DEF ShownInv, Enabled
    <1>2. CASE phase' # "menu"
        BY <1>2 DEF ShownInv
    <1>3. CASE /\ UNCHANGED <<phase, choice, store, available>>
               /\ UNCHANGED <<registry, drift>> \/ drift' = Both
        BY <1>3 DEF ShownInv, choice, store, Enabled, Both
    <1> QED
        BY <1>1, <1>2, <1>3, MenuSteps DEF Click

LEMMA RowStep ==
    ASSUME TypeInv, ShownInv, RowInv, [Next]_vars
    PROVE  RowInv'
    <1>1. CASE Click
        <2> DEFINE items    == BuildMenu(shown)
                   commands == Commands(items)
                   actions  == FlattenActions(items)
        <2>1. PICK k \in DOMAIN commands :
                 ~commands[k].disabled /\ row' = commands[k] /\ action' = actions[k]
            BY <1>1 DEF Click
        <2>2. /\ shown.layouts = layouts /\ shown.minimizeOthers = minimizeOthers
              /\ shown.autostartOn \in BOOLEAN
              /\ "menu" \in drift \/ shown.autostartOn = (available /\ Enabled(registry))
            BY <1>1 DEF ShownInv, Click
        <2>3. layouts \in Seq(Layout)
            BY LayoutsAre DEF TypeInv
        <2>4. /\ actions[k] = commands[k].action
              /\ Right(commands[k], shown.layouts, shown.minimizeOthers, shown.autostartOn)
            BY <2>2, <2>3, CommandsRight
        <2> HIDE DEF items, commands, actions
        <2>5. Right(row', layouts, minimizeOthers, shown.autostartOn) /\ action' = row'.action
            BY <2>1, <2>2, <2>4
        <2>6. action'.type = "autostart" => available
            BY <2>1, <2>5 DEF Right
        <2>7. UNCHANGED <<layouts, minimizeOthers, available, registry, drift>>
            BY <1>1 DEF Click, world, store
        <2> QED
            BY <2>2, <2>5, <2>6, <2>7 DEF RowInv, Right, About, Ticked, Ids, Enabled
    <1>2. CASE phase' # "dispatch"
        BY <1>2 DEF RowInv
    <1>3. CASE /\ UNCHANGED <<phase, choice, store, available>>
               /\ UNCHANGED <<registry, drift>> \/ drift' = Both
        <2>1. UNCHANGED <<phase, row, action, layouts, minimizeOthers, available>>
            BY <1>3 DEF choice, store
        <2> QED
            BY <1>3, <2>1 DEF RowInv, Right, About, Ticked, Ids, Enabled, Both
    <1> QED
        BY <1>1, <1>2, <1>3, MenuSteps DEF ShowMenu

\* What actionToggleAutostart has found lasts until it deletes or sets.
LEMMA CheckStep ==
    ASSUME TypeInv, RowInv, CheckInv, [Next]_vars
    PROVE  CheckInv'
    <1> DEFINE Between == {"disable", "enable"}
               Kept    == /\ UNCHANGED <<phase, choice>>
                          /\ UNCHANGED <<registry, drift>> \/ drift' = Both
    <1>1. CASE CheckAutostart
        <2>1. action.type = "autostart" /\ phase = "dispatch"
            BY <1>1 DEF CheckAutostart, Dispatch
        <2>2. available /\ ("menu" \in drift \/ row.checked = (available /\ Enabled(registry)))
            BY <2>1, Dispatched
        <2>3. /\ UNCHANGED <<registry, action, row>>
              /\ "check" \notin drift' /\ ("menu" \in drift' <=> "menu" \in drift)
              /\ phase' = IF Enabled(registry) THEN "disable" ELSE "enable"
            BY <1>1 DEF CheckAutostart, choice
        <2>4. Enabled(registry) \in BOOLEAN
            BY DEF Enabled
        <2>5. "menu" \in drift \/ row.checked = Enabled(registry)
            BY <2>2, <2>4
        <2> QED
            BY <2>1, <2>3, <2>5 DEF CheckInv, Enabled
    <1>2. CASE phase' \notin Between
        BY <1>2 DEF CheckInv
    <1>3. CASE Kept
        <2>1. UNCHANGED <<phase, action, row>>
            BY <1>3 DEF choice
        <2> QED
            BY <1>3, <2>1 DEF CheckInv, Enabled, Both
    <1>4. CASE UNCHANGED vars
        BY <1>3, <1>4 DEF vars, world
    <1>5. CASE ShowMenu \/ ShowFails \/ Dismiss \/ Click
        BY <1>2, <1>5 DEF ShowMenu, ShowFails, Dismiss, Click
    <1>6. CASE SyncAfter
        BY <1>2, <1>6 DEF SyncAfter, TypeInv
    <1>7. CASE Handler
        <2>1. CheckAutostart \/ phase' \notin Between
            BY <1>7 DEF Handler, NothingChanges, ActionOverwrite, ActionRename, ActionHotkey,
                    ActionDelete, ActionToggleInclude, ActionToggleMinimizeOthers, ActionSave,
                    CheckFails, DisableAutostart, EnableAutostart, ActionQuit, Change, Mutate,
                    Finish
        <2> QED
            BY <1>1, <1>2, <2>1
    <1>8. CASE DeliverDisplayChange \/ OtherApplication
        BY <1>3, <1>8 DEF DeliverDisplayChange, OtherApplication
    <1>9. ASSUME NEW ms \in Arrangements, ChangeDisplay(ms) PROVE Kept
        BY <1>9 DEF ChangeDisplay
    <1>10. ASSUME NEW r \in Entries, ChangeRegistry(r) PROVE Kept
        BY <1>10 DEF ChangeRegistry, Both
    <1> QED
        BY <1>3, <1>4, <1>5, <1>6, <1>7, <1>8, <1>9, <1>10 DEF Next

LEMMA SyncStep ==
    ASSUME TypeInv, SyncInv, [Next]_vars
    PROVE  SyncInv'
    <1> DEFINE Of(ls, f, regs, un) ==
                   \E lost \in SUBSET Active(ls, f) :
                       /\ regs = {<<ls[i].id, Parse[ls[i].hotkey]>> : i \in Active(ls, f) \ lost}
                       /\ un = {ls[i].id : i \in lost}
    <1>1. SyncInv' = (phase' # "sync" /\ synced' # Unknown =>
                         Of(layouts', synced', registered', unavailable'))
        BY DEF SyncInv, Active, Bound
    <1>2. SyncInv = (phase # "sync" /\ synced # Unknown =>
                         Of(layouts, synced, registered, unavailable))
        BY DEF SyncInv
    <1>3. ASSUME NEW r, NEW refused, Sync(r, refused), UNCHANGED store, r # Unknown
          PROVE  Of(layouts', synced', registered', unavailable')
        <2> DEFINE wanted == Active(layouts, FingerprintOf(r))
                   lost   == {i \in wanted : \/ Parse[layouts[i].hotkey] \in foreign
                                             \/ layouts[i].id \in refused}
        <2>1. /\ synced' = FingerprintOf(r) /\ layouts' = layouts
              /\ registered' = {<<layouts[i].id, Parse[layouts[i].hotkey]>> : i \in wanted \ lost}
              /\ unavailable' = {layouts[i].id : i \in lost}
            BY <1>3 DEF Sync, store
        <2>2. lost \in SUBSET wanted
            OBVIOUS
        <2> HIDE DEF lost
        <2> QED
            BY <2>1, <2>2
    <1> HIDE DEF Of
    <1>4. CASE phase' = "sync"
        BY <1>1, <1>4
    <1>5. CASE SyncHotkeys /\ UNCHANGED store
        <2>1. PICK r, refused : Sync(r, refused)
            BY <1>5 DEF SyncHotkeys
        <2>2. CASE r = Unknown
            BY <1>1, <2>1, <2>2 DEF Sync
        <2> QED
            BY <1>1, <1>3, <1>5, <2>1, <2>2
    <1>6. CASE phase # "sync" /\ UNCHANGED <<store, manager>>
        BY <1>1, <1>2, <1>6, <1>4 DEF store, manager
    <1> QED
        BY <1>4, <1>5, <1>6, SyncSteps

(***************************************************************************)
(* The invariant of the menu.                                              *)
(***************************************************************************)
THEOREM MenuInvAlways == Spec => []MenuInv
    <1>1. Init => MenuInv
        <2> SUFFICES ASSUME Init PROVE MenuInv
            OBVIOUS
        <2>1. phase = "sync"
            BY DEF Init
        <2> QED
            BY <2>1, TypeInit DEF MenuInv, ReadInv, ShownInv, RowInv, CheckInv, SyncInv
    <1>2. MenuInv /\ [Next]_vars => MenuInv'
        <2> SUFFICES ASSUME MenuInv, [Next]_vars PROVE MenuInv'
            OBVIOUS
        <2>1. TypeInv /\ ReadInv /\ ShownInv /\ RowInv /\ CheckInv /\ SyncInv
            BY DEF MenuInv
        <2> QED
            BY <2>1, TypeStep, ReadStep, ShownStep, RowStep, CheckStep, SyncStep DEF MenuInv
    <1> QED
        BY <1>1, <1>2, PTL DEF Spec

-----------------------------------------------------------------------------
(***************************************************************************)
(* A click does what its row says, and what it is about is in the store.   *)
(***************************************************************************)
THEOREM RowsActAlways == Spec => []RowsAct
    <1>1. MenuInv => RowsAct
        <2> SUFFICES ASSUME MenuInv, phase = "dispatch"
                     PROVE  /\ action = row.action
                            /\ "id" \in DOMAIN action => action.id \in Ids(layouts)
                            /\ action.type = "toggleInclude" =>
                                  layouts[At(action.id)].windows[action.idx].exe = row.label[1]
            BY DEF RowsAct
        <2>1. /\ action = row.action
              /\ action.type \in OnLayout => action.id \in Ids(layouts)
              /\ "id" \in DOMAIN action => action.id \in Ids(layouts)
              /\ action.type = "toggleInclude" => Ticked(row, layouts)
            BY Dispatched DEF MenuInv
        <2>2. ASSUME action.type = "toggleInclude"
              PROVE  layouts[At(action.id)].windows[action.idx].exe = row.label[1]
            <3>1. PICK i \in DOMAIN layouts :
                     /\ layouts[i].id = action.id
                     /\ layouts[i].windows[action.idx].exe = row.label[1]
                BY <2>1, <2>2 DEF Ticked
            <3>2. action.id \in Ids(layouts) /\ WellFormed(layouts)
                BY <2>1, <2>2 DEF OnLayout, MenuInv, TypeInv
            <3>3. i = At(action.id)
                BY <3>1, <3>2, AtIs
            <3> QED
                BY <3>1, <3>3
        <2> QED
            BY <2>1, <2>2
    <1> QED
        BY <1>1, MenuInvAlways, PTL

(***************************************************************************)
(* The menu files every layout by the monitors it was saved with.          *)
(***************************************************************************)
THEOREM FiledAlways == Spec => []Filed
    <1>1. MenuInv => Filed
        <2> SUFFICES ASSUME MenuInv, phase = "menu", NEW i \in DOMAIN layouts
                     PROVE  LET items == BuildMenu(shown)
                                l     == layouts[i]
                            IN  /\ (l.id \in Listed(items)) = Same(l.monitors, shown.mons)
                                /\ (l.id \in Submenus(items)) = ~Same(l.monitors, shown.mons)
            BY DEF Filed
        <2> DEFINE l == layouts[i]
                   f == FingerprintOf(shown.mons)
        <2>1. shown.layouts = layouts /\ shown.mons \in Seq(Monitor) /\ WellFormed(layouts)
            BY DEF MenuInv, TypeInv, ShownInv, ReadInv
        <2>2. layouts \in Seq(Layout) /\ l \in Layout
            BY <2>1, LayoutsAre
        <2>3. /\ Listed(BuildMenu(shown)) = IdsOf(shown, TRUE)
              /\ Submenus(BuildMenu(shown)) = IdsOf(shown, FALSE)
            BY <2>1, <2>2, ListedAre
        <2>4. \A k \in DOMAIN layouts : layouts[k].id = l.id => k = i
            BY <2>1 DEF WellFormed
        <2>5. /\ l.id \in IdsOf(shown, TRUE) <=> l.setup = f
              /\ l.id \in IdsOf(shown, FALSE) <=> l.setup # f
            BY <2>1, <2>4 DEF IdsOf, IsOfSetup
        <2>6. l.setup = f <=> Same(l.monitors, shown.mons)
            <3>1. l.setup = FingerprintOf(l.monitors)
                BY <2>1 DEF WellFormed
            <3>2. l.monitors \in Seq(Monitor)
                BY <2>2 DEF Layout
            <3> QED
                BY <2>1, <3>1, <3>2, FingerprintIdentifies
        <2>7. Same(l.monitors, shown.mons) \in BOOLEAN
            BY DEF Same
        <2> HIDE DEF l, f
        <2>8. /\ (l.id \in Listed(BuildMenu(shown))) = Same(l.monitors, shown.mons)
              /\ (l.id \in Submenus(BuildMenu(shown))) = ~Same(l.monitors, shown.mons)
            <3> DEFINE same  == Same(l.monitors, shown.mons)
                       here  == l.id \in Listed(BuildMenu(shown))
                       there == l.id \in Submenus(BuildMenu(shown))
            <3>1. (here <=> same) /\ (there <=> ~same)
                BY <2>3, <2>5, <2>6
            <3>2. here \in BOOLEAN /\ there \in BOOLEAN /\ same \in BOOLEAN
                BY <2>7
            <3> HIDE DEF same, here, there
            <3>3. here = same /\ there = ~same
                BY <3>1, <3>2
            <3> QED
                BY <3>3 DEF same, here, there
        <2> QED
            BY <2>8 DEF l
    <1> QED
        BY <1>1, MenuInvAlways, PTL

-----------------------------------------------------------------------------
\* What an action is when it is over.
LEMMA HandlerActs ==
    ASSUME TypeInv, CheckInv, [Next]_vars, Acting, phase' = "sync"
    PROVE  /\ action.type \in {"toggleInclude", "minimizeOthers"} => phase = "dispatch"
           /\ action.type = "toggleInclude" =>
                 Mutate([layouts EXCEPT ![At(action.id)].windows[action.idx].include = ~@],
                        minimizeOthers, "reopen")
           /\ action.type = "minimizeOthers" => Mutate(layouts, ~minimizeOthers, "reopen")
           /\ \/ registry' = registry
              \/ phase = "disable" /\ registry' = Disable(registry)
              \/ phase = "enable" /\ registry' \in {Enable(registry)} \cup AfterFailure(registry)
    <1> USE DEF Acting
    <1>1. Handler
        <2>1. ~UNCHANGED vars
            BY DEF vars
        <2>2. ~(ShowMenu \/ ShowFails \/ Dismiss \/ Click \/ SyncAfter)
            BY DEF ShowMenu, ShowFails, Dismiss, Click, SyncAfter
        <2>3. ~(DeliverDisplayChange \/ OtherApplication)
            BY DEF DeliverDisplayChange, OtherApplication
        <2>4. \A ms : ~ChangeDisplay(ms)
            BY DEF ChangeDisplay
        <2>5. \A r : ~ChangeRegistry(r)
            BY DEF ChangeRegistry
        <2> QED
            BY <2>1, <2>2, <2>3, <2>4, <2>5 DEF Next
    <1>2. CASE NothingChanges
        BY <1>2 DEF NothingChanges
    <1>3. CASE ActionQuit
        BY <1>3 DEF ActionQuit
    <1>4. CASE CheckAutostart \/ CheckFails
        BY <1>4 DEF CheckAutostart, CheckFails, Dispatch
    <1>8. CASE DisableAutostart \/ EnableAutostart
        BY <1>8 DEF DisableAutostart, EnableAutostart, CheckInv
    <1>5. CASE ActionToggleMinimizeOthers
        BY <1>5 DEF ActionToggleMinimizeOthers, Dispatch, Mutate
    <1>6. CASE ActionToggleInclude
        BY <1>6 DEF ActionToggleInclude, Dispatch, Mutate
    <1>7. CASE \/ ActionOverwrite \/ ActionDelete
               \/ \E name \in Names : ActionRename(name) \/ \E id \in LayoutId : ActionSave(id, name)
               \/ \E hk \in Combo \cup {Zero} : ActionHotkey(hk)
        <2>1. action.type \in {"overwrite", "delete", "rename", "save", "hotkey"}
            BY <1>7 DEF ActionOverwrite, ActionDelete, ActionRename, ActionSave, ActionHotkey,
                        Dispatch
        <2>2. registry' = registry
            BY <1>7 DEF ActionOverwrite, ActionDelete, ActionRename, ActionSave, ActionHotkey,
                        Change, Mutate
        <2> QED
            BY <2>1, <2>2
    <1> QED
        BY <1>1, <1>2, <1>3, <1>4, <1>5, <1>6, <1>7, <1>8 DEF Handler

LEMMA EditSucceeds ==
    ASSUME TypeInv, NEW ls, NEW option, NEW next, Mutate(ls, option, next),
           left'.edits # left.edits
    PROVE  layouts' = ls /\ minimizeOthers' = option
    <1>1. Fault => left'["edits"] = left["edits"]
        BY UsesType DEF Fault, TypeInv
    <1> QED
        BY <1>1 DEF Mutate

(***************************************************************************)
(* A box does the opposite of what it shows, and no entry of another       *)
(* program is deleted but one written since the check.                     *)
(***************************************************************************)
THEOREM TicksAreTrueAlways == Spec => TicksAreTrue
    <1> DEFINE Step ==
            Acting /\ phase' = "sync" =>
                /\ action.type = "toggleInclude" /\ left'.edits # left.edits =>
                      layouts' = [layouts EXCEPT
                          ![At(action.id)].windows[action.idx].include = ~row.checked]
                /\ action.type = "minimizeOthers" /\ left'.edits # left.edits =>
                      minimizeOthers' = ~row.checked
                /\ registry' # registry /\ "menu" \notin drift /\ registry'.at # "value" =>
                      ~row.checked /\ Enabled(registry')
                /\ registry.at = "entry" /\ registry'.at # "entry" =>
                      /\ "menu" \in drift \/ row.checked
                      /\ "check" \in drift \/ registry.path = Exe
    <1>1. MenuInv /\ [Next]_vars => Step
        <2> SUFFICES ASSUME MenuInv, [Next]_vars, Acting, phase' = "sync" PROVE Step
            OBVIOUS
        <2>1. TypeInv /\ RowInv /\ CheckInv
            BY DEF MenuInv
        <2>2. ASSUME action.type = "toggleInclude", left'.edits # left.edits
              PROVE  layouts' = [layouts EXCEPT
                          ![At(action.id)].windows[action.idx].include = ~row.checked]
            <3> DEFINE at == At(action.id)
                       k  == action.idx
            <3>1. Ticked(row, layouts) /\ action = row.action /\ action.id \in Ids(layouts)
                BY <2>1, <2>2, Dispatched, HandlerActs DEF OnLayout
            <3>2. PICK i \in DOMAIN layouts :
                     layouts[i].id = action.id /\ layouts[i].windows[k].include = row.checked
                BY <3>1 DEF Ticked
            <3>3. i = at
                BY <2>1, <3>1, <3>2, AtIs DEF TypeInv
            <3>4. layouts' = [layouts EXCEPT ![at].windows[k].include = ~@]
                BY <2>1, <2>2, HandlerActs, EditSucceeds
            <3> HIDE DEF at, k
            <3>5. layouts[at].windows[k].include = row.checked
                BY <3>2, <3>3
            <3>6. layouts' = [layouts EXCEPT ![at].windows[k].include = ~row.checked]
                BY <3>4, <3>5
            <3> QED
                BY <3>6 DEF at, k
        <2>3. ASSUME action.type = "minimizeOthers", left'.edits # left.edits
              PROVE  minimizeOthers' = ~row.checked
            BY <2>1, <2>3, HandlerActs, EditSucceeds, Dispatched
        <2>4. ASSUME registry' # registry, phase = "disable"
              PROVE  registry' = NoValue
            BY <2>1, <2>4, HandlerActs DEF Disable
        <2>5. ASSUME registry' # registry, phase # "disable"
              PROVE  /\ phase = "enable"
                     /\ \/ registry' = Enable(registry)
                        \/ registry = NoKey /\ registry' = NoValue
            BY <2>1, <2>5, HandlerActs DEF AfterFailure
        <2>6. /\ Enable(registry).at = "entry" /\ Enabled(Enable(registry))
              /\ NoValue.at = "value" /\ NoKey.at = "key"
            BY DEF Enable, Enabled, Entry, NoValue, NoKey
        <2>7. ASSUME phase \in {"disable", "enable"}
              PROVE  /\ "check" \in drift => "menu" \in drift
                     /\ "menu" \in drift \/ row.checked = Enabled(registry)
                     /\ "check" \in drift \/ (phase = "disable" <=> Enabled(registry))
            BY <2>1, <2>7 DEF CheckInv
        <2>8. ASSUME registry' # registry, "menu" \notin drift, registry'.at # "value"
              PROVE  ~row.checked /\ Enabled(registry')
            <3>1. phase = "enable" /\ registry' = Enable(registry)
                BY <2>4, <2>5, <2>6, <2>8
            <3>2. row.checked = Enabled(registry) /\ ~Enabled(registry)
                BY <2>7, <2>8, <3>1
            <3> QED
                BY <2>6, <3>1, <3>2 DEF Enabled
        <2>9. ASSUME registry.at = "entry", registry'.at # "entry"
              PROVE  /\ "menu" \in drift \/ row.checked
                     /\ "check" \in drift \/ registry.path = Exe
            <3>1. phase = "disable"
                BY <2>5, <2>6, <2>9
            <3>2. "check" \in drift \/ Enabled(registry)
                BY <2>7, <3>1
            <3>3. "menu" \in drift \/ row.checked = TRUE
                BY <2>7, <3>1, <3>2 DEF Enabled
            <3> QED
                BY <3>2, <3>3 DEF Enabled
        <2> QED
            BY <2>2, <2>3, <2>8, <2>9
    <1>2. MenuInv /\ [Next]_vars => [Step]_vars
        BY <1>1
    <1>3. TicksAreTrue <=> [][Step]_vars
        BY DEF TicksAreTrue
    <1> QED
        BY <1>2, <1>3, MenuInvAlways, PTL DEF Spec

-----------------------------------------------------------------------------
\* The column of a menu for the setup of the last sync.
LEMMA ColumnIsLive ==
    ASSUME WellFormed(layouts), SyncInv, phase # "sync", synced # Unknown,
           NEW in, in.layouts = layouts, in.unavailable = unavailable,
           FingerprintOf(in.mons) = synced
    PROVE  LET column == InColumn(BuildMenu(in))
           IN  /\ \A r \in registered : <<r[1], r[2], FALSE>> \in column
               /\ \A c \in column :
                     c[3] \/ \E d \in column :
                         d[2] = c[2] /\ (d[3] \/ <<d[1], d[2]>> \in registered)
    <1> DEFINE column == InColumn(BuildMenu(in))
               active == Active(layouts, synced)
               D      == DOMAIN layouts
               B(k)     == Bound(layouts, synced, k)
               KeyOf(k) == Parse[layouts[k].hotkey]
               Id(k)    == layouts[k].id
               Mark(k)  == Taken(in, k)
    <1>1. PICK lost \in SUBSET active :
             /\ registered = {<<Id(i), KeyOf(i)>> : i \in active \ lost}
             /\ unavailable = {Id(i) : i \in lost}
        BY DEF SyncInv
    <1>2. /\ layouts \in Seq(Layout) /\ Len(layouts) \in Nat /\ D = 1 .. Len(layouts)
          /\ \A i, j \in D : Id(i) = Id(j) => i = j
        BY LayoutsAre DEF WellFormed
    <1>3. column = {<<Id(k), KeyOf(k), Mark(k)>> : k \in {j \in D : B(j)}}
        <2>1. column = {<<Id(k), HotkeyOf(layouts[k]), Mark(k)>> :
                           k \in {j \in D : IsOfSetup(in, j, TRUE) /\ HotkeyOf(layouts[j]) # Zero}}
            <3> DEFINE L == in.layouts
            <3>1. column = {<<L[k].id, HotkeyOf(L[k]), Mark(k)>> :
                               k \in {j \in DOMAIN L : IsOfSetup(in, j, TRUE) /\ HotkeyOf(L[j]) # Zero}}
                BY <1>2, ColumnIs
            <3>2. L = layouts
                OBVIOUS
            <3> HIDE DEF column, Mark, L
            <3> QED
                BY <3>1, <3>2
        <2>2. \A k \in D : B(k) <=> IsOfSetup(in, k, TRUE) /\ HotkeyOf(layouts[k]) # Zero
            BY HotkeyTextAssumption DEF Bound, IsOfSetup, HotkeyOf
        <2>3. \A k \in D : B(k) => HotkeyOf(layouts[k]) = KeyOf(k)
            BY DEF Bound, HotkeyOf
        <2> HIDE DEF column, B, KeyOf, Id, Mark, D
        <2> QED
            BY <2>1, <2>2, <2>3
    <1>4. active = {i \in D : B(i) /\ \A j \in 1 .. i - 1 : B(j) => KeyOf(j) # KeyOf(i)}
        BY DEF Active
    <1>5. \A k \in D : Mark(k) <=> \E i \in lost : Id(i) = Id(k)
        BY <1>1 DEF Taken
    <1> HIDE DEF column, active, B, KeyOf, Id, Mark, D
    <1>6. ASSUME NEW r \in registered PROVE <<r[1], r[2], FALSE>> \in column
        <2>1. PICK i \in active \ lost : r = <<Id(i), KeyOf(i)>>
            BY <1>1
        <2>2. i \in D /\ B(i)
            BY <1>4, <2>1
        <2>3. ~Mark(i)
            BY <1>1, <1>2, <1>4, <1>5, <2>1, <2>2
        <2>4. Mark(i) = FALSE
            BY <2>3 DEF Mark, Taken
        <2>5. <<Id(i), KeyOf(i), Mark(i)>> \in column
            BY <1>3, <2>2
        <2> QED
            BY <2>1, <2>4, <2>5
    <1>7. ASSUME NEW c \in column
          PROVE  c[3] \/ \E d \in column :
                     d[2] = c[2] /\ (d[3] \/ <<d[1], d[2]>> \in registered)
        <2>1. PICK k \in D : B(k) /\ c = <<Id(k), KeyOf(k), Mark(k)>>
            BY <1>3
        <2> DEFINE Also == {j \in D : B(j) /\ KeyOf(j) = KeyOf(k)}
        <2>2. PICK i \in Also : \A j \in Also : i <= j
            <3>1. Also \subseteq Nat /\ k \in Also
                BY <1>2, <2>1
            <3> HIDE DEF Also
            <3> QED
                BY <3>1, LeastMember
        <2>3. i \in active
            BY <1>2, <1>4, <2>2
        <2> DEFINE d == <<Id(i), KeyOf(i), Mark(i)>>
        <2>4. d \in column /\ d[1] = Id(i) /\ d[2] = c[2] /\ d[3] = Mark(i)
            BY <1>3, <2>1, <2>2
        <2>5. CASE i \in lost
            BY <1>5, <2>4, <2>5
        <2>6. CASE i \notin lost
            <3>1. <<Id(i), KeyOf(i)>> \in registered
                BY <1>1, <2>3, <2>6
            <3>2. <<d[1], d[2]>> \in registered
                BY <3>1
            <3> HIDE DEF d
            <3> QED
                BY <2>4, <3>2
        <2> QED
            BY <2>5, <2>6
    <1> QED
        BY <1>6, <1>7 DEF column

(***************************************************************************)
(* The right column of a menu says which combinations are registered.      *)
(***************************************************************************)
THEOREM KeysAreLiveAlways == Spec => KeysAreLive
    <1> DEFINE Step ==
            phase' = "menu" /\ phase # "menu" /\ FingerprintOf(shown'.mons) = synced =>
                LET column == InColumn(BuildMenu(shown'))
                IN  /\ \A r \in registered : <<r[1], r[2], FALSE>> \in column
                    /\ \A c \in column :
                          c[3] \/ \E d \in column :
                              d[2] = c[2] /\ (d[3] \/ <<d[1], d[2]>> \in registered)
    <1>1. MenuInv /\ [Next]_vars => Step
        <2> SUFFICES ASSUME MenuInv, [Next]_vars, phase' = "menu", phase # "menu",
                            FingerprintOf(shown'.mons) = synced
                     PROVE  LET column == InColumn(BuildMenu(shown'))
                            IN  /\ \A r \in registered : <<r[1], r[2], FALSE>> \in column
                                /\ \A c \in column :
                                      c[3] \/ \E d \in column :
                                          d[2] = c[2] /\ (d[3] \/ <<d[1], d[2]>> \in registered)
            OBVIOUS
        <2>1. TypeInv /\ ReadInv /\ SyncInv /\ ReadInv'
            BY ReadStep DEF MenuInv
        <2>2. ShowMenu
            BY <2>1, MenuSteps DEF Click
        <2>3. /\ phase # "sync" /\ shown'.layouts = layouts
              /\ shown'.unavailable = unavailable
            BY <2>2 DEF ShowMenu, MenuInput
        <2>4. synced # Unknown
            <3>1. shown'.mons \in Seq(Monitor)
                BY <2>1 DEF ReadInv
            <3>2. FingerprintOf(shown'.mons) \in Setup
                BY <3>1, FingerprintType
            <3> QED
                BY <3>2, MenuAssumption
        <2>5. WellFormed(layouts)
            BY <2>1 DEF TypeInv
        <2> QED
            BY <2>1, <2>3, <2>4, <2>5, ColumnIsLive
    <1>2. MenuInv /\ [Next]_vars => [Step]_vars
        BY <1>1
    <1>3. KeysAreLive <=> [][Step]_vars
        BY DEF KeysAreLive
    <1> QED
        BY <1>2, <1>3, MenuInvAlways, PTL DEF Spec
=============================================================================
