---------------------------- MODULE RestoreProofs ----------------------------
(***************************************************************************)
(* What a restore does, for integers of every width, any number of windows *)
(* and monitors, layouts of every length, and any number of events.        *)
(***************************************************************************)
EXTENDS Restore, NaturalsInduction, WellFoundedInduction, SequenceTheorems, TLAPS

(***************************************************************************)
(* A nonempty set of numbers has a least member: the form of induction the *)
(* provers can use.                                                        *)
(***************************************************************************)
Smaller == {p \in Nat \X Nat : p[1] < p[2]}

LEMMA SmallerIsWellFounded == IsWellFoundedOn(Smaller, Nat)
    BY NatLessThanWellFounded DEF OpToRel, Smaller

LEMMA LeastMember ==
    ASSUME NEW T, T \subseteq Nat, T # {}
    PROVE  \E n \in T : \A m \in T : n <= m
    <1>1. PICK n \in T : \A m \in T : ~(<<m, n>> \in Smaller)
        BY SmallerIsWellFounded, WFMin
    <1>2. ASSUME NEW m \in T PROVE n <= m
        <2>1. <<m, n>> \in Nat \X Nat /\ <<m, n>>[1] = m /\ <<m, n>>[2] = n
            OBVIOUS
        <2>2. ~(m < n)
            BY <1>1, <2>1 DEF Smaller
        <2> QED
            BY <2>2
    <1> QED
        BY <1>2

(***************************************************************************)
(* The loop that collects: it exists for every number of iterations, ...   *)
(***************************************************************************)
Iterates(f, s, positions, n) ==
    f = [k \in 0 .. n |-> IF k = 0 THEN <<>>
                         ELSE IF k \in positions THEN Append(f[k - 1], s[k])
                         ELSE f[k - 1]]

LEMMA CollectsUpTo ==
    ASSUME NEW s, NEW positions, NEW n \in Nat
    PROVE  \E f : Iterates(f, s, positions, n)
    <1> DEFINE Step(f, k)  == IF k = 0 THEN <<>>
                              ELSE IF k \in positions THEN Append(f[k - 1], s[k])
                              ELSE f[k - 1]
               Fcn(f, m)   == f = [k \in 0 .. m |-> Step(f, k)]
               Wrong       == {m \in Nat : ~\E f : Fcn(f, m)}
    <1>1. ASSUME Wrong # {} PROVE FALSE
        <2>1. PICK m \in Wrong : \A j \in Wrong : m <= j
            <3>1. Wrong \subseteq Nat
                OBVIOUS
            <3> HIDE DEF Wrong
            <3> QED
                BY <1>1, <3>1, LeastMember
        <2>2. CASE m = 0
            <3> DEFINE f == [k \in 0 .. 0 |-> <<>>]
            <3>1. \A k \in 0 .. 0 : k = 0
                OBVIOUS
            <3>2. [k \in 0 .. 0 |-> <<>>] = [k \in 0 .. 0 |-> Step(f, k)]
                BY <3>1
            <3>3. Fcn(f, m)
                BY <2>2, <3>2
            <3> QED
                BY <2>1, <3>3
        <2>3. CASE m # 0
            <3>1. m \in Nat /\ m - 1 \in Nat /\ ~(m <= m - 1)
                BY <2>1, <2>3
            <3>2. PICK f : Fcn(f, m - 1)
                BY <2>1, <3>1
            <3> DEFINE g == [k \in 0 .. m |-> IF k = m THEN Step(f, m) ELSE f[k]]
            <3>3. ASSUME NEW k \in 0 .. m PROVE g[k] = Step(g, k)
                <4>1. k # 0 => k - 1 \in 0 .. m /\ k - 1 # m
                    BY <3>1
                <4>2. k # 0 => g[k - 1] = f[k - 1]
                    BY <4>1
                <4>3. Step(g, k) = Step(f, k)
                    BY <4>2
                <4>4. CASE k = m
                    BY <4>3, <4>4
                <4>5. CASE k # m
                    <5>1. k \in 0 .. m - 1
                        BY <3>1, <4>5
                    <5>2. f[k] = Step(f, k)
                        BY <3>2, <5>1
                    <5> QED
                        BY <4>3, <4>5, <5>2
                <4> QED
                    BY <4>4, <4>5
            <3>4. g = [k \in 0 .. m |-> g[k]]
                OBVIOUS
            <3> HIDE DEF g
            <3>5. Fcn(g, m)
                BY <3>3, <3>4
            <3> QED
                BY <2>1, <3>5
        <2> QED
            BY <2>2, <2>3
    <1>2. \E f : Fcn(f, n)
        BY <1>1
    <1> QED
        BY <1>2 DEF Iterates

(***************************************************************************)
(* ... and returns the members at the given positions, and no others.      *)
(***************************************************************************)
LEMMA Collected ==
    ASSUME NEW S, NEW s \in Seq(S), NEW positions \in SUBSET DOMAIN s
    PROVE  /\ Collect(s, positions) \in Seq(S)
           /\ \A j \in DOMAIN Collect(s, positions) :
                 \E k \in positions : Collect(s, positions)[j] = s[k]
           /\ \A k \in positions :
                 \E j \in DOMAIN Collect(s, positions) : Collect(s, positions)[j] = s[k]
    <1> DEFINE Step(f, k)  == IF k = 0 THEN <<>>
                              ELSE IF k \in positions THEN Append(f[k - 1], s[k])
                              ELSE f[k - 1]
               Fcn(f)      == f = [k \in 0 .. Len(s) |-> Step(f, k)]
               upto        == CHOOSE f : Fcn(f)
               Right(k)    == /\ upto[k] \in Seq(S)
                              /\ \A j \in 1 .. Len(upto[k]) :
                                    \E p \in positions : upto[k][j] = s[p]
                              /\ \A p \in positions : p <= k =>
                                    \E j \in 1 .. Len(upto[k]) : upto[k][j] = s[p]
               Wrong       == {k \in 0 .. Len(s) : ~Right(k)}
    <1>1. Fcn(upto)
        <2>1. Len(s) \in Nat
            OBVIOUS
        <2>2. \E f : Iterates(f, s, positions, Len(s))
            BY <2>1, CollectsUpTo
        <2>3. \E f : Fcn(f)
            BY <2>2 DEF Iterates
        <2> HIDE DEF Fcn
        <2> QED
            BY <2>3
    <1>2. \A k \in 0 .. Len(s) : upto[k] = Step(upto, k)
        BY <1>1
    <1> HIDE DEF upto
    <1>3. ASSUME Wrong # {} PROVE FALSE
        <2>1. PICK k \in Wrong : \A j \in Wrong : k <= j
            <3>1. Wrong \subseteq Nat
                OBVIOUS
            <3> HIDE DEF Wrong
            <3> QED
                BY <1>3, <3>1, LeastMember
        <2>2. positions \subseteq 1 .. Len(s)
            OBVIOUS
        <2>3. CASE k = 0
            <3>1. upto[k] = <<>>
                BY <1>2, <2>1, <2>3
            <3>2. \A p \in positions : ~(p <= k)
                BY <2>2, <2>3
            <3>3. upto[k] \in Seq(S) /\ 1 .. Len(upto[k]) = {}
                BY <3>1
            <3> QED
                BY <2>1, <3>2, <3>3
        <2>4. CASE k # 0
            <3>1. k \in 1 .. Len(s) /\ k - 1 \in 0 .. Len(s) /\ ~(k <= k - 1)
                BY <2>1, <2>4
            <3>2. Right(k - 1)
                BY <2>1, <3>1
            <3> DEFINE old == upto[k - 1]
            <3>3. old \in Seq(S) /\ s[k] \in S
                BY <3>1, <3>2
            <3>4. CASE k \in positions
                <4>1. upto[k] = Append(old, s[k])
                    BY <1>2, <2>4, <3>1, <3>4
                <4> HIDE DEF old
                <4>2. /\ upto[k] \in Seq(S) /\ Len(upto[k]) = Len(old) + 1
                      /\ \A j \in 1 .. Len(old) : upto[k][j] = old[j]
                      /\ upto[k][Len(old) + 1] = s[k]
                      /\ Len(old) \in Nat
                    BY <3>3, <4>1
                <4>3. \A j \in 1 .. Len(upto[k]) : \E p \in positions : upto[k][j] = s[p]
                    BY <3>2, <3>4, <4>2 DEF old
                <4>4. ASSUME NEW p \in positions, p <= k
                      PROVE  \E j \in 1 .. Len(upto[k]) : upto[k][j] = s[p]
                    <5>1. CASE p = k
                        BY <4>2, <5>1
                    <5>2. CASE p # k
                        <6>1. p <= k - 1
                            BY <2>2, <3>1, <4>4, <5>2
                        <6>2. PICK j \in 1 .. Len(old) : old[j] = s[p]
                            BY <3>2, <6>1 DEF old
                        <6> QED
                            BY <4>2, <6>2
                    <5> QED
                        BY <5>1, <5>2
                <4> QED
                    BY <2>1, <4>2, <4>3, <4>4
            <3>5. CASE k \notin positions
                <4>1. upto[k] = old
                    BY <1>2, <2>4, <3>1, <3>5
                <4>2. \A p \in positions : p <= k => p <= k - 1
                    BY <2>2, <3>1, <3>5
                <4>3. /\ old \in Seq(S)
                      /\ \A j \in 1 .. Len(old) : \E p \in positions : old[j] = s[p]
                      /\ \A p \in positions : p <= k - 1 => \E j \in 1 .. Len(old) : old[j] = s[p]
                    BY <3>2
                <4> HIDE DEF old
                <4>4. Right(k)
                    BY <4>1, <4>2, <4>3
                <4> QED
                    BY <2>1, <4>4
            <3> QED
                BY <3>4, <3>5
        <2> QED
            BY <2>3, <2>4
    <1>4. Right(Len(s))
        BY <1>3
    <1>5. Collect(s, positions) = upto[Len(s)]
        BY DEF Collect, upto
    <1>6. \A k \in positions : k <= Len(s)
        OBVIOUS
    <1> HIDE DEF Wrong
    <1> DEFINE all == upto[Len(s)]
    <1>7. DOMAIN all = 1 .. Len(all)
        BY <1>4
    <1>8. /\ all \in Seq(S)
          /\ \A j \in DOMAIN all : \E k \in positions : all[j] = s[k]
          /\ \A k \in positions : \E j \in DOMAIN all : all[j] = s[k]
        BY <1>4, <1>6, <1>7
    <1> QED
        BY <1>5, <1>8

-----------------------------------------------------------------------------
(***************************************************************************)
(* Integers that wrap: they keep what is in range, and never grow unless   *)
(* they were below it.                                                     *)
(***************************************************************************)
LEMMA WrapIsInteger == \A n \in Int : Wrap(n) \in Integer
    <1>1. \A a \in Int, b \in Nat \ {0} : a % b \in 0 .. b - 1
        OBVIOUS
    <1> QED
        BY <1>1, ClampAssumption DEF Wrap, Integer

LEMMA WrapKeeps == \A n \in Integer : Wrap(n) = n
    <1>1. \A b \in Nat \ {0} : \A a \in 0 .. b - 1 : a % b = a
        OBVIOUS
    <1> QED
        BY <1>1, ClampAssumption DEF Wrap, Integer

LEMMA WrapBelow == \A n \in Int : n >= -Limit => Wrap(n) <= n
    <1>1. \A b \in Nat \ {0}, a \in Nat : a % b <= a
        OBVIOUS
    <1> QED
        BY <1>1, ClampAssumption DEF Wrap

LEMMA Integers == (\A n \in Integer : n \in Int) /\ 0 \in Integer
    BY ClampAssumption DEF Integer

-----------------------------------------------------------------------------
(***************************************************************************)
(* Clamp.                                                                  *)
(***************************************************************************)
LEMMA HalfIsInt == \A n \in Int : Half(n) \in Int
    BY DEF Half

LEMMA DistanceIsNat == \A r \in Rect, m \in Monitor : Distance(r, m) \in Nat
    <1>1. \A d \in Int : d * d \in Nat
        OBVIOUS
    <1>2. ASSUME NEW r \in Rect, NEW m \in Monitor
          PROVE  /\ Wrap(Wrap(r.x + Half(r.w)) - Wrap(m.x + Half(m.w))) \in Int
                 /\ Wrap(Wrap(r.y + Half(r.h)) - Wrap(m.y + Half(m.h))) \in Int
        <2>1. /\ r.x \in Int /\ r.y \in Int /\ r.w \in Int /\ r.h \in Int
              /\ m.x \in Int /\ m.y \in Int /\ m.w \in Int /\ m.h \in Int
            BY Integers DEF Rect, Monitor
        <2>2. \A a \in Int, b \in Int : a + Half(b) \in Int /\ a - b \in Int
            BY HalfIsInt
        <2>3. \A n \in Int : Wrap(n) \in Int
            BY WrapIsInteger, Integers
        <2> QED
            BY <2>1, <2>2, <2>3
    <1> QED
        BY <1>1, <1>2 DEF Distance

\* One of the monitors is the nearest.
LEMMA NearestIsThere ==
    ASSUME NEW r \in Rect, NEW ms \in Seq(Monitor), ms # <<>>
    PROVE  \E k \in DOMAIN ms : Nearest(r, ms) = ms[k]
    <1> DEFINE dist  == [k \in DOMAIN ms |-> Distance(r, ms[k])]
               Dists == {dist[k] : k \in DOMAIN ms}
    <1>1. \A k \in DOMAIN ms : dist[k] \in Nat
        BY DistanceIsNat
    <1>2. DOMAIN ms = 1 .. Len(ms) /\ Len(ms) \in Nat /\ DOMAIN ms # {}
        BY EmptySeq
    <1>3. \A k \in DOMAIN ms : dist[k] = Distance(r, ms[k])
        OBVIOUS
    <1> HIDE DEF dist
    <1>4. PICK d \in Dists : \A o \in Dists : d <= o
        <2>1. Dists \subseteq Nat /\ Dists # {}
            BY <1>1, <1>2
        <2> HIDE DEF Dists
        <2> QED
            BY <2>1, LeastMember
    <1> DEFINE Closest == {k \in DOMAIN ms : dist[k] = d}
    <1>5. PICK k \in Closest : \A o \in Closest : k <= o
        <2>1. Closest \subseteq Nat /\ Closest # {}
            BY <1>2, <1>4
        <2> HIDE DEF Closest
        <2> QED
            BY <2>1, LeastMember
    <1>6. ASSUME NEW l \in DOMAIN ms
          PROVE  \/ dist[k] < dist[l]
                 \/ dist[k] = dist[l] /\ k <= l
        <2>1. dist[k] = d /\ dist[l] \in Dists /\ dist[l] \in Nat /\ d \in Nat
            BY <1>1, <1>5
        <2>2. d <= dist[l]
            BY <1>4, <2>1
        <2>3. dist[l] = d => k <= l
            BY <1>5
        <2> QED
            BY <2>1, <2>2, <2>3
    <1>7. k \in DOMAIN ms /\ \A l \in DOMAIN ms :
              \/ Distance(r, ms[k]) < Distance(r, ms[l])
              \/ Distance(r, ms[k]) = Distance(r, ms[l]) /\ k <= l
        BY <1>3, <1>5, <1>6
    <1> HIDE DEF Closest, Dists
    <1> QED
        BY <1>7 DEF Nearest

LEMMA PlacementAreaOf ==
    ASSUME NEW m \in Monitor
    PROVE  /\ PlacementArea(m) \in Rect /\ Given(PlacementArea(m))
           /\ Inside(PlacementArea(m), m) /\ Fits(PlacementArea(m))
    <1>1. CASE Given(m.work)
        <2>1. PlacementArea(m) = m.work
            BY <1>1 DEF PlacementArea, Given
        <2>2. m.work \in Rect /\ Inside(m.work, m)
            BY <1>1 DEF Monitor
        <2>3. Fits(m.work)
            <3>1. \A a \in Int, n \in Nat, lo \in Integer, hi \in Integer :
                      a >= lo /\ a + n <= hi => a + n \in Integer
                BY ClampAssumption DEF Integer
            <3>2. /\ m.work.x \in Int /\ m.work.w \in Nat /\ m.x \in Integer
                  /\ m.work.y \in Int /\ m.work.h \in Nat /\ m.y \in Integer
                  /\ m.x + m.w \in Integer /\ m.y + m.h \in Integer
                <4>1. /\ m.work.x \in Integer /\ m.work.w \in Integer /\ m.work.w > 0
                      /\ m.work.y \in Integer /\ m.work.h \in Integer /\ m.work.h > 0
                    BY <1>1, <2>2 DEF Rect, Given
                <4>2. /\ m.x \in Integer /\ m.y \in Integer
                      /\ m.x + m.w \in Integer /\ m.y + m.h \in Integer
                    BY DEF Monitor, Fits
                <4> QED
                    BY <4>1, <4>2, Integers
            <3> QED
                BY <2>2, <3>1, <3>2 DEF Inside, Fits
        <2> QED
            BY <1>1, <2>1, <2>2, <2>3
    <1>2. CASE ~Given(m.work)
        <2>1. PlacementArea(m) = [x |-> m.x, y |-> m.y, w |-> m.w, h |-> m.h]
            BY <1>2 DEF PlacementArea, Given
        <2>2. /\ m.x \in Integer /\ m.y \in Integer /\ m.w \in Integer /\ m.h \in Integer
              /\ m.w > 0 /\ m.h > 0
              /\ m.x + m.w \in Integer /\ m.y + m.h \in Integer
            BY DEF Monitor, Given, Fits
        <2> DEFINE area == PlacementArea(m)
        <2>3. area.x = m.x /\ area.y = m.y /\ area.w = m.w /\ area.h = m.h
            BY <2>1
        <2>4. area \in Rect
            BY <2>1, <2>2 DEF Rect
        <2> HIDE DEF area
        <2>5. Given(area) /\ Fits(area)
            BY <2>2, <2>3 DEF Fits, Given
        <2>6. Inside(area, m)
            BY <2>2, <2>3, Integers DEF Inside
        <2> QED
            BY <2>4, <2>5, <2>6 DEF area
    <1> QED
        BY <1>1, <1>2

\* What is moved ends up inside.
LEMMA MovedInside ==
    ASSUME NEW r \in Rect, Given(r), NEW area \in Rect, Given(area), Fits(area)
    PROVE  /\ MoveInto(r, area) \in Rect
           /\ Inside(MoveInto(r, area), area)
           /\ Given(MoveInto(r, area))
    <1> DEFINE w == SmallerOf(r.w, area.w)
               h == SmallerOf(r.h, area.h)
    <1>1. /\ r.x \in Integer /\ r.y \in Integer /\ r.w \in Integer /\ r.h \in Integer
          /\ area.x \in Integer /\ area.y \in Integer /\ area.w \in Integer /\ area.h \in Integer
          /\ area.w > 0 /\ area.h > 0
          /\ area.x + area.w \in Integer /\ area.y + area.h \in Integer
        BY DEF Rect, Given, Fits
    <1>2. /\ w \in Integer /\ w <= area.w /\ h \in Integer /\ h <= area.h
          /\ w > 0 /\ h > 0
        <2>1. \A u, v \in Integer : u > 0 /\ v > 0 =>
                  SmallerOf(u, v) \in Integer /\ SmallerOf(u, v) <= v /\ SmallerOf(u, v) > 0
            BY Integers DEF SmallerOf
        <2>2. r.w > 0 /\ r.h > 0
            BY DEF Given
        <2> QED
            BY <1>1, <2>1, <2>2
    <1> HIDE DEF w, h
    <1>3. ASSUME NEW v \in Integer, NEW lo \in Integer, NEW e \in Integer, NEW n \in Integer,
                 lo + e \in Integer, n <= e, n > 0
          PROVE  LET to == Between(v, lo, Wrap(Wrap(lo + e) - n))
                 IN  to \in Integer /\ to >= lo /\ to + n <= lo + e
        <2>1. Wrap(lo + e) = lo + e
            BY <1>3, WrapKeeps
        <2>2. lo + e - n \in Integer /\ lo + e - n >= lo
            BY <1>3, ClampAssumption DEF Integer
        <2>3. Wrap(lo + e - n) = lo + e - n
            BY <2>2, WrapKeeps
        <2> QED
            BY <1>3, <2>1, <2>2, <2>3, Integers DEF Between
    <1>4. MoveInto(r, area) = [x |-> Between(r.x, area.x, Wrap(Wrap(area.x + area.w) - w)),
                               y |-> Between(r.y, area.y, Wrap(Wrap(area.y + area.h) - h)),
                               w |-> w, h |-> h]
        BY DEF MoveInto, w, h
    <1> QED
        BY <1>1, <1>2, <1>3, <1>4 DEF Rect, Inside, Given

LEMMA ClampedIsRect ==
    ASSUME NEW r \in Rect, Given(r), NEW ms \in Seq(Monitor)
    PROVE  Clamped(r, ms) \in Rect /\ Given(Clamped(r, ms))
    <1>1. CASE ms = <<>> \/ Visible(r, ms)
        BY <1>1 DEF Clamped
    <1>2. CASE ~(ms = <<>> \/ Visible(r, ms))
        <2>1. PICK k \in DOMAIN ms : Nearest(r, ms) = ms[k]
            BY <1>2, NearestIsThere
        <2>2. ms[k] \in Monitor
            OBVIOUS
        <2>3. Clamped(r, ms) = MoveInto(r, PlacementArea(ms[k]))
            BY <1>2, <2>1 DEF Clamped
        <2> QED
            BY <2>2, <2>3, PlacementAreaOf, MovedInside
    <1> QED
        BY <1>1, <1>2

\* A pixel is shared as soon as the edges say so.
LEMMA SharedPixel ==
    ASSUME NEW a \in Int, NEW n \in Int, n > 0, NEW b \in Int, NEW m \in Int, m > 0,
           a < b + m, a + n > b
    PROVE  \E x \in b .. b + m - 1 : x \in a .. a + n - 1
    <1>1. CASE a >= b
        BY <1>1
    <1>2. CASE a < b
        BY <1>2
    <1> QED
        BY <1>1, <1>2

LEMMA RectReached ==
    ASSUME NEW r \in Rect, Given(r), NEW ms, NEW k \in DOMAIN ms, ms[k] \in Monitor,
           r.x < ms[k].x + ms[k].w, r.x + r.w > ms[k].x,
           r.y < ms[k].y + ms[k].h, r.y + r.h > ms[k].y
    PROVE  Reached(r, ms)
    <1> DEFINE m == ms[k]
    <1>1. /\ r.x \in Int /\ r.y \in Int /\ r.w \in Int /\ r.h \in Int /\ r.w > 0 /\ r.h > 0
          /\ m.x \in Int /\ m.y \in Int /\ m.w \in Int /\ m.h \in Int /\ m.w > 0 /\ m.h > 0
        BY Integers DEF Rect, Monitor, Given
    <1>2. PICK x \in m.x .. m.x + m.w - 1 : x \in r.x .. r.x + r.w - 1
        BY <1>1, SharedPixel
    <1>3. PICK y \in m.y .. m.y + m.h - 1 : y \in r.y .. r.y + r.h - 1
        BY <1>1, SharedPixel
    <1>4. <<x, y>> \in Pixels(m) /\ Covers(r, <<x, y>>)
        BY <1>2, <1>3 DEF Pixels, Covers
    <1> QED
        BY <1>4 DEF Reached

(***************************************************************************)
(* Whatever is clamped can be reached, and what is moved ends up within a  *)
(* work area.                                                              *)
(***************************************************************************)
LEMMA ClampedIsReached ==
    ASSUME NEW r \in Rect, Given(r), NEW ms \in Seq(Monitor), ms # <<>>
    PROVE  /\ Reached(Clamped(r, ms), ms)
           /\ Clamped(r, ms) # r =>
                 \E k \in DOMAIN ms :
                    Inside(Clamped(r, ms),
                           IF Given(ms[k].work) THEN ms[k].work ELSE ms[k])
    <1>1. CASE Visible(r, ms)
        <2>1. Clamped(r, ms) = r
            BY <1>1 DEF Clamped
        <2>2. PICK k \in DOMAIN ms : Overlaps(r, ms[k])
            BY <1>1 DEF Visible
        <2> DEFINE m == ms[k]
        <2>3. m \in Monitor
            OBVIOUS
        <2> HIDE DEF m
        <2>4. /\ r.x \in Integer /\ r.y \in Integer /\ r.w \in Integer /\ r.h \in Integer
              /\ r.w > 0 /\ r.h > 0
              /\ m.x + m.w \in Integer /\ m.y + m.h \in Integer
            BY <2>3 DEF Rect, Given, Monitor, Fits
        <2>5. /\ r.x + r.w \in Int /\ r.x + r.w >= -Limit
              /\ r.y + r.h \in Int /\ r.y + r.h >= -Limit
            <3>1. Limit \in Nat /\ \A n \in Integer : n \in Int /\ n >= -Limit
                BY ClampAssumption DEF Integer
            <3>2. /\ r.x \in Int /\ r.x >= -Limit /\ r.w \in Int /\ r.w > 0
                  /\ r.y \in Int /\ r.y >= -Limit /\ r.h \in Int /\ r.h > 0
                BY <2>4, <3>1
            <3> QED
                BY <3>1, <3>2
        <2>6. /\ Wrap(m.x + m.w) = m.x + m.w /\ Wrap(m.y + m.h) = m.y + m.h
              /\ Wrap(r.x + r.w) \in Int /\ Wrap(r.x + r.w) <= r.x + r.w
              /\ Wrap(r.y + r.h) \in Int /\ Wrap(r.y + r.h) <= r.y + r.h
            BY <2>4, <2>5, WrapKeeps, WrapBelow, WrapIsInteger, Integers
        <2>7. /\ r.x < Wrap(m.x + m.w) /\ Wrap(r.x + r.w) > m.x
              /\ r.y < Wrap(m.y + m.h) /\ Wrap(r.y + r.h) > m.y
            BY <2>2 DEF Overlaps, m
        <2>8. m.x \in Int /\ m.y \in Int
            BY <2>3, Integers DEF Monitor
        <2>9. r.x < m.x + m.w /\ r.x + r.w > m.x /\ r.y < m.y + m.h /\ r.y + r.h > m.y
            BY <2>5, <2>6, <2>7, <2>8
        <2>10. Reached(r, ms)
            BY <2>3, <2>9, RectReached DEF m
        <2> QED
            BY <2>1, <2>10
    <1>2. CASE ~Visible(r, ms)
        <2>1. PICK k \in DOMAIN ms : Nearest(r, ms) = ms[k]
            BY NearestIsThere
        <2> DEFINE m    == ms[k]
                   area == PlacementArea(m)
                   q    == MoveInto(r, area)
        <2>2. m \in Monitor
            OBVIOUS
        <2>3. Clamped(r, ms) = q
            BY <1>2, <2>1 DEF Clamped
        <2> HIDE DEF m
        <2>4. area \in Rect /\ Given(area) /\ Inside(area, m) /\ Fits(area)
            BY <2>2, PlacementAreaOf
        <2> HIDE DEF area
        <2>5. q \in Rect /\ Inside(q, area) /\ Given(q)
            BY <2>4, MovedInside
        <2> HIDE DEF q
        <2>6. /\ q.x \in Int /\ q.y \in Int /\ q.w \in Int /\ q.h \in Int
              /\ q.w > 0 /\ q.h > 0
              /\ area.x \in Int /\ area.y \in Int /\ area.w \in Int /\ area.h \in Int
              /\ m.x \in Int /\ m.y \in Int /\ m.w \in Int /\ m.h \in Int
            BY <2>2, <2>4, <2>5, Integers DEF Rect, Given, Monitor
        <2>7. /\ q.x >= area.x /\ q.x + q.w <= area.x + area.w
              /\ q.y >= area.y /\ q.y + q.h <= area.y + area.h
              /\ area.x >= m.x /\ area.x + area.w <= m.x + m.w
              /\ area.y >= m.y /\ area.y + area.h <= m.y + m.h
            BY <2>4, <2>5 DEF Inside
        <2>8. q.x < m.x + m.w /\ q.x + q.w > m.x /\ q.y < m.y + m.h /\ q.y + q.h > m.y
            <3>1. \A a, n, b, w, lo, e \in Int :
                      n > 0 /\ a >= b /\ a + n <= b + w /\ b >= lo /\ b + w <= lo + e
                      => a < lo + e /\ a + n > lo
                OBVIOUS
            <3> QED
                BY <2>6, <2>7, <3>1
        <2>9. Reached(q, ms)
            BY <2>2, <2>5, <2>8, RectReached DEF m
        <2>10. Inside(q, IF Given(m.work) THEN m.work ELSE m)
            <3>1. CASE Given(m.work)
                <4>1. area = m.work
                    BY <3>1 DEF area, PlacementArea, Given
                <4> QED
                    BY <2>5, <3>1, <4>1
            <3>2. CASE ~Given(m.work)
                <4>1. area = [x |-> m.x, y |-> m.y, w |-> m.w, h |-> m.h]
                    BY <3>2 DEF area, PlacementArea, Given
                <4> QED
                    BY <2>7, <3>2, <4>1 DEF Inside
            <3> QED
                BY <3>1, <3>2
        <2> QED
            BY <2>3, <2>9, <2>10 DEF m
    <1> QED
        BY <1>1, <1>2

(***************************************************************************)
(* What can be reached is left where it is.                                *)
(***************************************************************************)
LEMMA ReachedIsKept ==
    ASSUME NEW r \in Rect, Fits(r), NEW ms \in Seq(Monitor), Reached(r, ms)
    PROVE  Clamped(r, ms) = r
    <1>1. PICK k \in DOMAIN ms : \E px \in Pixels(ms[k]) : Covers(r, px)
        BY DEF Reached
    <1> DEFINE m == ms[k]
    <1>2. m \in Monitor
        OBVIOUS
    <1> HIDE DEF m
    <1>3. PICK px \in Pixels(m) : Covers(r, px)
        BY <1>1 DEF m
    <1>4. /\ r.x \in Int /\ r.y \in Int /\ r.w \in Int /\ r.h \in Int
          /\ m.x \in Int /\ m.y \in Int /\ m.w \in Int /\ m.h \in Int
        BY <1>2, Integers DEF Rect, Monitor
    <1>5. /\ px[1] \in m.x .. m.x + m.w - 1 /\ px[2] \in m.y .. m.y + m.h - 1
          /\ px[1] \in r.x .. r.x + r.w - 1 /\ px[2] \in r.y .. r.y + r.h - 1
        BY <1>3 DEF Pixels, Covers
    <1>6. r.x < m.x + m.w /\ r.x + r.w > m.x /\ r.y < m.y + m.h /\ r.y + r.h > m.y
        <2>1. \A a, n, b, w \in Int : \A x \in b .. b + w - 1 :
                  x \in a .. a + n - 1 => a < b + w /\ a + n > b
            OBVIOUS
        <2> QED
            BY <1>4, <1>5, <2>1
    <1>7. /\ Wrap(m.x + m.w) = m.x + m.w /\ Wrap(m.y + m.h) = m.y + m.h
          /\ Wrap(r.x + r.w) = r.x + r.w /\ Wrap(r.y + r.h) = r.y + r.h
        BY <1>2, WrapKeeps DEF Fits, Monitor
    <1>8. Overlaps(r, m)
        BY <1>6, <1>7 DEF Overlaps
    <1> QED
        BY <1>8 DEF Clamped, Visible, m

-----------------------------------------------------------------------------
(***************************************************************************)
(* Types.                                                                  *)
(***************************************************************************)
Desks   == [Windows -> WindowState]
Info    == [exe : Windows, topmost : BOOLEAN, screen : Rect, rect : Rect, state : State]
Tallies == [restored : SUBSET Nat, deselected : SUBSET Nat, missing : SUBSET Nat,
            failed : SUBSET Nat]

TypeInv ==
    /\ mons \in MonitorLists /\ seen \in Seq(Monitor)
    /\ desk \in Desks
    /\ entries \in Seq(WindowEntry)
    /\ minimizeOthers \in BOOLEAN
    /\ live \in Seq(Info)
    /\ phase \in {"idle", "chosen", "restore", "done"}
    /\ extra \in SUBSET Windows
    /\ at \in Nat \ {0}
    /\ call \in {"placement", "position", "topmost"}
    /\ tally \in Tallies
    /\ budget \in Nat
    /\ disturbed \in BOOLEAN
    /\ kept = <<>> \/ kept \in Desks

LEMMA MonitorListsOK ==
    \A ms \in MonitorLists :
        /\ ms \in Seq(Monitor) /\ ms # <<>>
        /\ Primary(ms) \in Monitor
    <1> TAKE ms \in MonitorLists
    <1>1. ms \in Seq(Monitor) /\ \E k \in DOMAIN ms : ms[k].x = 0 /\ ms[k].y = 0
        BY RestoreAssumption
    <1>2. PICK k \in DOMAIN ms : ms[k].x = 0 /\ ms[k].y = 0
        BY <1>1
    <1>3. ms # <<>>
        BY <1>1
    <1>4. Primary(ms) \in Monitor
        BY <1>1, <1>2 DEF Primary
    <1> QED
        BY <1>1, <1>3, <1>4

LEMMA ShiftIsRect ==
    ASSUME mons \in MonitorLists, NEW r \in Rect, NEW d \in {1, -1}
    PROVE  /\ Shift(r, d) \in Rect
           /\ Shift(r, d).w = r.w /\ Shift(r, d).h = r.h
    <1> DEFINE area == PlacementArea(Primary(mons))
    <1>1. area \in Rect
        BY MonitorListsOK, PlacementAreaOf
    <1> HIDE DEF area
    <1>2. area.x \in Int /\ area.y \in Int /\ r.x \in Int /\ r.y \in Int
        BY <1>1, Integers DEF Rect
    <1>3. r.x + d * area.x \in Int /\ r.y + d * area.y \in Int
        BY <1>2
    <1>4. Wrap(r.x + d * area.x) \in Integer /\ Wrap(r.y + d * area.y) \in Integer
        BY <1>3, WrapIsInteger
    <1> QED
        BY <1>4 DEF Shift, area, Rect

LEMMA ShownIsRect ==
    ASSUME mons \in MonitorLists, NEW r \in Rect, NEW state
    PROVE  Shown(state, r) \in Rect
    <1>1. ToScreen(r) \in Rect
        BY ShiftIsRect DEF ToScreen
    <1>2. PICK k \in DOMAIN mons : Nearest(ToScreen(r), mons) = mons[k]
        BY <1>1, MonitorListsOK, NearestIsThere
    <1>3. mons[k] \in Monitor
        BY MonitorListsOK
    <1>4. PlacementArea(mons[k]) \in Rect
        BY <1>3, PlacementAreaOf
    <1> QED
        BY <1>1, <1>2, <1>4, RestoreAssumption DEF Shown

\* The windows a layout may be captured from, or entries matched with.
LEMMA CandidatesOK ==
    ASSUME TypeInv
    PROVE  /\ Candidates \in Seq(Info)
           /\ \A i \in DOMAIN Candidates :
                 /\ Candidates[i] \in Info /\ Eligible(Candidates[i])
                 /\ \E k \in DOMAIN live : Candidates[i] = live[k]
           /\ \A k \in DOMAIN live : Eligible(live[k]) =>
                 \E i \in DOMAIN Candidates : Candidates[i] = live[k]
    <1> DEFINE positions == {i \in DOMAIN live : Eligible(live[i])}
    <1>1. live \in Seq(Info) /\ positions \in SUBSET DOMAIN live
        BY DEF TypeInv
    <1>2. Candidates = Collect(live, positions)
        BY DEF Candidates
    <1> HIDE DEF positions
    <1>3. /\ Candidates \in Seq(Info)
          /\ \A j \in DOMAIN Candidates : \E k \in positions : Candidates[j] = live[k]
          /\ \A k \in positions : \E j \in DOMAIN Candidates : Candidates[j] = live[k]
        BY <1>1, <1>2, Collected
    <1> QED
        BY <1>3 DEF positions

LEMMA CaptureOK ==
    ASSUME TypeInv
    PROVE  /\ Capture \in Seq(WindowEntry)
           /\ \A k \in DOMAIN Capture : \E i \in DOMAIN live : Capture[k] = AsEntry(live[i])
    <1>1. Candidates \in Seq(Info) /\ DOMAIN Candidates = 1 .. Len(Candidates)
          /\ Len(Candidates) \in Nat
        BY CandidatesOK
    <1>2. ASSUME NEW k \in DOMAIN Candidates PROVE AsEntry(Candidates[k]) \in WindowEntry
        <2>1. Candidates[k] \in Info /\ Given(Candidates[k].rect)
            BY CandidatesOK DEF Eligible
        <2> QED
            BY <2>1 DEF AsEntry, WindowEntry, Info
    <1>3. Capture \in Seq(WindowEntry)
        BY <1>1, <1>2 DEF Capture
    <1>4. \A k \in DOMAIN Capture : \E i \in DOMAIN live : Capture[k] = AsEntry(live[i])
        BY CandidatesOK DEF Capture
    <1> QED
        BY <1>3, <1>4 DEF WindowEntry

\* The windows that are open, in the order of EnumWindows.
LEMMA OpenOK ==
    ASSUME TypeInv
    PROVE  /\ Open \in Seq(Windows)
           /\ \A i \in DOMAIN Open : desk[Open[i]].open
           /\ \A w \in Windows : desk[w].open => \E i \in DOMAIN Open : Open[i] = w
    <1> DEFINE all  == [w \in Windows |-> w]
               open == {w \in Windows : desk[w].open}
    <1>1. NWindows \in Nat
        BY RestoreAssumption
    <1>2. all \in Seq(Windows) /\ DOMAIN all = Windows
        BY <1>1 DEF Windows
    <1>3. Open = Collect(all, open)
        BY DEF Open
    <1>4. open \in SUBSET DOMAIN all /\ \A w \in Windows : all[w] = w
        BY <1>2
    <1> HIDE DEF all, open
    <1>5. /\ Open \in Seq(Windows)
          /\ \A j \in DOMAIN Open : \E k \in open : Open[j] = all[k]
          /\ \A k \in open : \E j \in DOMAIN Open : Open[j] = all[k]
        BY <1>2, <1>3, <1>4, Collected
    <1> QED
        BY <1>4, <1>5 DEF open

\* A reading that leaves monitors out lists some of those there are.
Listed(ms) == \A k \in DOMAIN ms : \E l \in DOMAIN mons : ms[k] = mons[l]

LEMMA FewerOK ==
    ASSUME TypeInv, NEW positions \in SUBSET DOMAIN mons
    PROVE  Collect(mons, positions) \in Seq(Monitor) /\ Listed(Collect(mons, positions))
    <1>1. mons \in Seq(Monitor)
        BY MonitorListsOK DEF TypeInv
    <1> DEFINE ms == Collect(mons, positions)
    <1>2. ms \in Seq(Monitor) /\ \A j \in DOMAIN ms : \E k \in positions : ms[j] = mons[k]
        BY <1>1, Collected
    <1> HIDE DEF ms
    <1>3. ms \in Seq(Monitor) /\ Listed(ms)
        BY <1>2 DEF Listed
    <1> QED
        BY <1>3 DEF ms

LEMMA DescribedIsInfo ==
    ASSUME TypeInv, NEW w \in Windows, NEW a \in BOOLEAN, NEW b \in BOOLEAN
    PROVE  Described(w, a, b) \in Info
    <1>1. desk[w] \in WindowState
        BY DEF TypeInv, Desks
    <1>2. NoRect \in Rect
        BY Integers DEF NoRect, Rect
    <1>3. "normal" \in State
        BY DEF State
    <1>4. ASSUME NEW d \in WindowState
          PROVE  [exe |-> w, topmost |-> d.topmost,
                  screen |-> IF a THEN d.pos ELSE NoRect,
                  rect |-> IF b THEN d.norm ELSE IF a THEN d.pos ELSE NoRect,
                  state |-> IF b THEN d.state ELSE "normal"] \in Info
        BY <1>2, <1>3 DEF WindowState, Info
    <1> QED
        BY <1>1, <1>4 DEF Described

LEMMA TypeInit == Init => TypeInv
    <1> SUFFICES ASSUME Init PROVE TypeInv
        OBVIOUS
    <1>1. PICK s \in Scenarios :
              /\ desk = s.desk /\ entries = s.entries
              /\ minimizeOthers = s.minimizeOthers /\ budget = s.budget
        BY DEF Init
    <1>2. desk \in Desks /\ entries \in Seq(WindowEntry) /\ minimizeOthers \in BOOLEAN /\ budget \in Nat
        BY <1>1, RestoreAssumption DEF Desks, WindowState
    <1>3. NoTally \in Tallies
        BY DEF NoTally, Tallies
    <1>4. live \in Seq(Info) /\ extra \in SUBSET Windows /\ at \in Nat \ {0}
        BY DEF Init
    <1>5. mons \in MonitorLists /\ seen \in Seq(Monitor)
        BY MonitorListsOK DEF Init
    <1>6. tally \in Tallies /\ phase = "idle" /\ call = "placement"
          /\ disturbed = FALSE /\ kept = <<>>
        BY <1>3 DEF Init
    <1> QED
        BY <1>2, <1>4, <1>5, <1>6 DEF TypeInv

\* A placement or a position is computed from rectangles and is one.
LEMMA PlacementOK ==
    ASSUME TypeInv, AtEntry
    PROVE  /\ Entry \in WindowEntry /\ at \in DOMAIN entries
           /\ Clamped(Entry.rect, seen) \in Rect /\ Given(Clamped(Entry.rect, seen))
           /\ Position \in Rect /\ Given(Position)
    <1>1. at \in DOMAIN entries /\ Entry \in WindowEntry
        <2>1. entries \in Seq(WindowEntry) /\ at \in 1 .. Len(entries)
            BY DEF TypeInv, AtEntry
        <2> QED
            BY <2>1 DEF Entry
    <1>2. seen \in Seq(Monitor)
        BY DEF TypeInv
    <1>3. Entry.rect \in Rect /\ Given(Entry.rect) /\ Entry.screen \in Rect
        BY <1>1 DEF WindowEntry
    <1>4. Clamped(Entry.rect, seen) \in Rect /\ Given(Clamped(Entry.rect, seen))
        BY <1>2, <1>3, ClampedIsRect
    <1>5. Given(Entry.screen) =>
              Clamped(Entry.screen, seen) \in Rect /\ Given(Clamped(Entry.screen, seen))
        BY <1>2, <1>3, ClampedIsRect
    <1> QED
        BY <1>1, <1>4, <1>5 DEF Position, ClampedScreen

LEMMA CountOK ==
    ASSUME TypeInv, NEW what \in {"restored", "deselected", "missing", "failed"}, Count(what)
    PROVE  /\ tally' \in Tallies /\ at' \in Nat \ {0} /\ at' = at + 1 /\ call' = "placement"
           /\ tally'[what] = tally[what] \cup {at}
           /\ \A other \in {"restored", "deselected", "missing", "failed"} :
                 other # what => tally'[other] = tally[other]
    <1>1. tally \in Tallies /\ at \in Nat \ {0} /\ tally[what] \cup {at} \in SUBSET Nat
        BY DEF TypeInv, Tallies
    <1>2. tally' = [tally EXCEPT ![what] = tally[what] \cup {at}]
        BY DEF Count
    <1>3. tally' \in Tallies
        BY <1>1, <1>2 DEF Tallies
    <1>4. /\ tally'[what] = tally[what] \cup {at}
          /\ \A other \in {"restored", "deselected", "missing", "failed"} :
                other # what => tally'[other] = tally[other]
        BY <1>1, <1>2 DEF Tallies
    <1> QED
        BY <1>1, <1>3, <1>4 DEF Count

\* What the three calls write to a window.
LEMMA DeskWritten ==
    ASSUME NEW d \in Desks, NEW w \in Windows
    PROVE  /\ \A norm \in Rect, s \in State, pos \in Rect :
                 [d EXCEPT ![w].norm = norm, ![w].state = s, ![w].pos = pos] \in Desks
           /\ \A pos \in Rect, norm \in Rect :
                 [d EXCEPT ![w].pos = pos, ![w].norm = norm] \in Desks
           /\ \A on \in BOOLEAN : [d EXCEPT ![w].topmost = on] \in Desks
    <1>1. d[w] \in WindowState
        BY DEF Desks
    <1>2. \A norm \in Rect, s \in State, pos \in Rect :
             [d EXCEPT ![w].norm = norm, ![w].state = s, ![w].pos = pos] \in Desks
        BY <1>1 DEF Desks, WindowState
    <1>3. \A pos \in Rect, norm \in Rect :
             [d EXCEPT ![w].pos = pos, ![w].norm = norm] \in Desks
        BY <1>1 DEF Desks, WindowState
    <1>4. \A on \in BOOLEAN : [d EXCEPT ![w].topmost = on] \in Desks
        BY <1>1 DEF Desks, WindowState
    <1> QED
        BY <1>2, <1>3, <1>4

LEMMA TypeNext == TypeInv /\ [Next]_vars => TypeInv'
    <1> SUFFICES ASSUME TypeInv, [Next]_vars PROVE TypeInv'
        OBVIOUS
    <1> USE DEF layout, reading, history
    <1>1. ASSUME NEW w \in Windows, Closes(w) PROVE TypeInv'
        <2>1. desk' \in Desks
            BY <1>1 DEF Closes, TypeInv, Desks, WindowState
        <2> QED
            BY <1>1, <2>1 DEF Closes, TypeInv, Event, Restart, Idle
    <1>2. ASSUME NEW w \in Windows, NEW spot \in Spots, Moves(w, spot) PROVE TypeInv'
        <2>1. spot \in [norm : Rect, pos : Rect, state : State, topmost : BOOLEAN]
            BY RestoreAssumption
        <2>2. desk' \in Desks
            BY <1>2, <2>1 DEF Moves, TypeInv, Desks, WindowState
        <2> QED
            BY <1>2, <2>2 DEF Moves, TypeInv, Event, Restart, Idle
    <1>3. ASSUME NEW ms \in MonitorLists, ChangeDisplay(ms) PROVE TypeInv'
        BY <1>3 DEF ChangeDisplay, TypeInv, Event, Restart, Idle
    <1>4. ASSUME NEW ms \in Seq(Monitor), NEW fault, NEW a \in BOOLEAN, NEW b \in BOOLEAN,
                 Read(ms, fault, a, b), disturbed' \in BOOLEAN, budget' \in Nat
          PROVE  TypeInv'
        <2>1. Open \in Seq(Windows)
            BY OpenOK
        <2>2. \A k \in DOMAIN Open : live'[k] \in Info
            <3> TAKE k \in DOMAIN Open
            <3>1. Open[k] \in Windows
                BY <2>1
            <3>2. live'[k] = IF Open[k] = fault THEN Described(fault, a, b)
                             ELSE Described(Open[k], TRUE, TRUE)
                BY <1>4 DEF Read
            <3> QED
                BY <3>1, <3>2, DescribedIsInfo
        <2>3. live' \in Seq(Info)
            <3>1. live' = [k \in 1 .. Len(Open) |-> live'[k]] /\ Len(Open) \in Nat
                BY <1>4, <2>1 DEF Read
            <3> QED
                BY <2>1, <2>2, <3>1
        <2>4. NoTally \in Tallies
            BY DEF NoTally, Tallies
        <2> QED
            BY <1>4, <2>3, <2>4 DEF Read, TypeInv
    <1>5. CASE ReadAll \/ ReadSome
        <2>1. mons \in Seq(Monitor)
            BY MonitorListsOK DEF TypeInv
        <2>2. CASE ReadAll
            BY <1>4, <2>1, <2>2 DEF ReadAll, TypeInv
        <2>3. CASE ReadSome
            BY <1>4, <2>1, <2>3 DEF ReadSome, TypeInv, Event
        <2> QED
            BY <1>5, <2>2, <2>3
    <1>6. CASE ReadFewer
        <2>1. PICK positions \in SUBSET DOMAIN mons :
                  Read(Collect(mons, positions), 0, TRUE, TRUE)
            BY <1>6 DEF ReadFewer
        <2>2. budget > 0 /\ budget' = budget - 1 /\ disturbed' = FALSE
            BY <1>6 DEF ReadFewer, Event
        <2>3. disturbed' \in BOOLEAN
            BY <2>2
        <2>4. budget' \in Nat
            BY <2>2 DEF TypeInv
        <2> QED
            BY <1>4, <2>1, <2>3, <2>4, FewerOK
    <1>7. CASE Overwrite
        <2>1. kept' = <<>> \/ kept' \in Desks
            BY <1>7 DEF Overwrite, TypeInv
        <2> QED
            BY <1>7, <2>1, CaptureOK DEF Overwrite, TypeInv
    <1>8. CASE ChooseRestore
        <2>1. ToMinimize \in SUBSET Windows
            BY CandidatesOK DEF ToMinimize, Unmatched, Info
        <2> QED
            BY <1>8, <2>1 DEF ChooseRestore, TypeInv
    <1>9. ASSUME NEW w \in Windows, MinimizeWindow(w) PROVE TypeInv'
        <2>1. desk' \in Desks
            <3>1. "minimized" \in State /\ Away \in Rect
                BY RestoreAssumption DEF State
            <3> QED
                BY <1>9, <3>1 DEF MinimizeWindow, TypeInv, Desks, WindowState
        <2> QED
            BY <1>9, <2>1 DEF MinimizeWindow, TypeInv
    <1>10. CASE PassOver
        <2>1. tally' \in Tallies /\ at' \in Nat \ {0} /\ call' = "placement"
            BY <1>10, CountOK DEF PassOver
        <2> QED
            BY <1>10, <2>1 DEF PassOver, TypeInv
    <1>11. CASE SetWindowPlacement
        <2>1. AtEntry /\ Entry \in WindowEntry /\ Clamped(Entry.rect, seen) \in Rect
            BY <1>11, PlacementOK DEF SetWindowPlacement, Calls
        <2> DEFINE norm == Clamped(Entry.rect, seen)
        <2>2. Shown(Entry.state, norm) \in Rect
            BY <2>1, ShownIsRect DEF TypeInv
        <2>3. desk' = [desk EXCEPT ![Entry.exe].norm = norm,
                                   ![Entry.exe].state = Entry.state,
                                   ![Entry.exe].pos = Shown(Entry.state, norm)]
            BY <1>11 DEF SetWindowPlacement
        <2> HIDE DEF norm
        <2>4. desk' \in Desks
            <3>1. norm \in Rect /\ Entry.exe \in Windows /\ Entry.state \in State
                BY <2>1 DEF WindowEntry, norm
            <3> QED
                BY <2>2, <2>3, <3>1, DeskWritten DEF TypeInv
        <2> QED
            BY <1>11, <2>4 DEF SetWindowPlacement, Calls, Succeeds, TypeInv
    <1>12. CASE SetWindowPos
        <2>1. AtEntry /\ Entry \in WindowEntry /\ Position \in Rect
            BY <1>12, PlacementOK DEF SetWindowPos, Calls
        <2>2. ToWorkspace(Position) \in Rect
            BY <2>1, ShiftIsRect DEF TypeInv, ToWorkspace
        <2>3. desk' \in Desks
            <3>1. Entry.exe \in Windows
                BY <2>1 DEF WindowEntry
            <3>2. desk' = [desk EXCEPT ![Entry.exe].pos = Position,
                                       ![Entry.exe].norm = ToWorkspace(Position)]
                BY <1>12 DEF SetWindowPos
            <3> QED
                BY <2>1, <2>2, <3>1, <3>2, DeskWritten DEF TypeInv
        <2> QED
            BY <1>12, <2>3 DEF SetWindowPos, Calls, Succeeds, TypeInv
    <1>13. CASE SetTopmost
        <2>1. Entry \in WindowEntry
            BY <1>13, PlacementOK DEF SetTopmost, Calls
        <2>2. desk' \in Desks
            <3>1. Entry.exe \in Windows /\ Entry.topmost \in BOOLEAN
                BY <2>1 DEF WindowEntry
            <3>2. desk' = [desk EXCEPT ![Entry.exe].topmost = Entry.topmost]
                BY <1>13 DEF SetTopmost
            <3> QED
                BY <3>1, <3>2, DeskWritten DEF TypeInv
        <2>3. tally' \in Tallies /\ at' \in Nat \ {0} /\ call' = "placement"
            BY <1>13, CountOK DEF SetTopmost
        <2> QED
            BY <1>13, <2>2, <2>3 DEF SetTopmost, Calls, Succeeds, TypeInv
    <1>14. CASE CallFails
        <2>1. tally' \in Tallies /\ at' \in Nat \ {0} /\ call' = "placement"
            BY <1>14, CountOK DEF CallFails
        <2>2. budget' \in Nat
            BY <1>14 DEF CallFails, Event, TypeInv
        <2> QED
            BY <1>14, <2>1, <2>2 DEF CallFails, Calls, TypeInv
    <1>15. CASE Return
        BY <1>15 DEF Return, TypeInv
    <1>16. CASE UNCHANGED vars
        BY <1>16 DEF vars, TypeInv
    <1> QED
        BY <1>1, <1>2, <1>3, <1>5, <1>6, <1>7, <1>8, <1>9, <1>10, <1>11, <1>12, <1>13, <1>14,
           <1>15, <1>16 DEF Next, WorldStep, RestoreStep

(***************************************************************************)
(* The rectangles of a layout are rectangles with an extent.               *)
(***************************************************************************)
LEMMA SavedIsRect ==
    ASSUME TypeInv, NEW r \in Saved
    PROVE  r \in Rect /\ Given(r)
    <1>1. \A k \in DOMAIN entries : entries[k] \in WindowEntry
        BY DEF TypeInv
    <1> QED
        BY <1>1 DEF Saved, WindowEntry

LEMMA TypeInvariant == Spec => []TypeInv
    BY TypeInit, TypeNext, PTL DEF Spec

(***************************************************************************)
(* A rectangle that actionRestore hands to Windows overlaps a monitor that *)
(* was read, and one that Clamp moved lies in a work area.                 *)
(***************************************************************************)
THEOREM ReachableAlways == Spec => []Reachable
    <1>1. TypeInv => Reachable
        <2> SUFFICES ASSUME TypeInv, seen # <<>>, NEW r \in Saved
                     PROVE  /\ Reached(Result(r), seen)
                            /\ Result(r) # r =>
                                  \E k \in DOMAIN seen :
                                     Inside(Result(r), IF Given(seen[k].work)
                                                       THEN seen[k].work ELSE seen[k])
            BY DEF Reachable
        <2>1. seen \in Seq(Monitor)
            BY DEF TypeInv
        <2>2. r \in Rect /\ Given(r)
            BY SavedIsRect
        <2> QED
            BY <2>1, <2>2, ClampedIsReached DEF Result
    <1> QED
        BY TypeInvariant, <1>1, PTL

(***************************************************************************)
(* Clamp changes no rectangle whose edges are integers and that overlaps a *)
(* monitor that was read.                                                  *)
(***************************************************************************)
THEOREM StaysPutAlways == Spec => []StaysPut
    <1>1. TypeInv => StaysPut
        <2> SUFFICES ASSUME TypeInv, NEW r \in Saved, Fits(r), Reached(r, seen)
                     PROVE  Result(r) = r
            BY DEF StaysPut, Found
        <2>1. seen \in Seq(Monitor)
            BY DEF TypeInv
        <2>2. r \in Rect
            BY SavedIsRect
        <2> QED
            BY <2>1, <2>2, ReachedIsKept DEF Result
    <1> QED
        BY TypeInvariant, <1>1, PTL

-----------------------------------------------------------------------------
(***************************************************************************)
(* How far the restore is.  The windows to be minimized come first, and    *)
(* are those of the reading; then the entries, each counted once.          *)
(***************************************************************************)
Counters == {"restored", "deselected", "missing", "failed"}

Progress ==
    /\ phase \in {"idle", "chosen", "done"} => call = "placement"
    /\ phase = "chosen" => at = 1 /\ tally = NoTally
    /\ phase = "restore" => extra \subseteq ToMinimize
    /\ phase = "restore" /\ extra # {} => at = 1 /\ call = "placement"
    /\ call # "placement" => at <= Len(entries) /\ Matches(at) /\ Entry.include
    /\ phase \in {"restore", "done"} => at <= Len(entries) + 1
    /\ phase = "done" => at > Len(entries)

CountedOnce ==
    phase \in {"restore", "done"} =>
        /\ \A k \in 1 .. at - 1 : \E c \in Counters : k \in tally[c]
        /\ \A c \in Counters : tally[c] \subseteq 1 .. at - 1
        /\ \A c, d \in Counters : c # d => tally[c] \cap tally[d] = {}
        /\ \A k \in tally.deselected : ~entries[k].include

LEMMA ProgressInit == Init => Progress /\ CountedOnce
    BY DEF Init, Progress, CountedOnce

\* Matching depends on what was read, and on nothing that changes.
LEMMA MatchingKept ==
    ASSUME UNCHANGED <<live, entries, minimizeOthers>>
    PROVE  /\ Candidates' = Candidates /\ ToMinimize' = ToMinimize
           /\ \A k : Matches(k)' <=> Matches(k)
    BY DEF Candidates, Unmatched, ToMinimize, Matches, Eligible

LEMMA ProgressNext == TypeInv /\ Progress /\ [Next]_vars => Progress'
    <1> SUFFICES ASSUME TypeInv, Progress, [Next]_vars PROVE Progress'
        OBVIOUS
    <1> USE DEF layout, reading, history
    <1>0. at \in Nat \ {0} /\ Len(entries) \in Nat
        BY DEF TypeInv
    <1>1. ASSUME UNCHANGED <<layout, reading, extra, at, call, tally>>,
                 \/ phase' = phase
                 \/ phase = "done" /\ phase' = "idle"
          PROVE  Progress'
        BY <1>1, MatchingKept DEF Progress, Entry
    <1>2. ASSUME WorldStep PROVE Progress'
        <2>1. UNCHANGED <<layout, reading, extra, at, call, tally>> /\ Restart
            BY <1>2 DEF WorldStep, Closes, Moves, ChangeDisplay
        <2> QED
            BY <1>1, <2>1 DEF Restart, Idle
    <1>3. CASE ReadAll \/ ReadFewer \/ ReadSome
        <2>1. /\ phase \in {"idle", "done"} /\ phase' = "chosen"
              /\ tally' = NoTally /\ at' = 1 /\ UNCHANGED call
            BY <1>3 DEF ReadAll, ReadFewer, ReadSome, Read, Idle
        <2> QED
            BY <2>1 DEF Progress
    <1>4. CASE Overwrite
        <2>1. phase' = "idle" /\ UNCHANGED <<call, at>> /\ call = "placement"
            BY <1>4 DEF Overwrite, Progress
        <2> QED
            BY <2>1 DEF Progress
    <1>5. CASE ChooseRestore
        <2>1. /\ phase = "chosen" /\ phase' = "restore" /\ extra' = ToMinimize
              /\ UNCHANGED <<entries, minimizeOthers, live, at, call>>
            BY <1>5 DEF ChooseRestore
        <2> QED
            BY <1>0, <2>1, MatchingKept DEF Progress
    <1>6. ASSUME NEW w \in Windows, MinimizeWindow(w) PROVE Progress'
        <2>1. /\ phase = "restore" /\ phase' = "restore" /\ extra' = extra \ {w} /\ w \in extra
              /\ UNCHANGED <<entries, minimizeOthers, live, at, call>>
            BY <1>6 DEF MinimizeWindow
        <2> QED
            BY <1>0, <2>1, MatchingKept DEF Progress
    <1>7. ASSUME AtEntry, NEW c, Count(c), UNCHANGED <<layout, reading, phase, extra>>
          PROVE  Progress'
        BY <1>0, <1>7 DEF Progress, Count, AtEntry
    <1>8. CASE PassOver \/ SetTopmost \/ CallFails
        BY <1>7, <1>8 DEF PassOver, SetTopmost, CallFails, Calls
    <1>9. CASE SetWindowPlacement \/ SetWindowPos
        <2>1. /\ AtEntry /\ Matches(at) /\ Entry.include
              /\ UNCHANGED <<layout, reading, phase, extra, at>>
            BY <1>9 DEF SetWindowPlacement, SetWindowPos, Calls
        <2> QED
            BY <1>0, <2>1, MatchingKept DEF Progress, AtEntry, Entry
    <1>10. CASE Return
        <2>1. /\ phase' = "done" /\ at > Len(entries) /\ phase = "restore" /\ extra = {}
              /\ UNCHANGED <<entries, extra, at, call>>
            BY <1>10 DEF Return
        <2>2. call = "placement"
            BY <1>0, <2>1 DEF Progress
        <2> QED
            BY <1>0, <2>1, <2>2 DEF Progress
    <1>11. CASE UNCHANGED vars
        BY <1>1, <1>11 DEF vars
    <1> QED
        BY <1>2, <1>3, <1>4, <1>5, <1>6, <1>8, <1>9, <1>10, <1>11 DEF Next, RestoreStep

LEMMA CountedNext == TypeInv /\ Progress /\ CountedOnce /\ [Next]_vars => CountedOnce'
    <1> SUFFICES ASSUME TypeInv, Progress, CountedOnce, [Next]_vars PROVE CountedOnce'
        OBVIOUS
    <1> USE DEF layout, reading, history
    <1>0. at \in Nat \ {0}
        BY DEF TypeInv
    <1>1. ASSUME UNCHANGED <<entries, at, tally>>,
                 phase' \in {"restore", "done"} => phase \in {"restore", "done"}
          PROVE  CountedOnce'
        BY <1>1 DEF CountedOnce
    <1>2. CASE WorldStep
        <2>1. UNCHANGED <<entries, at, tally>> /\ Restart
            BY <1>2 DEF WorldStep, Closes, Moves, ChangeDisplay
        <2> QED
            BY <1>1, <2>1 DEF Restart
    <1>3. CASE ReadAll \/ ReadFewer \/ ReadSome \/ Overwrite
        <2>1. phase' \in {"chosen", "idle"}
            BY <1>3 DEF ReadAll, ReadFewer, ReadSome, Read, Overwrite
        <2> QED
            BY <2>1 DEF CountedOnce
    <1>4. CASE ChooseRestore
        <2>1. at' = 1 /\ tally' = NoTally
            BY <1>4 DEF ChooseRestore, Progress
        <2> QED
            BY <2>1 DEF CountedOnce, NoTally, Counters
    <1>5. CASE \E w \in Windows : MinimizeWindow(w)
        BY <1>1, <1>5 DEF MinimizeWindow
    <1>6. ASSUME AtEntry, NEW c \in Counters, Count(c), UNCHANGED <<layout, phase>>,
                 c = "deselected" => ~Entry.include
          PROVE  CountedOnce'
        <2>1. /\ tally'[c] = tally[c] \cup {at} /\ at' = at + 1
              /\ \A d \in Counters : d # c => tally'[d] = tally[d]
            BY <1>6, CountOK DEF Counters
        <2>2. /\ \A k \in 1 .. at - 1 : \E d \in Counters : k \in tally[d]
              /\ \A d \in Counters : tally[d] \subseteq 1 .. at - 1
              /\ \A d, e \in Counters : d # e => tally[d] \cap tally[e] = {}
              /\ \A k \in tally.deselected : ~entries[k].include
            BY <1>6 DEF CountedOnce, AtEntry
        <2>3. ASSUME NEW k \in 1 .. at' - 1 PROVE \E d \in Counters : k \in tally'[d]
            <3>1. CASE k = at
                BY <2>1, <3>1
            <3>2. CASE k # at
                <4>1. k \in 1 .. at - 1
                    BY <1>0, <2>1, <3>2
                <4>2. PICK d \in Counters : k \in tally[d]
                    BY <2>2, <4>1
                <4> QED
                    BY <2>1, <4>2
            <3> QED
                BY <3>1, <3>2
        <2>4. ASSUME NEW d \in Counters PROVE tally'[d] \subseteq 1 .. at' - 1
            <3>1. tally'[d] \subseteq tally[d] \cup {at}
                BY <2>1
            <3>2. tally[d] \subseteq 1 .. at - 1
                BY <2>2
            <3>3. 1 .. at - 1 \subseteq 1 .. at' - 1 /\ at \in 1 .. at' - 1
                BY <1>0, <2>1
            <3> QED
                BY <3>1, <3>2, <3>3
        <2>5. ASSUME NEW d \in Counters, NEW e \in Counters, d # e
              PROVE  tally'[d] \cap tally'[e] = {}
            <3>1. at \notin 1 .. at - 1
                BY <1>0
            <3>2. at \notin tally[d] /\ at \notin tally[e] /\ tally[d] \cap tally[e] = {}
                BY <2>2, <2>5, <3>1
            <3> QED
                BY <2>1, <2>5, <3>2
        <2>6. ASSUME NEW k \in tally'.deselected PROVE ~entries'[k].include
            <3>1. CASE k \in tally.deselected
                BY <1>6, <2>2, <3>1
            <3>2. CASE k \notin tally.deselected
                <4>1. c = "deselected" /\ k = at
                    BY <2>1, <3>2 DEF Counters
                <4> QED
                    BY <1>6, <4>1 DEF Entry
            <3> QED
                BY <3>1, <3>2
        <2> QED
            BY <2>3, <2>4, <2>5, <2>6 DEF CountedOnce
    <1>7. CASE PassOver \/ SetTopmost \/ CallFails
        BY <1>6, <1>7 DEF PassOver, SetTopmost, CallFails, Calls, Counters
    <1>8. CASE SetWindowPlacement \/ SetWindowPos \/ Return
        BY <1>1, <1>8 DEF SetWindowPlacement, SetWindowPos, Return, Calls
    <1>9. CASE UNCHANGED vars
        BY <1>1, <1>9 DEF vars
    <1> QED
        BY <1>2, <1>3, <1>4, <1>5, <1>7, <1>8, <1>9 DEF Next, RestoreStep

(***************************************************************************)
(* A restore leaves alone what it has no business with.                    *)
(***************************************************************************)
LEMMA MatchedIsConcerned ==
    ASSUME TypeInv, AtEntry, Matches(at), Entry.include
    PROVE  Entry.exe \in Windows /\ Concerned(Entry.exe)
    <1>1. at \in DOMAIN entries /\ Entry \in WindowEntry
        BY PlacementOK
    <1>2. PICK i \in DOMAIN Candidates : Candidates[i].exe = Entry.exe
        BY DEF Matches, Entry
    <1>3. Eligible(Candidates[i]) /\ \E k \in DOMAIN live : Candidates[i] = live[k]
        BY CandidatesOK
    <1> QED
        BY <1>1, <1>2, <1>3 DEF Concerned, Eligible, Ticked, Entry, WindowEntry

LEMMA ExtraIsConcerned ==
    ASSUME TypeInv, NEW w \in ToMinimize
    PROVE  Concerned(w)
    <1>1. minimizeOthers
        BY DEF ToMinimize
    <1>2. PICK i \in Unmatched : Candidates[i].exe = w
        BY DEF ToMinimize
    <1>3. i \in DOMAIN Candidates /\ ~Named(w)
        BY <1>2 DEF Unmatched, Named
    <1>4. Eligible(Candidates[i]) /\ \E k \in DOMAIN live : Candidates[i] = live[k]
        BY <1>3, CandidatesOK
    <1> QED
        BY <1>1, <1>2, <1>3, <1>4 DEF Concerned, Eligible

LEMMA ProgressInvariant == Spec => [](TypeInv /\ Progress /\ CountedOnce)
    BY TypeInit, TypeNext, ProgressInit, ProgressNext, CountedNext, PTL DEF Spec

(***************************************************************************)
(* A step of a restore changes no window but one the layout names, and     *)
(* one the option says to minimize.                                        *)
(***************************************************************************)
THEOREM UntouchedAlways == Spec => Untouched
    <1>1. ASSUME TypeInv, Progress, RestoreStep, NEW w \in Windows, desk'[w] # desk[w]
          PROVE  Concerned(w)
        <2>0. desk \in Desks
            BY <1>1 DEF TypeInv
        <2>1. ASSUME NEW v \in Windows, MinimizeWindow(v) PROVE Concerned(w)
            <3>1. w = v
                BY <1>1, <2>0, <2>1 DEF MinimizeWindow, Desks
            <3>2. w \in ToMinimize
                BY <1>1, <2>1, <3>1 DEF MinimizeWindow, Progress
            <3> QED
                BY <1>1, <3>2, ExtraIsConcerned
        <2>2. CASE SetWindowPlacement \/ SetWindowPos \/ SetTopmost
            <3>1. AtEntry /\ Matches(at) /\ Entry.include
                BY <2>2 DEF SetWindowPlacement, SetWindowPos, SetTopmost, Calls
            <3>2. w = Entry.exe
                BY <1>1, <2>0, <2>2 DEF SetWindowPlacement, SetWindowPos, SetTopmost, Desks
            <3> QED
                BY <1>1, <3>1, <3>2, MatchedIsConcerned
        <2>3. CASE PassOver \/ CallFails \/ Return
            BY <1>1, <2>3 DEF PassOver, CallFails, Return
        <2> QED
            BY <1>1, <2>1, <2>2, <2>3 DEF RestoreStep
    <1>2. TypeInv /\ Progress /\ [Next]_vars
          => [RestoreStep => \A w \in Windows : desk'[w] # desk[w] => Concerned(w)]_vars
        BY <1>1
    <1> QED
        BY ProgressInvariant, <1>2, PTL DEF Spec, Untouched

-----------------------------------------------------------------------------
(***************************************************************************)
(* While nothing has disturbed it, the reading is true: the monitors read  *)
(* are some of those there are, whatever can be placed is a candidate,     *)
(* and what has been placed stays there until the   *)
(* balloon says so.                                                        *)
(***************************************************************************)
WhereSaved(k) ==
    LET e == entries[k]
        d == desk[e.exe]
    IN  /\ d.state = e.state
        /\ IF e.state = "normal"
           THEN d.pos = Clamped(IF Given(e.screen) THEN e.screen ELSE e.rect, seen)
           ELSE d.norm = Clamped(e.rect, seen)

IsMissing(k) ==
    CanBePlaced(entries[k].exe) => \E j \in 1 .. k - 1 : entries[j].exe = entries[k].exe

Undisturbed ==
    ~disturbed /\ phase \in {"chosen", "restore", "done"} =>
        /\ Listed(seen)
        /\ phase = "chosen" =>
              \A i \in DOMAIN live : live[i] = Described(live[i].exe, TRUE, TRUE)
        /\ phase # "done" =>
              \A w \in Windows :
                  CanBePlaced(w) => \E i \in DOMAIN Candidates : Candidates[i].exe = w
        /\ \A k \in tally.missing : IsMissing(k)
        /\ \A k \in tally.restored :
              WhereSaved(k) /\ desk[entries[k].exe].topmost = entries[k].topmost
        /\ call = "position" => desk[Entry.exe].state = Entry.state /\ Entry.state = "normal"
        /\ call = "topmost" => WhereSaved(at)

LEMMA UndisturbedInit == Init => Undisturbed
    BY DEF Init, Undisturbed

\* What the window of the current entry becomes does not concern the entries before.
LEMMA OthersKept ==
    ASSUME TypeInv, CountedOnce, AtEntry, Matches(at),
           \A w \in Windows : w # Entry.exe => desk'[w] = desk[w],
           UNCHANGED <<entries, seen>>,
           NEW k, k \in tally.missing \cup tally.restored
    PROVE  /\ IsMissing(k) => IsMissing(k)'
           /\ WhereSaved(k) => WhereSaved(k)'
           /\ desk'[entries'[k].exe].topmost = desk[entries[k].exe].topmost
           /\ entries'[k] = entries[k]
    <1>1. k \in 1 .. at - 1
        BY DEF CountedOnce, Counters, AtEntry
    <1>2. k \in DOMAIN entries /\ entries[k] \in WindowEntry
        BY <1>1 DEF TypeInv, AtEntry
    <1>3. entries[k].exe \in Windows /\ entries[k].exe # Entry.exe
        BY <1>1, <1>2 DEF Matches, Entry, WindowEntry
    <1>4. desk'[entries[k].exe] = desk[entries[k].exe]
        BY <1>3
    <1> QED
        BY <1>4 DEF IsMissing, WhereSaved, CanBePlaced

\* A reading that nothing fails for lists all that can be placed.
LEMMA ReadingIsTrue ==
    ASSUME TypeInv, NEW ms, Read(ms, 0, TRUE, TRUE)
    PROVE  /\ (\A i \in DOMAIN live : live[i] = Described(live[i].exe, TRUE, TRUE))'
           /\ \A w \in Windows :
                 CanBePlaced(w)' => \E i \in DOMAIN Candidates' : Candidates'[i].exe = w
    <1>1. /\ desk' = desk
          /\ live' = [k \in DOMAIN Open |->
                         IF Open[k] = 0 THEN Described(0, TRUE, TRUE)
                         ELSE Described(Open[k], TRUE, TRUE)]
        BY DEF Read
    <1>2. Open \in Seq(Windows) /\ \A w \in Windows : w # 0
        BY OpenOK, RestoreAssumption DEF Windows
    <1>3. ASSUME NEW k \in DOMAIN Open
          PROVE  /\ live'[k] = Described(Open[k], TRUE, TRUE)
                 /\ live'[k].exe = Open[k]
                 /\ live'[k] \in Info
        <2>1. Open[k] \in Windows /\ Open[k] # 0
            BY <1>2
        <2>2. live'[k] = Described(Open[k], TRUE, TRUE)
            BY <1>1, <2>1
        <2>3. Described(Open[k], TRUE, TRUE) \in Info
            BY <2>1, DescribedIsInfo
        <2>4. Described(Open[k], TRUE, TRUE).exe = Open[k]
            BY DEF Described
        <2> QED
            BY <2>2, <2>3, <2>4
    <1>4. DOMAIN live' = DOMAIN Open
        BY <1>1
    <1>5. ASSUME NEW w \in Windows, CanBePlaced(w)'
          PROVE  \E i \in DOMAIN Candidates' : Candidates'[i].exe = w
        <2>1. PICK k \in DOMAIN Open : Open[k] = w
            BY <1>1, <1>5, OpenOK DEF CanBePlaced
        <2>2. Eligible(live'[k])
            BY <1>1, <1>3, <1>5, <2>1 DEF CanBePlaced, Eligible, Described
        <2> DEFINE ls        == live'
                   positions == {i \in DOMAIN ls : Eligible(ls[i])}
        <2>3. ls \in Seq(Info)
            <3>1. ls = [i \in 1 .. Len(Open) |-> ls[i]] /\ Len(Open) \in Nat
                BY <1>1, <1>2
            <3>2. \A i \in 1 .. Len(Open) : ls[i] \in Info
                <4> TAKE i \in 1 .. Len(Open)
                <4>1. i \in DOMAIN Open
                    BY <1>2
                <4> QED
                    BY <1>3, <4>1
            <3> HIDE DEF ls
            <3> QED
                BY <3>1, <3>2
        <2>4. Candidates' = Collect(ls, positions)
            BY DEF Candidates
        <2>5. k \in positions /\ positions \in SUBSET DOMAIN ls
            BY <1>4, <2>1, <2>2
        <2> HIDE DEF positions, ls
        <2>6. PICK i \in DOMAIN Candidates' : Candidates'[i] = ls[k]
            BY <2>3, <2>4, <2>5, Collected
        <2> QED
            BY <1>3, <2>1, <2>6 DEF ls
    <1>6. ASSUME NEW i \in DOMAIN live'
          PROVE  (live[i] = Described(live[i].exe, TRUE, TRUE))'
        <2>1. PICK w : w = Open[i]
            OBVIOUS
        <2>2. live'[i] = Described(w, TRUE, TRUE) /\ live'[i].exe = w
            BY <1>3, <1>4, <2>1
        <2>3. Described(w, TRUE, TRUE)' = Described(w, TRUE, TRUE)
            BY <1>1 DEF Described
        <2> QED
            BY <2>2, <2>3 DEF Described
    <1> QED
        BY <1>5, <1>6

LEMMA PositionIsClamped ==
    ASSUME TypeInv, AtEntry
    PROVE  Position = Clamped(IF Given(Entry.screen) THEN Entry.screen ELSE Entry.rect, seen)
    <1>1. Entry \in WindowEntry /\ seen \in Seq(Monitor)
        BY PlacementOK DEF TypeInv
    <1>2. Given(Entry.screen) => Given(Clamped(Entry.screen, seen))
        BY <1>1, ClampedIsRect DEF WindowEntry
    <1> QED
        BY <1>2 DEF Position, ClampedScreen

LEMMA UndisturbedNext ==
    TypeInv /\ Progress /\ CountedOnce /\ Undisturbed /\ [Next]_vars => Undisturbed'
    <1> SUFFICES ASSUME TypeInv, Progress, CountedOnce, Undisturbed, [Next]_vars,
                        ~disturbed', phase' \in {"chosen", "restore", "done"}
                 PROVE  Undisturbed'
        BY DEF Undisturbed
    <1> USE DEF layout, reading, history
    <1>0. at \in Nat \ {0} /\ desk \in Desks
        BY DEF TypeInv
    <1>a. PICK now : now = at
        OBVIOUS
    <1>1. CASE WorldStep \/ ReadSome
        BY <1>1 DEF WorldStep, Closes, Moves, ChangeDisplay, ReadSome
    <1>2. ASSUME NEW ms, Read(ms, 0, TRUE, TRUE), Listed(ms) PROVE Undisturbed'
        <2>1. /\ seen' = ms /\ mons' = mons /\ phase' = "chosen" /\ tally' = NoTally
              /\ call' = call /\ Idle
            BY <1>2 DEF Read
        <2>2. call' = "placement"
            BY <2>1 DEF Progress, Idle
        <2>3. tally'.missing = {} /\ tally'.restored = {}
            BY <2>1 DEF NoTally
        <2>4. /\ (\A i \in DOMAIN live : live[i] = Described(live[i].exe, TRUE, TRUE))'
              /\ \A w \in Windows :
                    CanBePlaced(w)' => \E i \in DOMAIN Candidates' : Candidates'[i].exe = w
            BY <1>2, ReadingIsTrue
        <2>5. Listed(seen)'
            BY <1>2, <2>1 DEF Listed
        <2> QED
            BY <2>1, <2>2, <2>3, <2>4, <2>5 DEF Undisturbed
    <1>b. CASE ReadAll \/ ReadFewer
        <2>1. Listed(mons)
            BY DEF Listed
        <2> QED
            BY <1>2, <1>b, <2>1, FewerOK DEF ReadAll, ReadFewer
    <1>3. CASE Overwrite
        BY <1>3 DEF Overwrite
    <1>4. CASE ChooseRestore
        <2>1. /\ phase = "chosen" /\ phase' = "restore" /\ tally' = NoTally /\ call' = "placement"
              /\ UNCHANGED <<mons, desk, entries, minimizeOthers, seen, live, disturbed>>
            BY <1>4 DEF ChooseRestore, Progress
        <2> QED
            BY <2>1, MatchingKept DEF Undisturbed, NoTally, CanBePlaced, Listed
    <1>5. ASSUME NEW w \in Windows, MinimizeWindow(w) PROVE Undisturbed'
        <2>1. /\ phase = "restore" /\ phase' = "restore" /\ at = 1 /\ call' = "placement"
              /\ UNCHANGED <<mons, entries, minimizeOthers, seen, live, tally, disturbed>>
            BY <1>5 DEF MinimizeWindow, Progress
        <2>2. tally.missing = {} /\ tally.restored = {}
            BY <2>1 DEF CountedOnce, Counters
        <2>3. \A v \in Windows : desk'[v].open = desk[v].open /\ desk'[v].norm = desk[v].norm
            BY <1>0, <1>5 DEF MinimizeWindow, Desks, WindowState
        <2> QED
            BY <2>1, <2>2, <2>3, MatchingKept DEF Undisturbed, CanBePlaced, Listed
    <1>6. CASE PassOver
        <2>1. /\ AtEntry /\ phase' = "restore" /\ call' = "placement"
              /\ UNCHANGED <<mons, desk, entries, minimizeOthers, seen, live, disturbed>>
            BY <1>6 DEF PassOver, AtEntry, Count
        <2>2. tally'.restored = tally.restored
            BY <1>6, CountOK DEF PassOver
        <2>3. ASSUME NEW k \in tally'.missing PROVE IsMissing(k)'
            <3>1. CASE k \in tally.missing
                BY <2>1, <3>1 DEF Undisturbed, IsMissing, CanBePlaced, AtEntry
            <3>2. CASE k \notin tally.missing
                <4>1. k = at /\ ~Matches(at)
                    BY <1>6, <3>2, CountOK DEF PassOver
                <4>2. Entry.exe \in Windows
                    BY <2>1, PlacementOK DEF WindowEntry
                <4>3. IsMissing(at)
                    BY <2>1, <4>1, <4>2 DEF Undisturbed, IsMissing, Matches, Entry, AtEntry
                <4> QED
                    BY <2>1, <4>1, <4>3 DEF IsMissing, CanBePlaced
            <3> QED
                BY <3>1, <3>2
        <2> QED
            BY <2>1, <2>2, <2>3, MatchingKept
            DEF Undisturbed, CanBePlaced, WhereSaved, AtEntry, Listed
    <1>7. ASSUME AtEntry, Matches(at),
                 \A w \in Windows : w # Entry.exe => desk'[w] = desk[w],
                 UNCHANGED <<mons, layout, seen, live, phase, disturbed>>,
                 tally'.missing = tally.missing,
                 \/ tally'.restored = tally.restored
                 \/ /\ tally'.restored = tally.restored \cup {now}
                    /\ WhereSaved(now)'
                    /\ desk'[entries'[now].exe].topmost = entries'[now].topmost,
                 call' = "position" => (desk[Entry.exe].state = Entry.state /\ Entry.state = "normal")',
                 call' = "topmost" => WhereSaved(at)'
          PROVE  Undisturbed'
        <2>1. /\ phase = "restore" /\ ~disturbed
            BY <1>7 DEF AtEntry
        <2>2. ASSUME NEW w \in Windows, CanBePlaced(w)'
              PROVE  \E i \in DOMAIN Candidates' : Candidates'[i].exe = w
            <3>1. CASE w = Entry.exe
                BY <1>7, <3>1, MatchingKept DEF Matches, Entry
            <3>2. CASE w # Entry.exe
                BY <1>7, <2>1, <2>2, <3>2, MatchingKept DEF Undisturbed, CanBePlaced
            <3> QED
                BY <3>1, <3>2
        <2>3. \A k \in tally'.missing : IsMissing(k)'
            BY <1>7, <2>1, OthersKept DEF Undisturbed
        <2>4. \A k \in tally.restored :
                  WhereSaved(k)' /\ desk'[entries'[k].exe].topmost = entries'[k].topmost
            BY <1>7, <2>1, OthersKept DEF Undisturbed
        <2>5. \A k \in tally'.restored :
                  WhereSaved(k)' /\ desk'[entries'[k].exe].topmost = entries'[k].topmost
            BY <1>7, <2>4
        <2>6. Listed(seen)' /\ phase' = "restore"
            BY <1>7, <2>1 DEF Undisturbed, Listed
        <2> QED
            BY <1>7, <2>2, <2>3, <2>5, <2>6 DEF Undisturbed
    <1>8. CASE SetWindowPlacement
        <2>1. AtEntry /\ Matches(at)
              /\ UNCHANGED <<mons, layout, seen, live, phase, disturbed, at, tally>>
            BY <1>8 DEF SetWindowPlacement, Calls
        <2>2. Entry \in WindowEntry
            BY <2>1, PlacementOK
        <2> DEFINE norm == Clamped(Entry.rect, seen)
        <2>3. /\ desk' = [desk EXCEPT ![Entry.exe].norm = norm,
                                      ![Entry.exe].state = Entry.state,
                                      ![Entry.exe].pos = Shown(Entry.state, norm)]
              /\ call' = IF Entry.state = "normal" THEN "position" ELSE "topmost"
            BY <1>8 DEF SetWindowPlacement
        <2> HIDE DEF norm
        <2>4. /\ desk'[Entry.exe].state = Entry.state /\ desk'[Entry.exe].norm = norm
              /\ \A w \in Windows : w # Entry.exe => desk'[w] = desk[w]
            BY <1>0, <2>2, <2>3 DEF Desks, WindowState, WindowEntry
        <2>5. call' = "topmost" => WhereSaved(at)'
            BY <2>1, <2>3, <2>4 DEF WhereSaved, Entry, norm
        <2>6. call' = "position" =>
                  (desk[Entry.exe].state = Entry.state /\ Entry.state = "normal")'
            BY <2>1, <2>3, <2>4 DEF Entry
        <2> QED
            BY <1>7, <2>1, <2>4, <2>5, <2>6
    <1>9. CASE SetWindowPos
        <2>1. AtEntry /\ Matches(at) /\ call = "position" /\ call' = "topmost"
              /\ UNCHANGED <<mons, layout, seen, live, phase, disturbed, at, tally>>
            BY <1>9 DEF SetWindowPos, Calls
        <2>2. Entry \in WindowEntry
            BY <2>1, PlacementOK
        <2>3. desk[Entry.exe].state = Entry.state /\ Entry.state = "normal"
            BY <2>1 DEF Undisturbed, AtEntry
        <2>4. /\ desk'[Entry.exe].state = desk[Entry.exe].state
              /\ desk'[Entry.exe].pos = Position
              /\ \A w \in Windows : w # Entry.exe => desk'[w] = desk[w]
            BY <1>0, <1>9, <2>2 DEF SetWindowPos, Desks, WindowState, WindowEntry
        <2>5. WhereSaved(at)'
            BY <2>1, <2>3, <2>4, PositionIsClamped DEF WhereSaved, Entry
        <2> QED
            BY <1>7, <2>1, <2>4, <2>5
    <1>10. CASE SetTopmost
        <2>1. AtEntry /\ Matches(at) /\ call = "topmost" /\ call' = "placement"
              /\ UNCHANGED <<mons, layout, seen, live, phase, disturbed>>
            BY <1>10, CountOK DEF SetTopmost, Calls
        <2>2. Entry \in WindowEntry
            BY <2>1, PlacementOK
        <2>3. WhereSaved(at)
            BY <2>1 DEF Undisturbed, AtEntry
        <2>4. /\ desk'[Entry.exe].state = desk[Entry.exe].state
              /\ desk'[Entry.exe].pos = desk[Entry.exe].pos
              /\ desk'[Entry.exe].norm = desk[Entry.exe].norm
              /\ desk'[Entry.exe].topmost = Entry.topmost
              /\ \A w \in Windows : w # Entry.exe => desk'[w] = desk[w]
            BY <1>0, <1>10, <2>2 DEF SetTopmost, Desks, WindowState, WindowEntry
        <2>5. tally'.missing = tally.missing /\ tally'.restored = tally.restored \cup {at}
            BY <1>10, CountOK DEF SetTopmost
        <2>6. entries[now] = Entry
            BY <1>a DEF Entry
        <2>7. desk'[entries'[now].exe].topmost = entries'[now].topmost
            BY <2>1, <2>4, <2>6
        <2>8. WhereSaved(now)
            BY <1>a, <2>3
        <2>9. WhereSaved(now)'
            BY <2>1, <2>4, <2>6, <2>8 DEF WhereSaved
        <2> QED
            BY <1>7, <1>a, <2>1, <2>4, <2>5, <2>7, <2>9
    <1>11. CASE CallFails
        <2>1. AtEntry /\ Matches(at) /\ call' = "placement"
              /\ UNCHANGED <<mons, desk, layout, seen, live, phase, disturbed>>
            BY <1>11, CountOK DEF CallFails, Calls
        <2>2. tally'.missing = tally.missing /\ tally'.restored = tally.restored
            BY <1>11, CountOK DEF CallFails
        <2> QED
            BY <1>7, <2>1, <2>2
    <1>12. CASE Return
        <2>1. /\ phase = "restore" /\ phase' = "done" /\ call = "placement"
              /\ UNCHANGED <<mons, desk, entries, seen, tally, call, disturbed>>
            BY <1>0, <1>12 DEF Return, Progress, TypeInv
        <2> QED
            BY <2>1 DEF Undisturbed, IsMissing, CanBePlaced, WhereSaved, Listed
    <1>13. CASE UNCHANGED vars
        BY <1>13, MatchingKept
        DEF vars, Undisturbed, IsMissing, CanBePlaced, WhereSaved, Described, Entry, Listed
    <1> QED
        BY <1>1, <1>b, <1>3, <1>4, <1>5, <1>6, <1>8, <1>9, <1>10, <1>11, <1>12, <1>13
        DEF Next, RestoreStep

(***************************************************************************)
(* Entries that Overwrite captured undisturbed are the desktop as it was.  *)
(***************************************************************************)
IsCapture ==
    kept # <<>> =>
        \A k \in DOMAIN entries :
            LET e   == entries[k]
                was == kept[e.exe]
            IN  /\ e.rect = was.norm /\ e.screen = was.pos
                /\ e.state = was.state /\ e.topmost = was.topmost

LEMMA CaptureNext == TypeInv /\ Undisturbed /\ IsCapture /\ [Next]_vars => IsCapture'
    <1> SUFFICES ASSUME TypeInv, Undisturbed, IsCapture, [Next]_vars PROVE IsCapture'
        OBVIOUS
    <1> USE DEF layout, reading, history
    <1>1. ASSUME UNCHANGED <<entries, kept>> PROVE IsCapture'
        BY <1>1 DEF IsCapture
    <1>2. CASE Overwrite
        <2> SUFFICES ASSUME ~disturbed, NEW k \in DOMAIN Capture
                     PROVE  LET e   == Capture[k]
                                was == desk[e.exe]
                            IN  /\ e.rect = was.norm /\ e.screen = was.pos
                                /\ e.state = was.state /\ e.topmost = was.topmost
            BY <1>2 DEF Overwrite, IsCapture
        <2>1. PICK i \in DOMAIN live : Capture[k] = AsEntry(live[i])
            BY CaptureOK
        <2>2. live[i] = Described(live[i].exe, TRUE, TRUE)
            BY <1>2 DEF Overwrite, Undisturbed
        <2> DEFINE w == live[i].exe
        <2>3. live[i] = Described(w, TRUE, TRUE)
            BY <2>2
        <2> HIDE DEF w
        <2> QED
            BY <2>1, <2>3 DEF AsEntry, Described
    <1>3. CASE Next /\ ~Overwrite
        <2>1. UNCHANGED <<entries, kept>>
            BY <1>3 DEF Next, WorldStep, Closes, Moves, ChangeDisplay, ReadAll, ReadFewer,
               ReadSome, Read,
               ChooseRestore, RestoreStep, MinimizeWindow, PassOver, SetWindowPlacement,
               SetWindowPos, SetTopmost, CallFails, Calls, Return
        <2> QED
            BY <1>1, <2>1
    <1>4. CASE UNCHANGED vars
        BY <1>1, <1>4 DEF vars
    <1> QED
        BY <1>2, <1>3, <1>4

RestoreInv == TypeInv /\ Progress /\ CountedOnce /\ Undisturbed /\ IsCapture

LEMMA RestoreInvariant == Spec => []RestoreInv
    <1>1. Init => RestoreInv
        BY TypeInit, ProgressInit, UndisturbedInit DEF RestoreInv, Init, IsCapture
    <1>2. RestoreInv /\ [Next]_vars => RestoreInv'
        BY TypeNext, ProgressNext, CountedNext, UndisturbedNext, CaptureNext DEF RestoreInv
    <1> QED
        BY <1>1, <1>2, PTL DEF Spec

(***************************************************************************)
(* The balloon counts every entry once, whichever calls fail, and says     *)
(* "nicht offen" only of a window that could not be placed.                *)
(***************************************************************************)
THEOREM AccountedAlways == Spec => []Accounted
    <1>1. RestoreInv => Accounted
        <2> SUFFICES ASSUME RestoreInv, phase = "done" PROVE Accounted
            BY DEF Accounted
        <2>1. /\ at \in Nat \ {0} /\ DOMAIN entries = 1 .. Len(entries)
              /\ at > Len(entries) /\ at <= Len(entries) + 1 /\ Len(entries) \in Nat
            BY DEF RestoreInv, TypeInv, Progress
        <2>2. 1 .. at - 1 = DOMAIN entries
            BY <2>1
        <2>3. /\ \A k \in DOMAIN entries : \E c \in Counters : k \in tally[c]
              /\ \A c \in Counters : tally[c] \subseteq DOMAIN entries
              /\ \A c, d \in Counters : c # d => tally[c] \cap tally[d] = {}
              /\ \A k \in tally.deselected : ~entries[k].include
            BY <2>2 DEF RestoreInv, CountedOnce
        <2>4. /\ Counted[1] = tally.restored /\ Counted[2] = tally.deselected
              /\ Counted[3] = tally.missing /\ Counted[4] = tally.failed
            BY DEF Counted
        <2>5. \A i \in 1 .. 4 : i = 1 \/ i = 2 \/ i = 3 \/ i = 4
            OBVIOUS
        <2>6. UNION {Counted[i] : i \in 1 .. 4} = DOMAIN entries
            <3>1. \A k \in DOMAIN entries : \E i \in 1 .. 4 : k \in Counted[i]
                BY <2>3, <2>4 DEF Counters
            <3>2. \A i \in 1 .. 4 : Counted[i] \subseteq DOMAIN entries
                BY <2>3, <2>4, <2>5 DEF Counters
            <3> QED
                BY <3>1, <3>2
        <2>7. \A i, j \in 1 .. 4 : i # j => Counted[i] \cap Counted[j] = {}
            BY <2>3, <2>4, <2>5 DEF Counters
        <2>8. ~disturbed => \A k \in tally.missing : IsMissing(k)
            BY DEF RestoreInv, Undisturbed
        <2> QED
            BY <2>3, <2>6, <2>7, <2>8 DEF Accounted, IsMissing
    <1> QED
        BY RestoreInvariant, <1>1, PTL

(***************************************************************************)
(* What the balloon calls restored is where the layout says, as corrected  *)
(* for the monitors that were read, and a normal window is in reach.       *)
(***************************************************************************)
THEOREM PlacedAlways == Spec => []Placed
    <1>1. ASSUME RestoreInv, phase = "done", ~disturbed, NEW k \in tally.restored,
                 entries[k].state = "normal", seen # <<>>
          PROVE  Reached(desk[entries[k].exe].pos, mons)
        <2> DEFINE e == entries[k]
                   r == IF Given(e.screen) THEN e.screen ELSE e.rect
        <2>1. k \in DOMAIN entries
            BY <1>1 DEF RestoreInv, CountedOnce, Counters, Progress, TypeInv
        <2>2. e \in WindowEntry /\ seen \in Seq(Monitor)
            BY <2>1, <1>1 DEF RestoreInv, TypeInv
        <2>3. r \in Rect /\ Given(r)
            BY <2>2 DEF WindowEntry
        <2>4. desk[e.exe].pos = Clamped(r, seen) /\ Listed(seen)
            BY <1>1 DEF RestoreInv, Undisturbed, WhereSaved
        <2> HIDE DEF r, e
        <2>5. Reached(Clamped(r, seen), seen)
            BY <1>1, <2>2, <2>3, ClampedIsReached
        <2>6. Reached(Clamped(r, seen), mons)
            BY <2>4, <2>5 DEF Reached, Listed
        <2> QED
            BY <2>4, <2>6 DEF e
    <1>2. RestoreInv => Placed
        BY <1>1 DEF RestoreInv, Undisturbed, WhereSaved, Placed, Result
    <1> QED
        BY RestoreInvariant, <1>2, PTL

(***************************************************************************)
(* A layout brings back the desktop it was captured from, but for what     *)
(* Clamp does not find on a monitor that was read.                         *)
(***************************************************************************)
THEOREM BringsBackAlways == Spec => []BringsBack
    <1>1. RestoreInv => BringsBack
        <2> SUFFICES ASSUME RestoreInv, phase = "done", ~disturbed, kept # <<>>,
                            NEW k \in tally.restored
                     PROVE  BroughtBack(kept[entries[k].exe], desk[entries[k].exe])
            BY DEF BringsBack
        <2>1. k \in DOMAIN entries
            BY DEF RestoreInv, CountedOnce, Counters, Progress, TypeInv
        <2>2. entries[k] \in WindowEntry /\ seen \in Seq(Monitor)
            BY <2>1 DEF RestoreInv, TypeInv
        <2>3. /\ WhereSaved(k) /\ desk[entries[k].exe].topmost = entries[k].topmost
            BY DEF RestoreInv, Undisturbed
        <2> DEFINE e   == entries[k]
                   was == kept[e.exe]
                   is  == desk[e.exe]
        <2>4. /\ e.rect = was.norm /\ e.screen = was.pos
              /\ e.state = was.state /\ e.topmost = was.topmost
            BY <2>1 DEF RestoreInv, IsCapture
        <2>5. /\ is.state = e.state /\ is.topmost = e.topmost
              /\ e.state = "normal" =>
                    is.pos = Clamped(IF Given(e.screen) THEN e.screen ELSE e.rect, seen)
              /\ e.state # "normal" => is.norm = Clamped(e.rect, seen)
            BY <2>3 DEF WhereSaved
        <2>6. e.rect \in Rect /\ e.screen \in Rect
            BY <2>2 DEF WindowEntry
        <2> HIDE DEF e
        <2>7. ASSUME Fits(was.pos), Reached(was.pos, seen), e.state = "normal"
              PROVE  is.pos = was.pos
            <3>1. Given(e.screen)
                <4>1. PICK m \in {seen[i] : i \in DOMAIN seen} : \E px \in Pixels(m) : Covers(e.screen, px)
                    BY <2>4, <2>7 DEF Reached
                <4>2. PICK px \in Pixels(m) : Covers(e.screen, px)
                    BY <4>1
                <4>3. /\ e.screen.x \in Int /\ e.screen.w \in Int
                      /\ e.screen.y \in Int /\ e.screen.h \in Int
                    BY <2>6, Integers DEF Rect
                <4>4. \A a, n \in Int : \A x \in a .. a + n - 1 : n > 0
                    OBVIOUS
                <4> QED
                    BY <4>2, <4>3, <4>4 DEF Covers, Given
            <3> QED
                BY <2>2, <2>4, <2>5, <2>6, <2>7, <3>1, ReachedIsKept
        <2>8. ASSUME Fits(was.norm), Reached(was.norm, seen), e.state # "normal"
              PROVE  is.norm = was.norm
            BY <2>2, <2>4, <2>5, <2>6, <2>8, ReachedIsKept
        <2> QED
            BY <2>4, <2>5, <2>7, <2>8 DEF BroughtBack, Found, e
    <1> QED
        BY RestoreInvariant, <1>1, PTL
=============================================================================
