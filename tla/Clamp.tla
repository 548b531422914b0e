-------------------------------- MODULE Clamp --------------------------------
(***************************************************************************)
(* Clamp of internal/layout/clamp.go, with the width of its integers.  A   *)
(* monitor is its rectangle and its work area, which is unknown when empty.*)
(* Restore says what becomes of the windows.                               *)
(***************************************************************************)
EXTENDS Integers, Sequences, FiniteSets

CONSTANT Limit   \* one more than the largest integer, 2^31 in the code

ASSUME ClampAssumption == Limit \in Nat \ {0}

Integer == -Limit .. Limit - 1

\* Integers wrap.
Wrap(n) == ((n + Limit) % (2 * Limit)) - Limit

\* Division rounds towards zero.
Half(n) == IF n >= 0 THEN n \div 2 ELSE -((-n) \div 2)

Overlaps(r, m) ==
    /\ r.x < Wrap(m.x + m.w) /\ Wrap(r.x + r.w) > m.x
    /\ r.y < Wrap(m.y + m.h) /\ Wrap(r.y + r.h) > m.y

\* Mutant of Visible: the taskbar does not count as part of the monitor.
VisibleOffTaskbar(r, ms) == \E k \in DOMAIN ms : Overlaps(r, ms[k].work)

Visible(r, ms) == \E k \in DOMAIN ms : Overlaps(r, ms[k])

PlacementArea(m) ==
    IF m.work.w > 0 /\ m.work.h > 0 THEN m.work
    ELSE [x |-> m.x, y |-> m.y, w |-> m.w, h |-> m.h]

\* The distance of the centres, squared.
Distance(r, m) ==
    LET dx == Wrap(Wrap(r.x + Half(r.w)) - Wrap(m.x + Half(m.w)))
        dy == Wrap(Wrap(r.y + Half(r.h)) - Wrap(m.y + Half(m.h)))
    IN  dx * dx + dy * dy

\* The first of the closest monitors.
Nearest(r, ms) ==
    ms[CHOOSE k \in DOMAIN ms :
          \A l \in DOMAIN ms : \/ Distance(r, ms[k]) < Distance(r, ms[l])
                               \/ Distance(r, ms[k]) = Distance(r, ms[l]) /\ k <= l]

Between(v, lo, hi) == IF v < lo THEN lo ELSE IF v > hi THEN hi ELSE v

SmallerOf(u, v) == IF u > v THEN v ELSE u

\* Mutant of MoveInto: it is moved before it is shrunk.
MoveThenShrink(r, area) ==
    [x |-> Between(r.x, area.x, Wrap(Wrap(area.x + area.w) - r.w)),
     y |-> Between(r.y, area.y, Wrap(Wrap(area.y + area.h) - r.h)),
     w |-> SmallerOf(r.w, area.w),
     h |-> SmallerOf(r.h, area.h)]

MoveInto(r, area) ==
    LET w == SmallerOf(r.w, area.w)
        h == SmallerOf(r.h, area.h)
    IN  [x |-> Between(r.x, area.x, Wrap(Wrap(area.x + area.w) - w)),
         y |-> Between(r.y, area.y, Wrap(Wrap(area.y + area.h) - h)),
         w |-> w,
         h |-> h]

Clamped(r, ms) ==
    IF ms = <<>> \/ Visible(r, ms) THEN r
    ELSE MoveInto(r, PlacementArea(Nearest(r, ms)))
=============================================================================
