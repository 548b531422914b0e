----------------------------- MODULE Fingerprint -----------------------------
(***************************************************************************)
(* internal/monitors/fingerprint.go: which arrangements of monitors count  *)
(* as one setup.  The hash of the canonical string is taken to tell any    *)
(* two of them apart, and coordinates are plain integers.                  *)
(***************************************************************************)
EXTENDS Integers, Sequences, Functions

Monitor == [x : Int, y : Int, w : Int, h : Int, scale : Int, primary : BOOLEAN,
            work : STRING]
Setup   == Seq([x : Int, y : Int, w : Int, h : Int, scale : Int, primary : BOOLEAN])

\* The total order of normalize.  FALSE sorts before TRUE.
Key(m) == <<m.y, m.x, m.w, m.h, m.scale, IF m.primary THEN 1 ELSE 0>>

Less(m, n) ==
    \E i \in 1 .. 6 :
        /\ Key(m)[i] < Key(n)[i]
        /\ \A j \in 1 .. i - 1 : Key(m)[j] = Key(n)[j]

\* The first primary monitor, or else the first of all.
Origin(sorted) ==
    LET Primaries == {k \in DOMAIN sorted : sorted[k].primary}
    IN  IF Primaries = {} THEN sorted[1]
        ELSE sorted[CHOOSE k \in Primaries : \A l \in Primaries : k <= l]

Relative(list) ==
    LET origin == Origin(list)
    IN  [k \in DOMAIN list |-> [list[k] EXCEPT !.x = @ - origin.x, !.y = @ - origin.y]]

\* Mutant of Normalize: the monitors stay in the order Windows lists them.
NormalizeUnsorted(ms) == IF ms = <<>> THEN <<>> ELSE Relative(ms)

\* sort.Slice, which keeps no order among equals.
Sorted(ms) ==
    LET order == CHOOSE p \in Bijection(DOMAIN ms, DOMAIN ms) :
                     \A i, j \in DOMAIN ms : i < j => ~Less(ms[p[j]], ms[p[i]])
    IN  [k \in DOMAIN ms |-> ms[order[k]]]

Normalize(ms) == IF ms = <<>> THEN <<>> ELSE Relative(Sorted(ms))

\* canonical leaves the work area out.
Canon(m) == [x |-> m.x, y |-> m.y, w |-> m.w, h |-> m.h, scale |-> m.scale,
             primary |-> m.primary]

FingerprintOf(ms) ==
    LET normalized == Normalize(ms)
    IN  [k \in DOMAIN ms |-> Canon(normalized[k])]

(***************************************************************************)
(* The reference: two arrangements are the same if one can be moved onto   *)
(* the other, monitor by monitor, whatever the order they are listed in.   *)
(***************************************************************************)
Alike(m, n) == m.w = n.w /\ m.h = n.h /\ m.scale = n.scale /\ m.primary = n.primary

Same(ms, ns) ==
    /\ DOMAIN ms = DOMAIN ns
    /\ \E p \in Bijection(DOMAIN ms, DOMAIN ms) : \A i, j \in DOMAIN ms :
          /\ Alike(ms[i], ns[p[i]])
          /\ ms[i].x - ms[j].x = ns[p[i]].x - ns[p[j]].x
          /\ ms[i].y - ms[j].y = ns[p[i]].y - ns[p[j]].y
=============================================================================
