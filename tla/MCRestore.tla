------------------------------ MODULE MCRestore ------------------------------
(***************************************************************************)
(* A small instance of Restore with integers of four bits: one entry with  *)
(* rectangles all over their range, smaller and larger than every monitor; *)
(* or a layout of two windows, among a window it does not name and one of  *)
(* fenster's own, in every state, snapped and not, ticked and not; or two  *)
(* entries for one window.                                                 *)
(* Monitors come with a taskbar at the bottom or the top.                  *)
(***************************************************************************)
EXTENDS Restore, TLC

R(x, y, w, h) == [x |-> x, y |-> y, w |-> w, h |-> h]
M(r, work) == [x |-> r.x, y |-> r.y, w |-> r.w, h |-> r.h, work |-> work]

MCAway == R(-8, -8, 1, 1)

MCMonitorLists ==
    {<<M(R(0, 0, 4, 3), R(0, 0, 4, 2))>>,
     <<M(R(0, 0, 4, 3), NoRect)>>,
     <<M(R(-3, -2, 3, 4), R(-2, -2, 2, 4)), M(R(0, 0, 4, 3), R(0, 0, 4, 2))>>,
     <<M(R(0, 0, 4, 3), R(0, 1, 4, 2)), M(R(-3, -2, 3, 2), NoRect)>>}

Spot(norm, pos, state, topmost) ==
    [norm |-> norm, pos |-> pos, state |-> state, topmost |-> topmost]

Snapped   == Spot(R(1, 0, 2, 1), R(0, 0, 2, 2), "normal", FALSE)
Left      == Spot(R(-3, -2, 2, 1), R(-3, -2, 2, 1), "normal", TRUE)
Minimized == Spot(R(2, 1, 1, 1), MCAway, "minimized", FALSE)
Maximized == Spot(R(0, 0, 2, 1), R(0, 0, 4, 2), "maximized", FALSE)
MCSpots   == {Snapped, Left, Minimized, Maximized}

On(spot, open) ==
    [open |-> open, norm |-> spot.norm, pos |-> spot.pos, state |-> spot.state,
     topmost |-> spot.topmost]

Entries(exes, rects, screens, includes) ==
    [exe : exes, rect : rects, screen : screens, state : {"normal"}, topmost : {FALSE},
     include : includes]

WideRects ==
    {R(x, y, w, h) : x \in -8 .. 7, y \in {-8, -7, -4, -2, 0, 1, 2, 7},
                     w \in {1, 2, 7}, h \in {1, 3, 7}}

Wide == {<<e>> : e \in Entries({1}, WideRects, {NoRect}, {TRUE})}

Few(exe, includes) ==
    Entries({exe}, {R(1, 0, 2, 1)}, {NoRect, R(-3, -2, 2, 1)}, includes)

\* Two windows, or two entries for one: the second is not open.
Pairs == {<<d, e>> : d \in Few(1, BOOLEAN), e \in Few(2, {TRUE})}
Twice == {<<d, e>> : d, e \in Few(1, {TRUE})}

Scenario(l, s, t, option, b) ==
    [entries |-> l, minimizeOthers |-> option, budget |-> b,
     desk |-> [w \in Windows |-> On(CASE w = 1 -> s [] w = 2 -> t [] OTHER -> Maximized,
                                    b > 0 \/ w = 1)]]

MCScenarios ==
    {Scenario(l, Snapped, Snapped, FALSE, 0) : l \in Wide}
    \cup {Scenario(l, s, t, option, 1) : l \in Pairs \cup Twice, s \in {Snapped, Maximized}, t \in {Left, Minimized},
                                         option \in BOOLEAN}
=============================================================================
