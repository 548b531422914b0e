------------------------------- MODULE Restore -------------------------------
(***************************************************************************)
(* A layout and the desktop: what actionRestore does to the windows, call  *)
(* by call, and what EnumWindowsInfo and Capture read of them, while the   *)
(* user moves and closes windows, calls fail, and the monitors change.     *)
(*                                                                         *)
(* Every window here has an executable of its own, named by the window, so *)
(* that MatchEntries is a look-up; which window an entry gets otherwise is *)
(* the business of Matching.                                               *)
(***************************************************************************)
EXTENDS Clamp

CONSTANTS
    NWindows,        \* a window is its number in the order EnumWindows lists them
    Never,           \* the windows that are never eligible: fenster's, the shell's
    Scenarios,       \* what to begin with: desk, entries, option, budget
    Spots,           \* where the user may put a window: norm, pos, state, topmost
    MonitorLists,    \* what EnumMonitors may return
    Away             \* where Windows keeps minimized windows

Windows == 1 .. NWindows

Rect  == [x : Integer, y : Integer, w : Integer, h : Integer]
State == {"normal", "minimized", "maximized"}

Given(r) == r.w > 0 /\ r.h > 0

\* Windows describes what is on the screen by its edges, which are integers.
Fits(r) == r.x + r.w \in Integer /\ r.y + r.h \in Integer

Inside(r, area) ==
    /\ r.x >= area.x /\ r.x + r.w <= area.x + area.w
    /\ r.y >= area.y /\ r.y + r.h <= area.y + area.h

Monitor ==
    {m \in [x : Integer, y : Integer, w : Integer, h : Integer, work : Rect] :
        Given(m) /\ Fits(m) /\ (Given(m.work) => Inside(m.work, m))}

WindowState ==
    [open : BOOLEAN, norm : Rect, pos : Rect, state : State, topmost : BOOLEAN]

\* What Capture may have saved, on this setup or another.
WindowEntry ==
    [exe : Windows, rect : {r \in Rect : Given(r)}, screen : Rect, state : State,
     topmost : BOOLEAN, include : BOOLEAN]

\* The primary monitor is at the origin.
ASSUME RestoreAssumption ==
    /\ NWindows \in Nat
    /\ Never \subseteq Windows
    /\ Away \in Rect
    /\ \A ms \in MonitorLists :
          ms \in Seq(Monitor) /\ \E k \in DOMAIN ms : ms[k].x = 0 /\ ms[k].y = 0
    /\ \A spot \in Spots :
          spot \in [norm : Rect, pos : Rect, state : State, topmost : BOOLEAN]
    /\ \A s \in Scenarios :
          /\ s.desk \in [Windows -> WindowState]
          /\ s.entries \in Seq(WindowEntry)
          /\ s.minimizeOthers \in BOOLEAN
          /\ s.budget \in Nat

VARIABLES
    mons,      \* the monitors there are
    desk,      \* the windows: open, norm (workspace), pos (screen), state, topmost
    entries,   \* the layout
    minimizeOthers,
    seen,      \* the monitors read for the action in progress: of those there are
    live,      \* the windows read for it
    phase,     \* where it is
    extra,     \* the windows still to be minimized
    at, call,  \* the entry being placed, and the call to Windows that is next
    tally,     \* the entries that the counts of the balloon count
    budget,    \* bound: the failing calls, moves, and display changes to come
    disturbed, \* history: a window or the monitors changed since the reading,
               \* or a window was not read whole
    kept       \* history: the desktop as Overwrite captured it, or none

vars    == <<mons, desk, entries, minimizeOthers, seen, live, phase, extra, at, call,
             tally, budget, disturbed, kept>>
layout  == <<entries, minimizeOthers>>
reading == <<seen, live>>
history == <<disturbed, kept>>

NoRect == [x |-> 0, y |-> 0, w |-> 0, h |-> 0]

\* The members of s at the given positions, as a loop collects them.
Collect(s, positions) ==
    LET upto[k \in 0 .. Len(s)] ==
            IF k = 0 THEN <<>>
            ELSE IF k \in positions THEN Append(upto[k - 1], s[k])
            ELSE upto[k - 1]
    IN  upto[Len(s)]

\* Workspace coordinates begin at the work area of the primary monitor.
Primary(ms) == ms[CHOOSE k \in DOMAIN ms : ms[k].x = 0 /\ ms[k].y = 0]
Shift(r, d) == [r EXCEPT !.x = Wrap(@ + d * PlacementArea(Primary(mons)).x),
                         !.y = Wrap(@ + d * PlacementArea(Primary(mons)).y)]
ToScreen(r)    == Shift(r, 1)
ToWorkspace(r) == Shift(r, -1)

\* Where Windows shows a window.
Shown(state, norm) ==
    CASE state = "minimized" -> Away
      [] state = "maximized" -> PlacementArea(Nearest(ToScreen(norm), mons))
      [] OTHER               -> ToScreen(norm)

-----------------------------------------------------------------------------
(* describeWindow, toLive, Eligible and Capture.                           *)

\* The two rectangles may each be refused.
Described(w, hasScreen, hasPlacement) ==
    LET d == desk[w]
    IN  [exe |-> w, topmost |-> d.topmost,
         screen |-> IF hasScreen THEN d.pos ELSE NoRect,
         rect   |-> IF hasPlacement THEN d.norm ELSE IF hasScreen THEN d.pos ELSE NoRect,
         state  |-> IF hasPlacement THEN d.state ELSE "normal"]

Eligible(i) == i.exe \notin Never /\ Given(i.rect)

Candidates == Collect(live, {i \in DOMAIN live : Eligible(live[i])})

\* Capture ticks every window.
AsEntry(i) == [exe |-> i.exe, rect |-> i.rect, screen |-> i.screen, state |-> i.state,
               topmost |-> i.topmost, include |-> TRUE]

Capture == [k \in DOMAIN Candidates |-> AsEntry(Candidates[k])]

\* The first entry of an executable gets its window.
Matches(k) ==
    /\ \E i \in DOMAIN Candidates : Candidates[i].exe = entries[k].exe
    /\ \A j \in 1 .. k - 1 : entries[j].exe # entries[k].exe

\* Mutant of Unmatched: a window counts as accounted for only if it is ticked.
UnmatchedTicked ==
    {i \in DOMAIN Candidates :
        \A k \in DOMAIN entries : entries[k].exe = Candidates[i].exe => ~entries[k].include}

\* An unticked entry accounts for its window, too.
Unmatched ==
    {i \in DOMAIN Candidates :
        \A k \in DOMAIN entries : entries[k].exe # Candidates[i].exe}

ToMinimize ==
    IF ~minimizeOthers THEN {}
    ELSE {Candidates[i].exe : i \in {j \in Unmatched : Candidates[j].state # "minimized"}}

-----------------------------------------------------------------------------
(* What happens in the world.                                              *)

Idle    == phase \in {"idle", "done"}
Restart == phase' = IF Idle THEN "idle" ELSE phase
Event   == budget > 0 /\ budget' = budget - 1

Moves(w, spot) ==
    /\ desk[w].open
    /\ Event
    /\ desk' = [desk EXCEPT ![w] = [open |-> TRUE, norm |-> spot.norm, pos |-> spot.pos,
                                     state |-> spot.state, topmost |-> spot.topmost]]
    /\ disturbed' = TRUE
    /\ Restart
    /\ UNCHANGED <<mons, layout, reading, extra, at, call, tally, kept>>

Closes(w) ==
    /\ desk[w].open
    /\ Event
    /\ desk' = [desk EXCEPT ![w].open = FALSE]
    /\ disturbed' = TRUE
    /\ Restart
    /\ UNCHANGED <<mons, layout, reading, extra, at, call, tally, kept>>

ChangeDisplay(ms) ==
    /\ ms # mons
    /\ Event
    /\ mons' = ms
    /\ disturbed' = TRUE
    /\ Restart
    /\ UNCHANGED <<desk, layout, reading, extra, at, call, tally, kept>>

-----------------------------------------------------------------------------
(* The menu opens, or a hotkey is pressed: monitors and windows are read.  *)

NoTally == [restored |-> {}, deselected |-> {}, missing |-> {}, failed |-> {}]

Open == Collect([w \in Windows |-> w], {w \in Windows : desk[w].open})

Read(monitors, fault, hasScreen, hasPlacement) ==
    /\ Idle
    /\ seen' = monitors
    /\ live' = [k \in DOMAIN Open |->
                   IF Open[k] = fault THEN Described(fault, hasScreen, hasPlacement)
                   ELSE Described(Open[k], TRUE, TRUE)]
    /\ phase' = "chosen"
    /\ tally' = NoTally
    /\ at' = 1
    /\ UNCHANGED <<mons, desk, layout, extra, call, kept>>

ReadAll == Read(mons, 0, TRUE, TRUE) /\ disturbed' = FALSE /\ UNCHANGED budget

\* EnumMonitors leaves out what GetMonitorInfo refuses, and reports no error.
ReadFewer ==
    /\ Event
    /\ disturbed' = FALSE
    /\ \E positions \in SUBSET DOMAIN mons :
          /\ positions # DOMAIN mons
          /\ Read(Collect(mons, positions), 0, TRUE, TRUE)

ReadSome ==
    /\ Event
    /\ disturbed' = TRUE
    /\ \E w \in Windows, hasScreen, hasPlacement \in BOOLEAN :
          /\ ~(hasScreen /\ hasPlacement)
          /\ Read(mons, w, hasScreen, hasPlacement)

\* actionOverwrite
Overwrite ==
    /\ phase = "chosen"
    /\ entries' = Capture
    /\ kept' = IF disturbed THEN <<>> ELSE desk
    /\ phase' = "idle"
    /\ live' = <<>>
    /\ UNCHANGED <<mons, desk, minimizeOthers, seen, extra, at, call, tally, budget,
                   disturbed>>

\* MatchEntries and windowsToMinimize
ChooseRestore ==
    /\ phase = "chosen"
    /\ phase' = "restore"
    /\ extra' = ToMinimize
    /\ UNCHANGED <<mons, desk, layout, reading, at, call, tally, budget, history>>

MinimizeWindow(w) ==
    /\ phase = "restore"
    /\ w \in extra
    /\ extra' = extra \ {w}
    /\ desk' = IF desk[w].open
               THEN [desk EXCEPT ![w].state = "minimized", ![w].pos = Away]
               ELSE desk
    /\ UNCHANGED <<mons, layout, reading, phase, at, call, tally, budget, history>>

-----------------------------------------------------------------------------
(* The entries in turn.                                                    *)

Entry == entries[at]

AtEntry == phase = "restore" /\ extra = {} /\ at <= Len(entries)

Count(what) ==
    /\ tally' = [tally EXCEPT ![what] = @ \cup {at}]
    /\ at' = at + 1
    /\ call' = "placement"

\* Mutant of PassOver: an unticked entry is skipped as if it were not open.
PassOverSkipped ==
    /\ AtEntry
    /\ ~Matches(at) \/ ~Entry.include
    /\ Count("missing")
    /\ UNCHANGED <<mons, desk, layout, reading, phase, extra, budget, history>>

PassOver ==
    /\ AtEntry
    /\ \/ ~Matches(at) /\ Count("missing")
       \/ Matches(at) /\ ~Entry.include /\ Count("deselected")
    /\ UNCHANGED <<mons, desk, layout, reading, phase, extra, budget, history>>

\* clampEntry leaves an absent rectangle absent.
ClampedScreen(r) == IF Given(r) THEN Clamped(r, seen) ELSE r

Calls(name) ==
    /\ AtEntry
    /\ Matches(at)
    /\ Entry.include
    /\ call = name
    /\ UNCHANGED <<mons, layout, reading, phase, extra, history>>

Succeeds == desk[Entry.exe].open /\ UNCHANGED budget

\* Mutant of SetWindowPlacement: every window is positioned afterwards.
SetWindowPlacementFirst ==
    /\ Calls("placement")
    /\ Succeeds
    /\ LET norm == Clamped(Entry.rect, seen)
       IN  desk' = [desk EXCEPT ![Entry.exe].norm = norm,
                                ![Entry.exe].state = Entry.state,
                                ![Entry.exe].pos = Shown(Entry.state, norm)]
    /\ call' = "position"
    /\ UNCHANGED <<at, tally>>

SetWindowPlacement ==
    /\ Calls("placement")
    /\ Succeeds
    /\ LET norm == Clamped(Entry.rect, seen)
       IN  desk' = [desk EXCEPT ![Entry.exe].norm = norm,
                                ![Entry.exe].state = Entry.state,
                                ![Entry.exe].pos = Shown(Entry.state, norm)]
    /\ call' = IF Entry.state = "normal" THEN "position" ELSE "topmost"
    /\ UNCHANGED <<at, tally>>

\* Mutant of Position: the snapped rectangle is not used.
PositionPlain == Clamped(Entry.rect, seen)

Position ==
    IF Given(ClampedScreen(Entry.screen)) THEN ClampedScreen(Entry.screen)
    ELSE Clamped(Entry.rect, seen)

SetWindowPos ==
    /\ Calls("position")
    /\ Succeeds
    /\ desk' = [desk EXCEPT ![Entry.exe].pos = Position,
                            ![Entry.exe].norm = ToWorkspace(Position)]
    /\ call' = "topmost"
    /\ UNCHANGED <<at, tally>>

SetTopmost ==
    /\ Calls("topmost")
    /\ Succeeds
    /\ desk' = [desk EXCEPT ![Entry.exe].topmost = Entry.topmost]
    /\ Count("restored")

\* A call fails for want of the window, or for no reason; the entries after
\* this one are placed all the same.
CallFails ==
    /\ Calls(call)
    /\ IF desk[Entry.exe].open THEN Event ELSE UNCHANGED budget
    /\ Count("failed")
    /\ UNCHANGED desk

Return ==
    /\ phase = "restore"
    /\ extra = {}
    /\ at > Len(entries)
    /\ phase' = "done"
    /\ live' = <<>>
    /\ UNCHANGED <<mons, desk, layout, seen, extra, at, call, tally, budget, history>>

-----------------------------------------------------------------------------
Init ==
    /\ mons \in MonitorLists
    /\ \E s \in Scenarios :
          /\ desk = s.desk /\ entries = s.entries
          /\ minimizeOthers = s.minimizeOthers /\ budget = s.budget
    /\ seen = mons /\ live = <<>>
    /\ phase = "idle" /\ extra = {} /\ at = 1 /\ call = "placement"
    /\ tally = NoTally
    /\ disturbed = FALSE /\ kept = <<>>

WorldStep ==
    \/ \E w \in Windows : Closes(w) \/ \E spot \in Spots : Moves(w, spot)
    \/ \E ms \in MonitorLists : ChangeDisplay(ms)

RestoreStep ==
    \/ \E w \in Windows : MinimizeWindow(w)
    \/ PassOver \/ SetWindowPlacement \/ SetWindowPos \/ SetTopmost \/ CallFails \/ Return

Next ==
    \/ WorldStep \/ ReadAll \/ ReadFewer \/ ReadSome
    \/ Overwrite \/ ChooseRestore \/ RestoreStep

Spec == Init /\ [][Next]_vars

-----------------------------------------------------------------------------
(***************************************************************************)
(* The reference: a rectangle is a set of pixels, in unbounded integers.   *)
(***************************************************************************)
Covers(r, px) == px[1] \in r.x .. r.x + r.w - 1 /\ px[2] \in r.y .. r.y + r.h - 1

Pixels(m) == (m.x .. m.x + m.w - 1) \X (m.y .. m.y + m.h - 1)

Reached(r, ms) == \E k \in DOMAIN ms : \E px \in Pixels(ms[k]) : Covers(r, px)

\* The rectangles of the layout, and what a restore makes of one.
Saved     == {entries[k].rect : k \in DOMAIN entries}
                \cup {r \in {entries[k].screen : k \in DOMAIN entries} : Given(r)}
Result(r) == Clamped(r, seen)

\* Clamp finds a rectangle on a monitor that was read.
Found(r)  == Fits(r) /\ Reached(r, seen)

(***************************************************************************)
(* Of rectangles, not of windows: whatever a restore hands to Windows      *)
(* overlaps a monitor that was read, if any was, whatever setup it was     *)
(* saved on, and even if a rectangle edited by hand makes the sums         *)
(* overflow; one that Clamp moves ends up wholly in the work area of a     *)
(* monitor, or on the monitor where the work area is unknown.  Clamp takes *)
(* every rectangle for screen coordinates.  Those of minimized and         *)
(* maximized windows are not; where a window ends up is for Placed to say. *)
(***************************************************************************)
Reachable ==
    seen # <<>> =>
        \A r \in Saved :
            /\ Reached(Result(r), seen)
            /\ Result(r) # r =>
                  \E k \in DOMAIN seen :
                      Inside(Result(r), IF Given(seen[k].work) THEN seen[k].work ELSE seen[k])

(***************************************************************************)
(* Of rectangles, again: one that, read as screen coordinates, overlaps a  *)
(* monitor that was read, if only under the taskbar, is not changed, so    *)
(* that it does not creep when a layout is restored and overwritten with   *)
(* the result again and again.                                             *)
(***************************************************************************)
StaysPut ==
    \A r \in Saved :
        Found(r) => Result(r) = r

(***************************************************************************)
(* A restore leaves alone what it has no business with: ineligible windows,*)
(* the window of an unticked entry ("unticking means leave this window     *)
(* alone") and, unless the option is on, every window the layout does not  *)
(* name.                                                                   *)
(***************************************************************************)
Named(w)  == \E k \in DOMAIN entries : entries[k].exe = w
Ticked(w) == \E k \in DOMAIN entries : entries[k].exe = w /\ entries[k].include

Concerned(w) ==
    /\ \E i \in DOMAIN live : live[i].exe = w
    /\ w \notin Never
    /\ Ticked(w) \/ (minimizeOthers /\ ~Named(w))

Untouched ==
    [][RestoreStep => \A w \in Windows : desk'[w] # desk[w] => Concerned(w)]_vars

(***************************************************************************)
(* The balloon counts every entry once, one that failed half-way does not  *)
(* stop those after it, and "nicht offen" is said only of a window that    *)
(* was not there to be placed, or that an entry before had got.            *)
(***************************************************************************)
Counted == <<tally.restored, tally.deselected, tally.missing, tally.failed>>

CanBePlaced(w) == desk[w].open /\ w \notin Never /\ Given(desk[w].norm)

Accounted ==
    phase = "done" =>
        /\ UNION {Counted[i] : i \in 1 .. 4} = DOMAIN entries
        /\ \A i, j \in 1 .. 4 : i # j => Counted[i] \cap Counted[j] = {}
        /\ ~disturbed => \A k \in tally.missing :
              CanBePlaced(entries[k].exe) => \E j \in 1 .. k - 1 : entries[j].exe = entries[k].exe
        /\ \A k \in tally.deselected : ~entries[k].include

(***************************************************************************)
(* What the balloon calls restored is in the state the layout says and     *)
(* where it says, as Clamp corrects that for the monitors that were read;  *)
(* and a window that comes up normal is never "placed off-screen where the *)
(* user could never reach it", on the monitors there are.  This is so      *)
(* unless the user or the monitors changed since the reading, also if      *)
(* other calls of the same restore failed.  If every monitor is left out   *)
(* of the reading, Clamp corrects nothing.                                 *)
(***************************************************************************)
Placed ==
    phase = "done" /\ ~disturbed =>
        \A k \in tally.restored :
            LET e == entries[k]
                d == desk[e.exe]
            IN  /\ d.state = e.state /\ d.topmost = e.topmost
                /\ IF e.state = "normal"
                   THEN /\ d.pos = Result(IF Given(e.screen) THEN e.screen ELSE e.rect)
                        /\ seen # <<>> => Reached(d.pos, mons)
                   ELSE d.norm = Result(e.rect)

(***************************************************************************)
(* A layout brings back the desktop it was captured from, wherever the     *)
(* user has put the windows since, and on whatever monitors, as far as     *)
(* Clamp finds what was captured on a monitor that was read: snapped       *)
(* windows to where they were seen, not to where Windows would un-snap     *)
(* them to; minimized ones stay minimized, and they and maximized ones     *)
(* have their restored rectangle back.  A window on a monitor that the     *)
(* reading left out is moved, although it was in reach.                    *)
(***************************************************************************)
BroughtBack(was, is) ==
    /\ is.state = was.state /\ is.topmost = was.topmost
    /\ was.state = "normal" /\ Found(was.pos) => is.pos = was.pos
    /\ was.state # "normal" /\ Found(was.norm) => is.norm = was.norm

BringsBack ==
    phase = "done" /\ ~disturbed /\ kept # <<>> =>
        \A k \in tally.restored :
            BroughtBack(kept[entries[k].exe], desk[entries[k].exe])
=============================================================================
