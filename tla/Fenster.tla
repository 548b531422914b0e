------------------------------- MODULE Fenster -------------------------------
(***************************************************************************)
(* The program: cmd/fenster/main.go on the message loops of                *)
(* internal/win32, composed with the hotkey manager and the layout file.   *)
(*                                                                         *)
(* One thread runs everything.  It only lets other events in while it      *)
(* waits in a message loop: the main one, or the nested one of an open     *)
(* menu or dialog.  A stack frame stands for each handler that waits in a  *)
(* nested loop, with what it read before it began to wait.  What a handler *)
(* does between two waits is one step, except that every call it makes to  *)
(* the hotkey manager is carried out step by step (module HotkeyManager).  *)
(*                                                                         *)
(* A save is one step here: module StoreFile shows that it is, to          *)
(* everybody who looks at the file.                                        *)
(***************************************************************************)
EXTENDS Store, HotkeySelect

CONSTANTS
    LayoutId, Name,
    Setup,          \* monitor fingerprints; also stands for the monitors
    NoSetup,        \* the empty fingerprint
    None,           \* no layout
    InitialFiles,   \* what layouts.json holds when fenster is first started
    \* bounds
    MaxLayouts, MaxPosted, MaxEdits, MaxChanges, MaxPresses, MaxOthers,
    MaxKills, MaxStarts, MaxSaveFails, MaxFaults

Layout == [id : LayoutId, setup : Setup, hotkey : Text, name : Name,
           ticked : BOOLEAN]

\* store.File: the layouts and the option, whose key may be absent.
File == [layouts : Seq(Layout), minimizeOthers : {"absent", "on", "off"}]

ASSUME FensterAssumption ==
    /\ None \notin Layout
    /\ NoSetup \notin Setup
    /\ InitialFiles \subseteq File
    /\ {MaxLayouts, MaxPosted, MaxEdits, MaxChanges, MaxPresses, MaxOthers,
        MaxKills, MaxStarts, MaxSaveFails, MaxFaults} \subseteq Nat

VARIABLES
    \* the hotkey manager and Windows' hotkey table
    registered, unavailable, probeReleasePending, pc, layouts, fingerprint,
    releasing, todo, nextId, was, newly, asked, held, foreign, alive, faults,
    \* the UI thread
    up,             \* the process runs
    stack,          \* handlers waiting in a nested message loop, innermost last
    busy,           \* application.busy
    then,           \* what follows the call to the manager in progress
    quit,           \* WM_QUIT is set for the thread
    icon,           \* the tray icon is shown
    \* messages under way to the message window
    posted,         \* WM_HOTKEY and WM_CLOSE, in the order they were posted
    displayMsg,     \* a WM_DISPLAYCHANGE that has not been delivered
    \* the world
    mons,           \* the monitors that are connected
    memory, disk,   \* store.File in memory and in layouts.json
    restored,       \* the restore the last step made, if it made one
    \* what is left of the bounds
    left

manager == <<registered, unavailable, probeReleasePending, pc, layouts,
             fingerprint, releasing, todo, nextId, was, newly, asked, held,
             foreign, alive, faults>>
thread  == <<up, stack, busy, then, quit, icon>>
mail    == <<posted, displayMsg>>
files   == <<memory, disk>>
vars    == <<manager, thread, mail, mons, files, restored, left>>

HM == INSTANCE HotkeyManager WITH Setup <- Setup \cup {NoSetup}, LayoutLists <- {}

-----------------------------------------------------------------------------
\* Bounded events: one of kind k happens.
Uses(k) == left[k] > 0 /\ left' = [left EXCEPT ![k] = @ - 1]

\* The thread is in a message loop, and not in the middle of a handler.
Waiting == up /\ HM!Idle /\ then = "nothing"

Frame(at, l) == [at |-> at, mons |-> mons, l |-> l, keys |-> Zero]
Top == stack[Len(stack)]
Below == Front(stack)

\* The user acts on the innermost menu or dialog.  Input is retrieved after
\* WM_QUIT, so none arrives any more once the window is destroyed.
UserAt(at) == Waiting /\ ~quit /\ stack # <<>> /\ Top.at = at

-----------------------------------------------------------------------------
\* Mutant of SyncHotkeys: an action uses the monitors it was given.
SyncHotkeysWithGiven(ls, next) ==
    /\ then' = next
    /\ \/ HM!CallSync(ls, IF stack = <<>> THEN mons ELSE Top.mons)
       \/ HM!OtherCallFails

(***************************************************************************)
(* syncHotkeys: ask for the monitors and sync, or leave the registrations  *)
(* alone when the monitors cannot be listed.  It ends every action but     *)
(* "Beenden" (dispatch).  ls is what the store holds by then, and next     *)
(* says what the handler does after it.                                    *)
(***************************************************************************)
SyncHotkeys(ls, next) ==
    /\ then' = next
    /\ \/ HM!CallSync(ls, mons)
       \/ HM!OtherCallFails

\* The handler's wait is over and it went on without changing the store.
EndAction ==
    /\ SyncHotkeys(memory.layouts, "return")
    /\ restored' = None
    /\ UNCHANGED <<up, stack, busy, quit, icon, mail, mons, files, left>>

(***************************************************************************)
(* A mutation of the store, its Save, and what the handler does to the     *)
(* store in memory when Save fails, followed by the sync.                  *)
(***************************************************************************)
Mutate(new, undone, next) ==
    /\ \/ /\ memory' = new
          /\ disk' = new
          /\ Uses("edits")
          /\ SyncHotkeys(new.layouts, next)
       \/ /\ memory' = undone
          /\ Uses("saveFails")
          /\ SyncHotkeys(undone.layouts, "return")
          /\ UNCHANGED disk
    /\ restored' = None
    /\ UNCHANGED <<up, stack, busy, quit, icon, mail, mons>>

MutateLayouts(new, undone, next) ==
    Mutate([memory EXCEPT !.layouts = new], [memory EXCEPT !.layouts = undone], next)

(***************************************************************************)
(* showMenuOnce up to the wait: read the monitors and the windows, show    *)
(* the menu, or report the failure and give up.                            *)
(***************************************************************************)
ShowMenu(below) ==
    /\ \/ /\ stack' = Append(below, Frame("menu", None))
          /\ busy' = TRUE
          /\ UNCHANGED manager
       \/ /\ HM!OtherCallFails
          /\ stack' = below
          /\ busy' = FALSE
    /\ then' = "nothing"
    /\ restored' = None
    /\ UNCHANGED <<up, quit, icon, mail, mons, files, left>>

\* Mutant of TrayClick: no guard against re-entry.
TrayClickAnytime == Waiting /\ alive /\ ~quit /\ ShowMenu(stack)

\* onTrayClick.  A click while busy is dropped.
TrayClick ==
    /\ Waiting
    /\ alive
    /\ ~quit
    /\ ~busy
    /\ ShowMenu(stack)

\* The menu is dismissed: nothing is dispatched.
Dismiss ==
    /\ UserAt("menu")
    /\ stack' = Below
    /\ busy' = FALSE
    /\ restored' = None
    /\ UNCHANGED <<manager, up, then, quit, icon, mail, mons, files, left>>

\* The menu closes and the chosen action opens a dialog about layout l.
OpenDialog(at, l) ==
    /\ UserAt("menu")
    /\ stack' = Append(Below, [Top EXCEPT !.at = at, !.l = l])
    /\ restored' = None
    /\ UNCHANGED <<manager, up, busy, then, quit, icon, mail, mons, files, left>>

ChooseSave == OpenDialog("save", None)
ChooseDialog(at, id) ==
    /\ id \in Ids(memory.layouts)
    /\ OpenDialog(at, Get(memory.layouts, id))

(***************************************************************************)
(* actionRestore places the windows of the layout on the monitors it was   *)
(* given; the sync of dispatch follows when it was chosen from the menu.   *)
(***************************************************************************)
Restore(id, onMons, keys) ==
    restored' = IF id \in Ids(memory.layouts)
                THEN [l |-> Get(memory.layouts, id), mons |-> onMons, keys |-> keys]
                ELSE None

ChooseRestore(id) ==
    /\ UserAt("menu")
    /\ id \in Ids(memory.layouts)
    /\ Restore(id, Top.mons, Zero)
    /\ SyncHotkeys(memory.layouts, "return")
    /\ UNCHANGED <<up, stack, busy, quit, icon, mail, mons, files, left>>

ChooseToggleInclude(id) ==
    LET ls      == memory.layouts
        current == Get(ls, id).ticked
        new     == SetInclude(ls, id, ~current)
    IN  /\ UserAt("menu")
        /\ id \in Ids(ls)
        /\ MutateLayouts(new, SetInclude(new, id, current), "reopen")

ChooseOverwrite(id) ==
    LET ls  == memory.layouts
        old == Get(ls, id)
        new == Replace(ls, id, [old EXCEPT !.setup = Top.mons, !.ticked = TRUE])
    IN  /\ UserAt("menu")
        /\ id \in Ids(ls)
        /\ MutateLayouts(new, Replace(new, id, old), "return")

\* MinimizeOthers and SetMinimizeOthers: an absent key means on, and what is
\* written is never absent.
MinimizesOthers(f) == f.minimizeOthers # "off"
WithMinimizeOthers(f, on) == [f EXCEPT !.minimizeOthers = IF on THEN "on" ELSE "off"]

ChooseMinimizeOthers ==
    LET new == WithMinimizeOthers(memory, ~MinimizesOthers(memory))
    IN  /\ UserAt("menu")
        /\ Mutate(new, WithMinimizeOthers(new, MinimizesOthers(memory)), "reopen")

\* "Mit Windows starten" and "Speicherort öffnen" change no state modelled here.
ChooseOther == UserAt("menu") /\ EndAction

\* "Beenden" posts WM_CLOSE and is the one action with no sync.
ChooseQuit ==
    /\ UserAt("menu")
    /\ Len(posted) < MaxPosted
    /\ stack' = Below
    /\ busy' = FALSE
    /\ posted' = Append(posted, [msg |-> "close"])
    /\ restored' = None
    /\ UNCHANGED <<manager, up, then, quit, icon, displayMsg, mons, files, left>>

-----------------------------------------------------------------------------
(***************************************************************************)
(* The dialogs.                                                            *)
(***************************************************************************)
\* Cancelled, or confirmed with something that changes nothing.
Cancel(at) == UserAt(at) /\ EndAction

\* actionSave: the setup is the one read before the menu was shown.
ConfirmSave(id, name) ==
    LET ls  == memory.layouts
        l   == [id |-> id, setup |-> Top.mons, hotkey |-> Canonical[Zero],
                name |-> name, ticked |-> TRUE]
        new == Add(ls, l)
    IN  /\ UserAt("save")
        /\ Len(ls) < MaxLayouts
        /\ id \notin Ids(ls)
        /\ MutateLayouts(new, Delete(new, id), "return")

ConfirmRename(name) ==
    LET ls  == memory.layouts
        old == Top.l
        new == Replace(ls, old.id, [old EXCEPT !.name = name])
    IN  /\ UserAt("rename")
        /\ name # old.name
        /\ MutateLayouts(new, Replace(new, old.id, old), "return")

ConfirmDelete ==
    LET ls    == memory.layouts
        new   == Delete(ls, Top.l.id)
    IN  /\ UserAt("delete")
        /\ MutateLayouts(new, RestoreOrder(new, ls), "return")

(***************************************************************************)
(* The hotkey dialog records the combination last pressed.  A combination  *)
(* somebody has registered never reaches it: Windows hands the press to    *)
(* its owner.  Zero stands for a press that is no valid combination.       *)
(***************************************************************************)
CaptureKeys(c) ==
    /\ UserAt("hotkey")
    /\ c # Top.keys
    /\ c = Zero \/ ~HM!Taken(c)
    /\ stack' = Append(Below, [Top EXCEPT !.keys = c])
    /\ restored' = None
    /\ UNCHANGED <<manager, up, busy, then, quit, icon, mail, mons, files, left>>

\* actionHotkey writes hk and saves.
WriteHotkey(hk) ==
    LET old == Top.l
        new == Replace(memory.layouts, old.id, [old EXCEPT !.hotkey = Canonical[hk]])
    IN  MutateLayouts(new, Replace(new, old.id, old), "return")

Current(l) == IF Parse[l.hotkey] = Invalid THEN Zero ELSE Parse[l.hotkey]

NoChange(hk) == hk = Current(Top.l) /\ Canonical[hk] = Top.l.hotkey

Conflict(hk) == Conflicts(memory.layouts, Top.l.setup, hk, Top.l.id) # {}

\* A combination is confirmed, and refused or found to change nothing.
HotkeyDone(hk) == (NoChange(hk) \/ Conflict(hk)) /\ EndAction

\* The monitors cannot be listed, so nobody knows whether to probe.
HotkeyFails(hk) ==
    /\ ~NoChange(hk)
    /\ ~Conflict(hk)
    /\ HM!OtherCallFails
    /\ then' = "finish"
    /\ restored' = None
    /\ UNCHANGED <<up, stack, busy, quit, icon, mail, mons, files, left>>

\* The layout's setup is in use: Windows is asked first.
HotkeyProbes(hk) ==
    /\ ~NoChange(hk)
    /\ ~Conflict(hk)
    /\ hk # Zero
    /\ Top.l.setup = mons
    /\ left.edits > 0      \* bound: the assignment must still be possible
    /\ HM!CallProbe(hk)
    /\ then' = "probed"
    /\ restored' = None
    /\ UNCHANGED <<up, stack, busy, quit, icon, mail, mons, files, left>>

\* The binding is cleared, or its setup is not in use.
HotkeyWrites(hk) ==
    /\ ~NoChange(hk)
    /\ ~Conflict(hk)
    /\ hk = Zero \/ Top.l.setup # mons
    /\ WriteHotkey(hk)

ConfirmHotkey(hk) ==
    /\ UserAt("hotkey")
    /\ hk \in {Zero, Top.keys}
    /\ HotkeyDone(hk) \/ HotkeyFails(hk) \/ HotkeyProbes(hk) \/ HotkeyWrites(hk)

\* The probe has answered: go on, or report what it said.
ProbeAnswers ==
    /\ then = "probed"
    /\ HM!ProbeReturns
    /\ then' = IF pc = "granted" THEN "assign" ELSE "finish"
    /\ restored' = None
    /\ UNCHANGED <<up, stack, busy, quit, icon, mail, mons, files, left>>

Assign == up /\ then = "assign" /\ HM!Idle /\ WriteHotkey(Top.keys)
Finish == up /\ then = "finish" /\ HM!Idle /\ EndAction

-----------------------------------------------------------------------------
\* Mutant of DeliverDisplayChange: it respects busy like the other handlers.
DeliverDisplayChangeIfFree ==
    /\ Waiting
    /\ alive
    /\ displayMsg
    /\ displayMsg' = FALSE
    /\ \/ ~busy /\ SyncHotkeys(memory.layouts, "resume")
       \/ busy /\ UNCHANGED <<manager, then>>
    /\ restored' = None
    /\ UNCHANGED <<up, stack, busy, quit, icon, posted, mons, files, left>>

(***************************************************************************)
(* Messages to the message window.  Every loop on the thread delivers      *)
(* them, whatever handler waits in it.                                     *)
(***************************************************************************)
\* onDisplayChange ignores busy.
DeliverDisplayChange ==
    /\ Waiting
    /\ alive
    /\ displayMsg
    /\ displayMsg' = FALSE
    /\ SyncHotkeys(memory.layouts, "resume")
    /\ restored' = None
    /\ UNCHANGED <<up, stack, busy, quit, icon, posted, mons, files, left>>

\* Mutant of DeliverHotkey: no guard against re-entry.
DeliverHotkeyAnytime ==
    /\ Waiting
    /\ posted # <<>>
    /\ Head(posted).msg = "hotkey"
    /\ posted' = Tail(posted)
    /\ IF Head(posted).id \in DOMAIN registered
       THEN Restore(registered[Head(posted).id], mons, Head(posted).keys)
       ELSE restored' = None
    /\ UNCHANGED <<manager, thread, displayMsg, mons, files, left>>

\* onHotkey: dropped while busy; otherwise the layout registered under the id
\* is restored, on the monitors connected now.
DeliverHotkey ==
    /\ Waiting
    /\ posted # <<>>
    /\ Head(posted).msg = "hotkey"
    /\ posted' = Tail(posted)
    /\ \/ /\ IF ~busy /\ Head(posted).id \in DOMAIN registered
             THEN Restore(registered[Head(posted).id], mons, Head(posted).keys)
             ELSE restored' = None
          /\ UNCHANGED manager
       \/ /\ ~busy /\ Head(posted).id \in DOMAIN registered
          /\ HM!OtherCallFails
          /\ restored' = None
    /\ UNCHANGED <<thread, displayMsg, mons, files, left>>

\* WM_CLOSE destroys the window; WM_DESTROY posts WM_QUIT.  What was still
\* under way to the window is lost.
DeliverClose ==
    /\ Waiting
    /\ posted # <<>>
    /\ Head(posted).msg = "close"
    /\ HM!DestroyWindow
    /\ quit' = TRUE
    /\ posted' = <<>>
    /\ displayMsg' = FALSE
    /\ restored' = None
    /\ UNCHANGED <<up, stack, busy, then, icon, mons, files, left>>

\* WM_QUIT ends the innermost loop, which sets it again for the next.  A menu
\* returns no choice; a dialog returns "cancelled" to its action, which goes
\* on to the sync of dispatch.
QuitLeavesMenu ==
    /\ Waiting
    /\ quit
    /\ stack # <<>> /\ Top.at = "menu"
    /\ stack' = Below
    /\ busy' = FALSE
    /\ restored' = None
    /\ UNCHANGED <<manager, up, then, quit, icon, mail, mons, files, left>>

\* Mutant of QuitLeavesDialog: the dialog does not set WM_QUIT again.
QuitSwallowed ==
    /\ Waiting
    /\ quit
    /\ stack # <<>> /\ Top.at # "menu"
    /\ quit' = FALSE
    /\ SyncHotkeys(memory.layouts, "return")
    /\ restored' = None
    /\ UNCHANGED <<up, stack, busy, icon, mail, mons, files, left>>

QuitLeavesDialog ==
    /\ Waiting
    /\ quit
    /\ stack # <<>> /\ Top.at # "menu"
    /\ EndAction

\* WM_QUIT ends Run; the deferred cleanup of main begins.
QuitLeavesRun ==
    /\ Waiting
    /\ quit
    /\ stack = <<>>
    /\ HM!CallSync(<<>>, NoSetup)
    /\ then' = "exit"
    /\ restored' = None
    /\ UNCHANGED <<up, stack, busy, quit, icon, mail, mons, files, left>>

-----------------------------------------------------------------------------
(***************************************************************************)
(* The handler goes on after a call to the manager.                        *)
(***************************************************************************)
ManagerStep ==
    /\ up
    /\ pc \notin {"granted", "inUse", "failed"}
    /\ HM!Step
    /\ restored' = None
    /\ UNCHANGED <<thread, mail, mons, files, left>>

\* onDisplayChange, or main before Run, is done.
Resume ==
    /\ up /\ HM!Idle
    /\ then = "resume"
    /\ then' = "nothing"
    /\ restored' = None
    /\ UNCHANGED <<manager, up, stack, busy, quit, icon, mail, mons, files, left>>

\* dispatch returns FALSE: the handler is done.
Return ==
    /\ up /\ HM!Idle
    /\ then = "return"
    /\ then' = "nothing"
    /\ stack' = Below
    /\ busy' = FALSE
    /\ restored' = None
    /\ UNCHANGED <<manager, up, quit, icon, mail, mons, files, left>>

\* dispatch returns TRUE after a checkbox: the menu is built anew.
Reopen ==
    /\ up /\ HM!Idle
    /\ then = "reopen"
    /\ ShowMenu(Below)

\* The deferred cleanup is done: the icon is removed and main returns.
Exit ==
    /\ then = "exit"
    /\ HM!Idle
    /\ HM!ProcessEnds
    /\ up' = FALSE
    /\ icon' = FALSE
    /\ then' = "nothing"
    /\ quit' = FALSE
    /\ restored' = None
    /\ UNCHANGED <<stack, busy, mail, mons, files, left>>

-----------------------------------------------------------------------------
(***************************************************************************)
(* The world: the user and Windows, at any time.                           *)
(***************************************************************************)
\* The process is killed: its icon stays, its messages are gone.
Kill ==
    /\ up
    /\ Uses("kills")
    /\ HM!ProcessEnds
    /\ up' = FALSE
    /\ stack' = <<>>
    /\ busy' = FALSE
    /\ then' = "nothing"
    /\ quit' = FALSE
    /\ posted' = <<>>
    /\ displayMsg' = FALSE
    /\ restored' = None
    /\ UNCHANGED <<icon, mons, files>>

\* main up to Run: Load, the message window, the icon; the first sync is next.
Start ==
    /\ ~up
    /\ Uses("starts")
    /\ HM!ProcessStarts
    /\ up' = TRUE
    /\ icon' = TRUE
    /\ then' = "start"
    /\ memory' = disk
    /\ restored' = None
    /\ UNCHANGED <<stack, busy, quit, mail, mons, disk>>

FirstSync ==
    /\ up /\ HM!Idle
    /\ then = "start"
    /\ SyncHotkeys(memory.layouts, "resume")
    /\ restored' = None
    /\ UNCHANGED <<up, stack, busy, quit, icon, mail, mons, files, left>>

\* The display arrangement changes (or only looks as if it did); the window is told later.
ChangeDisplay(f) ==
    /\ Uses("changes")
    /\ mons' = f
    /\ displayMsg' = alive
    /\ restored' = None
    /\ UNCHANGED <<manager, thread, posted, files>>

\* The user presses a combination this process holds.
Press(r) ==
    /\ Uses("presses")
    /\ Len(posted) < MaxPosted
    /\ posted' = Append(posted, [msg |-> "hotkey", id |-> r[1], keys |-> r[2]])
    /\ restored' = None
    /\ UNCHANGED <<manager, thread, displayMsg, mons, files>>

\* `fenster -quit` posts WM_CLOSE from another process.
SignalQuit ==
    /\ alive
    /\ Len(posted) < MaxPosted
    /\ posted' = Append(posted, [msg |-> "close"])
    /\ restored' = None
    /\ UNCHANGED <<manager, thread, displayMsg, mons, files, left>>

OtherApplication ==
    /\ Uses("others")
    /\ \E c \in Combo : HM!ForeignRegister(c) \/ HM!ForeignUnregister(c)
    /\ restored' = None
    /\ UNCHANGED <<thread, mail, mons, files>>

-----------------------------------------------------------------------------
Init ==
    /\ HM!Init
    /\ fingerprint = NoSetup
    /\ up = TRUE
    /\ stack = <<>>
    /\ busy = FALSE
    /\ then = "start"
    /\ quit = FALSE
    /\ icon = TRUE
    /\ posted = <<>>
    /\ displayMsg = FALSE
    /\ mons \in Setup
    /\ memory \in InitialFiles
    /\ disk = memory
    /\ restored = None
    /\ left = [edits |-> MaxEdits, changes |-> MaxChanges, presses |-> MaxPresses,
               others |-> MaxOthers, kills |-> MaxKills, starts |-> MaxStarts,
               saveFails |-> MaxSaveFails]

\* What the user does with an open menu or dialog.
UserStep ==
    \/ TrayClick \/ Dismiss
    \/ ChooseSave \/ ChooseMinimizeOthers \/ ChooseOther \/ ChooseQuit
    \/ \E id \in LayoutId :
          \/ \E at \in {"rename", "hotkey", "delete"} : ChooseDialog(at, id)
          \/ ChooseRestore(id)
          \/ ChooseToggleInclude(id)
          \/ ChooseOverwrite(id)
          \/ \E name \in Name : ConfirmSave(id, name)
    \/ \E at \in {"save", "rename", "hotkey", "delete"} : Cancel(at)
    \/ \E name \in Name : ConfirmRename(name)
    \/ \E c \in Combo \cup {Zero} : CaptureKeys(c)
    \/ \E hk \in Combo \cup {Zero} : ConfirmHotkey(hk)
    \/ ConfirmDelete

\* What the thread does by itself.
ThreadStep ==
    \/ ManagerStep
    \/ ProbeAnswers \/ Assign \/ Finish
    \/ Resume \/ Return \/ Reopen \/ Exit \/ FirstSync
    \/ DeliverDisplayChange \/ DeliverHotkey \/ DeliverClose
    \/ QuitLeavesMenu \/ QuitLeavesDialog \/ QuitLeavesRun

WorldStep ==
    \/ \E f \in Setup : ChangeDisplay(f)
    \/ \E r \in held : Press(r)
    \/ SignalQuit
    \/ OtherApplication
    \/ Kill
    \/ Start

Next == UserStep \/ ThreadStep \/ WorldStep

Spec == Init /\ [][Next]_vars

(***************************************************************************)
(* What the thread does by itself it goes on doing; and a message loop     *)
(* retrieves messages in the order they were sent or posted and before     *)
(* any input, so a user who keeps clicking cannot keep one away.           *)
(***************************************************************************)
FairSpec ==
    /\ Spec
    /\ WF_vars(ThreadStep)
    /\ SF_vars(DeliverDisplayChange)
    /\ SF_vars(DeliverHotkey)
    /\ SF_vars(DeliverClose)

-----------------------------------------------------------------------------
(***************************************************************************)
(* One handler at a time: no second menu or dialog opens on top of the     *)
(* first, and no hotkey moves windows behind an open one, although every   *)
(* nested loop delivers tray clicks and hotkeys (application.busy).        *)
(***************************************************************************)
FromHotkey(r) == r # None /\ r.keys # Zero

OneModal ==
    /\ Len(stack) <= 1
    /\ FromHotkey(restored) => stack = <<>>

(***************************************************************************)
(* "The in-memory store stays consistent with what is actually on disk":   *)
(* a failed save is undone exactly, to the order of the layouts.  An       *)
(* absent option and one that is on mean the same.                         *)
(***************************************************************************)
MemoryMatchesDisk ==
    up => /\ memory.layouts = disk.layouts
          /\ MinimizesOthers(memory) = MinimizesOthers(disk)

(***************************************************************************)
(* No update is lost: a dialog that waits for the user holds the layout it *)
(* is about as the store has it, so that writing the copy back changes     *)
(* only what the user asked for (actionRename, actionHotkey, actionDelete  *)
(* read before the wait and write after it).  And the monitors a menu or   *)
(* dialog will file a layout under are those of a setup, also if they      *)
(* could not be listed at some time.                                       *)
(***************************************************************************)
SnapshotIsCurrent ==
    Waiting => \A k \in DOMAIN stack :
        LET l == stack[k].l
        IN  /\ stack[k].mons \in Setup
            /\ l # None =>
                  l.id \in Ids(memory.layouts) /\ Get(memory.layouts, l.id) = l

(***************************************************************************)
(* Whenever the thread waits and has heard of every change of the          *)
(* monitors, the combinations Windows has for it are those of the stored   *)
(* layouts of the setup in use, each under the id of its own layout, minus *)
(* those marked unavailable in the menu.  Holds through edits, rollbacks   *)
(* and display changes while a dialog is open, as long as no call fails.   *)
(***************************************************************************)
UpToDate == Waiting /\ alive /\ ~displayMsg /\ HM!NoFault

Wanted == {<<memory.layouts[i].id, Parse[memory.layouts[i].hotkey]>> :
              i \in Active(memory.layouts, mons)}

HotkeysFollowSetup ==
    UpToDate =>
        /\ {r[1] : r \in held} = DOMAIN registered
        /\ {<<registered[r[1]], r[2]>> : r \in held}
              = {w \in Wanted : w[1] \notin unavailable}
        /\ unavailable \subseteq {w[1] : w \in Wanted}

(***************************************************************************)
(* A change of the monitors is followed by registrations for the monitors  *)
(* there are then, whatever is open and whatever the user does with it,    *)
(* unless the program ends or a call fails.                                *)
(***************************************************************************)
Registers(f) == HM!Idle /\ fingerprint = f /\ layouts = memory.layouts

FollowsDisplay ==
    \A f \in Setup :
        up /\ alive /\ mons = f
            ~> Registers(f) \/ mons # f \/ ~alive \/ ~HM!NoFault

(***************************************************************************)
(* WM_CLOSE ends the program from anywhere, through every nested loop, and *)
(* its icon goes with it; only a killed process leaves its icon behind.    *)
(***************************************************************************)
Closing == \E k \in DOMAIN posted : posted[k].msg = "close"

CloseEnds == Closing ~> ~up /\ (icon => left.kills < MaxKills)

-----------------------------------------------------------------------------
(***************************************************************************)
(* What the design says of the program, and its code does not do.          *)
(*                                                                         *)
(* A hotkey restores the layout its keys are bound to.  The ids are said   *)
(* to need no stability, "nothing outside a sync holds one": a WM_HOTKEY   *)
(* on its way does.                                                        *)
(***************************************************************************)
PressRestoresItsLayout ==
    FromHotkey(restored) => Parse[restored.l.hotkey] = restored.keys
=============================================================================
