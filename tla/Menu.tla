--------------------------------- MODULE Menu ---------------------------------
(***************************************************************************)
(* The tray menu: BuildMenu, FlattenActions and Render of internal/tray,   *)
(* showMenuOnce and dispatch of cmd/fenster/main.go, and the autostart     *)
(* entry.                                                                  *)
(*                                                                         *)
(* The menu is built from what was read a moment before, and Track waits   *)
(* in a message loop: monitors, the registry and other applications change *)
(* while it is open, and a display change is handled then.  The dialogs    *)
(* are Fenster's, the windows Restore's; here an action of the menu does   *)
(* to the store and the registry what it does when the dialog is over.     *)
(***************************************************************************)
EXTENDS Fingerprint, Autostart, HotkeySelect, SequencesExt

CONSTANTS
    LayoutId,
    Arrangements,    \* the lists of monitors there may be
    Names,           \* of layouts: a name is a sequence of what its tabs divide
    LiveLists,       \* what Capture may find on the desktop: executables
    Entries,         \* what others may put into the registry
    InitialLayouts,
    Unknown,         \* no monitors, no fingerprint, no menu
    MaxLayouts, MaxEdits, MaxEvents, MaxFaults   \* bounds

Layout == [id : LayoutId, name : Names, setup : Setup, monitors : Seq(Monitor),
           hotkey : Text, windows : Seq([exe : STRING, include : BOOLEAN])]

\* What the program writes: an id once, and the fingerprint of the monitors.
WellFormed(ls) ==
    /\ ls \in Seq(Layout)
    /\ \A i \in DOMAIN ls : ls[i].setup = FingerprintOf(ls[i].monitors)
    /\ \A i, j \in DOMAIN ls : ls[i].id = ls[j].id => i = j

ASSUME MenuAssumption ==
    /\ {MaxLayouts, MaxEdits, MaxEvents, MaxFaults} \subseteq Nat
    /\ Entries \subseteq Registry
    /\ \A n \in Names : n # <<>>
    /\ Arrangements \subseteq Seq(Monitor) \ {<<>>}
    /\ LiveLists \subseteq Seq(STRING)
    /\ \A ls \in InitialLayouts : WellFormed(ls)
    /\ Unknown \notin Setup

VARIABLES
    mons,            \* the monitors there are
    displayMsg,      \* a WM_DISPLAYCHANGE has not been delivered
    foreign,         \* the combinations of other applications
    registry,
    layouts, minimizeOthers,      \* the store
    registered,      \* the layouts and combinations of the last sync
    unavailable,     \* the layouts it was refused
    synced,          \* history: the fingerprint it was made for
    available,       \* exePath is known
    shown,           \* the MenuInput of the menu, then what is left for its action
    phase, after,    \* where the handler is, and where it goes after its sync
    action,          \* the action chosen
    row,             \* history: the row clicked
    drift,           \* history: what the menu, or the check of a click on the
                     \* autostart box, says of the registry is no longer so
    left             \* what is left of the bounds

world   == <<mons, displayMsg, foreign, registry, drift>>
store   == <<layouts, minimizeOthers>>
manager == <<registered, unavailable, synced>>
choice  == <<shown, action, row>>
vars    == <<world, store, manager, available, choice, phase, after, left>>

Uses(what) == left[what] > 0 /\ left' = [left EXCEPT ![what] = @ - 1]
Event == Uses("events")   \* others act
Fault == Uses("faults")   \* a call fails

Ids(ls) == {ls[i].id : i \in DOMAIN ls}
At(id)  == CHOOSE i \in DOMAIN layouts : layouts[i].id = id

-----------------------------------------------------------------------------
(* BuildMenu.  A label is what its tabs divide.                            *)

\* The first n lists, one after the other.
Joined(lists, n) ==
    LET upTo[k \in 0 .. n] == IF k = 0 THEN <<>> ELSE upTo[k - 1] \o lists[k]
    IN  upTo[n]

NoAction == [type |-> "none"]
Act(type) == [type |-> type]
ActOn(type, id) == [type |-> type, id |-> id]
Toggle(id, k) == [type |-> "toggleInclude", id |-> id, idx |-> k]

Row(label, act) ==
    [label |-> label, separator |-> FALSE, checked |-> FALSE, disabled |-> FALSE,
     action |-> act, children |-> <<>>]
Separator == [Row(<<>>, NoAction) EXCEPT !.separator = TRUE]

HotkeyOf(l) == IF Parse[l.hotkey] \in Combo THEN Parse[l.hotkey] ELSE Zero

\* Mutant of Stripped: a name keeps its tabs.
StrippedNot(name) == name

Stripped(name) == <<name[1]>>

\* hotkeyAccelerator
Accelerator(l, taken) ==
    IF HotkeyOf(l) = Zero THEN <<>> ELSE <<[keys |-> HotkeyOf(l), taken |-> taken]>>

LayoutItem(l, live, current, taken) ==
    LET Window(k) ==
            LET present == \E i \in DOMAIN live : live[i] = l.windows[k].exe
            IN  [Row(<<l.windows[k].exe>>, Toggle(l.id, k)) EXCEPT
                    !.checked = l.windows[k].include, !.disabled = ~present]
        windowRows == [k \in DOMAIN l.windows |-> Window(k)]
        accelerator == IF current THEN Accelerator(l, taken) ELSE <<>>
    IN  [Row(Stripped(l.name) \o accelerator, ActOn("restore", l.id)) EXCEPT
            !.children =
                <<Row(<<"restore">>, ActOn("restore", l.id))>>
                \o (IF windowRows = <<>> THEN <<>> ELSE <<Separator>>)
                \o windowRows
                \o <<Separator, Row(<<"overwrite">>, ActOn("overwrite", l.id)),
                     Row(<<"rename">>, ActOn("rename", l.id)),
                     Row(<<"hotkey">>, ActOn("hotkey", l.id)),
                     Row(<<"delete">>, ActOn("delete", l.id))>>]

BuildMenu(in) ==
    LET setup == FingerprintOf(in.mons)
        Item(l, current) ==
            IF (l.setup = setup) = current
            THEN <<LayoutItem(l, in.live, current, l.id \in in.unavailable)>> ELSE <<>>
        Rows(current) ==
            Joined([k \in DOMAIN in.layouts |-> Item(in.layouts[k], current)],
                   Len(in.layouts))
        matching == Rows(TRUE)
        others   == Rows(FALSE)
    IN  <<Row(<<"save">>, Act("save")), Separator>>
        \o (IF matching # <<>> THEN matching
            ELSE <<[Row(<<"none">>, NoAction) EXCEPT !.disabled = TRUE]>>)
        \o (IF others = <<>> THEN <<>>
            ELSE <<Separator, [Row(<<"others">>, NoAction) EXCEPT !.children = others]>>)
        \o <<Separator,
             [Row(<<"autostart">>, Act("autostart")) EXCEPT
                 !.checked = in.autostartOn /\ available, !.disabled = ~available],
             [Row(<<"minimizeOthers">>, Act("minimizeOthers")) EXCEPT
                 !.checked = in.minimizeOthers],
             Row(<<"openFolder">>, Act("openFolder")),
             Row(<<"quit">>, Act("quit"))>>

-----------------------------------------------------------------------------
(* The two walks that number the rows, from 1.                             *)

\* Mutant of IsActionable: a row that owns a submenu is not left out.
IsActionableOwner(it) == ~it.separator /\ it.action # NoAction

IsActionable(it) == ~it.separator /\ it.action # NoAction /\ it.children = <<>>

\* One list of items, when Below is what the walk does with the submenus.
Flatten(items, Below(_)) ==
    Joined([k \in DOMAIN items |->
        (IF IsActionable(items[k]) THEN <<items[k].action>> ELSE <<>>)
            \o Below(items[k].children)], Len(items))

\* The rows Render gives a command id.
Render(items, Below(_)) ==
    Joined([k \in DOMAIN items |->
        IF items[k].separator THEN <<>>
        ELSE IF items[k].children # <<>> THEN Below(items[k].children)
        ELSE IF IsActionable(items[k]) THEN <<items[k]>> ELSE <<>>], Len(items))

\* The menu is three lists deep.
FlattenActions(items) ==
    LET Nothing(list)    == <<>>
        LayoutMenu(list) == Flatten(list, Nothing)
        Submenu(list)    == Flatten(list, LayoutMenu)
    IN  Flatten(items, Submenu)

Commands(items) ==
    LET Nothing(list)    == <<>>
        LayoutMenu(list) == Render(list, Nothing)
        Submenu(list)    == Render(list, LayoutMenu)
    IN  Render(items, Submenu)

-----------------------------------------------------------------------------
(* EnumMonitors passes over a monitor it gets no information about.        *)

Partial(ms) == {RemoveAt(ms, k) : k \in DOMAIN ms}

\* What a call to it may return; Unknown is an error.
EnumMonitors(r) ==
    \/ r = mons /\ UNCHANGED left
    \/ r \in Partial(mons) \cup {Unknown} /\ Fault

(***************************************************************************)
(* syncHotkeys.  What is not registered because another application has    *)
(* it, or for no reason, is unavailable.  Which calls that takes, and what *)
(* becomes of a release that fails, is HotkeyManager's.                    *)
(***************************************************************************)
Sync(r, refused) ==
    IF r = Unknown
    THEN synced' = Unknown /\ UNCHANGED <<registered, unavailable>>
    ELSE /\ synced' = FingerprintOf(r)
         /\ LET wanted == Active(layouts, FingerprintOf(r))
                lost   == {i \in wanted :
                              \/ Parse[layouts[i].hotkey] \in foreign
                              \/ layouts[i].id \in refused}
            IN  /\ registered' = {<<layouts[i].id, Parse[layouts[i].hotkey]>> :
                                     i \in wanted \ lost}
                /\ unavailable' = {layouts[i].id : i \in lost}

SyncHotkeys ==
    \/ \E r \in {mons, Unknown} \cup Partial(mons) : EnumMonitors(r) /\ Sync(r, {})
    \/ \E id \in LayoutId : Fault /\ Sync(mons, {id})

-----------------------------------------------------------------------------
(* showMenuOnce                                                            *)

\* The menu shows the entry as off when it cannot be read.
ReadAutostart(on) ==
    \/ on = (available /\ Enabled(registry)) /\ drift' = {} /\ UNCHANGED left
    \/ available /\ on = FALSE /\ drift' = {"menu"} /\ Fault

MenuInput(r, live, on) ==
    [mons |-> r, live |-> live, layouts |-> layouts, unavailable |-> unavailable,
     autostartOn |-> on, minimizeOthers |-> minimizeOthers]

ShowMenu ==
    /\ phase \in {"idle", "reopen"}
    /\ \E r \in {mons} \cup Partial(mons), live \in LiveLists, on \in BOOLEAN :
          /\ shown' = MenuInput(r, live, on)
          /\ \/ r = mons /\ ReadAutostart(on)
             \/ /\ r # mons /\ Fault
                /\ on = (available /\ Enabled(registry)) /\ drift' = {}
    /\ phase' = "menu"
    /\ UNCHANGED <<mons, displayMsg, foreign, registry, store, manager, available,
                   action, row, after>>

\* The windows or the monitors cannot be listed.
ShowFails ==
    /\ phase \in {"idle", "reopen"}
    /\ Fault
    /\ phase' = "idle"
    /\ UNCHANGED <<world, store, manager, available, choice, after>>

Close ==
    /\ shown' = Unknown
    /\ action' = NoAction
    /\ row' = NoAction

Dismiss ==
    /\ phase = "menu"
    /\ phase' = "idle"
    /\ Close
    /\ UNCHANGED <<world, store, manager, available, after, left>>

Click ==
    /\ phase = "menu"
    /\ LET items    == BuildMenu(shown)
           commands == Commands(items)
           actions  == FlattenActions(items)
       IN  \E k \in DOMAIN commands :
              /\ ~commands[k].disabled
              /\ row' = commands[k]
              /\ action' = actions[k]
    /\ shown' = [mons |-> shown.mons, live |-> shown.live]
    /\ phase' = "dispatch"
    /\ UNCHANGED <<world, store, manager, available, after, left>>

-----------------------------------------------------------------------------
(* dispatch                                                                *)

Dispatch(type) == phase = "dispatch" /\ action.type = type

Finish(next) ==
    /\ phase' = "sync"
    /\ after' = next
    /\ Close
    /\ UNCHANGED <<mons, displayMsg, foreign, manager, available>>

\* A save that fails is undone.
Mutate(ls, option, next) ==
    /\ UNCHANGED <<registry, drift>>
    /\ \/ layouts' = ls /\ minimizeOthers' = option /\ Uses("edits") /\ Finish(next)
       \/ UNCHANGED store /\ Fault /\ Finish("idle")

Change(id, l) == Mutate([layouts EXCEPT ![At(id)] = l], minimizeOthers, "idle")

\* A dialog is cancelled, or the action is not about the store.
NothingChanges ==
    /\ phase = "dispatch"
    /\ action.type \in {"save", "rename", "hotkey", "delete", "restore", "openFolder"}
    /\ UNCHANGED <<registry, drift, store, left>>
    /\ Finish("idle")

\* Describe
Described(l) == [l EXCEPT !.setup = FingerprintOf(shown.mons), !.monitors = shown.mons]

\* Capture ticks every window.
Captured(l) ==
    [Described(l) EXCEPT
        !.windows = [k \in DOMAIN shown.live |-> [exe |-> shown.live[k], include |-> TRUE]]]

ActionSave(id, name) ==
    /\ Dispatch("save")
    /\ id \notin Ids(layouts)
    /\ Len(layouts) < MaxLayouts
    /\ LET new == [id |-> id, name |-> name, setup |-> Unknown, monitors |-> <<>>,
                   hotkey |-> Canonical[Zero], windows |-> <<>>]
       IN  Mutate(Append(layouts, Captured(new)), minimizeOthers, "idle")

ActionOverwrite ==
    /\ Dispatch("overwrite")
    /\ Change(action.id, Captured(layouts[At(action.id)]))

ActionRename(name) ==
    /\ Dispatch("rename")
    /\ Change(action.id, [layouts[At(action.id)] EXCEPT !.name = name])

ActionHotkey(hk) ==
    LET l == layouts[At(action.id)]
    IN  /\ Dispatch("hotkey")
        /\ Conflicts(layouts, l.setup, hk, l.id) = {}
        /\ hk = Zero \/ l.setup # FingerprintOf(mons) \/ hk \notin foreign
        /\ Change(action.id, [l EXCEPT !.hotkey = Canonical[hk]])

ActionDelete ==
    /\ Dispatch("delete")
    /\ Mutate(RemoveAt(layouts, At(action.id)), minimizeOthers, "idle")

ActionToggleInclude ==
    /\ Dispatch("toggleInclude")
    /\ Mutate([layouts EXCEPT ![At(action.id)].windows[action.idx].include = ~@],
              minimizeOthers, "reopen")

ActionToggleMinimizeOthers ==
    /\ Dispatch("minimizeOthers")
    /\ Mutate(layouts, ~minimizeOthers, "reopen")

(***************************************************************************)
(* actionToggleAutostart asks what there is, and then deletes or sets it,  *)
(* whatever others have written in between.                                *)
(***************************************************************************)
CheckAutostart ==
    /\ Dispatch("autostart")
    /\ phase' = IF Enabled(registry) THEN "disable" ELSE "enable"
    /\ drift' = drift \ {"check"}
    /\ UNCHANGED <<mons, displayMsg, foreign, registry, store, manager, available, choice,
                   after, left>>

CheckFails ==
    /\ Dispatch("autostart")
    /\ Fault
    /\ UNCHANGED <<registry, drift, store>>
    /\ Finish("idle")

DisableAutostart ==
    /\ phase = "disable"
    /\ \/ registry' = Disable(registry) /\ UNCHANGED left
       \/ registry' = registry /\ Fault
    /\ UNCHANGED <<drift, store>>
    /\ Finish("idle")

\* The key may have been created by the time a call fails.
AfterFailure(r) == IF r = NoKey THEN {NoKey, NoValue} ELSE {r}

EnableAutostart ==
    /\ phase = "enable"
    /\ \/ registry' = Enable(registry) /\ UNCHANGED left
       \/ registry' \in AfterFailure(registry) /\ Fault
    /\ UNCHANGED <<drift, store>>
    /\ Finish("idle")

\* Every action but "Beenden" is followed by a sync.
SyncAfter ==
    /\ phase = "sync"
    /\ SyncHotkeys
    /\ phase' = after
    /\ after' = "idle"
    /\ UNCHANGED <<world, store, available, choice>>

ActionQuit ==
    /\ Dispatch("quit")
    /\ phase' = "quit"
    /\ UNCHANGED <<world, store, manager, available, choice, after, left>>

-----------------------------------------------------------------------------
(* What happens meanwhile.                                                 *)

\* The handler is in a message loop.
Waiting == phase \in {"idle", "menu"}

DeliverDisplayChange ==
    /\ displayMsg /\ Waiting
    /\ displayMsg' = FALSE
    /\ SyncHotkeys
    /\ UNCHANGED <<mons, foreign, registry, drift, store, available, choice, phase, after>>

ChangeDisplay(ms) ==
    /\ ms # mons
    /\ Event
    /\ mons' = ms
    /\ displayMsg' = TRUE
    /\ UNCHANGED <<foreign, registry, drift, store, manager, available, choice, phase, after>>

OtherApplication ==
    /\ Event
    /\ \E c \in Combo :
          /\ \A r \in registered : r[2] # c
          /\ foreign' = IF c \in foreign THEN foreign \ {c} ELSE foreign \cup {c}
    /\ UNCHANGED <<mons, displayMsg, registry, drift, store, manager, available, choice,
                   phase, after>>

ChangeRegistry(r) ==
    /\ r # registry
    /\ Event
    /\ registry' = r
    /\ drift' = {"menu", "check"}
    /\ UNCHANGED <<mons, displayMsg, foreign, store, manager, available, choice, phase, after>>

-----------------------------------------------------------------------------
Init ==
    /\ mons \in Arrangements /\ displayMsg = FALSE /\ foreign = {}
    /\ registry = NoKey /\ drift = {}
    /\ layouts \in InitialLayouts /\ minimizeOthers = TRUE
    /\ registered = {} /\ unavailable = {} /\ synced = Unknown
    /\ available \in BOOLEAN
    /\ shown = Unknown /\ action = NoAction /\ row = NoAction
    /\ phase = "sync" /\ after = "idle"     \* main syncs before Run
    /\ left = [edits |-> MaxEdits, events |-> MaxEvents, faults |-> MaxFaults]

Handler ==
    \/ NothingChanges \/ ActionOverwrite \/ ActionDelete \/ ActionToggleInclude
    \/ ActionToggleMinimizeOthers \/ ActionQuit
    \/ CheckAutostart \/ CheckFails \/ DisableAutostart \/ EnableAutostart
    \/ \E name \in Names : ActionRename(name) \/ \E id \in LayoutId : ActionSave(id, name)
    \/ \E hk \in Combo \cup {Zero} : ActionHotkey(hk)

Next ==
    \/ ShowMenu \/ ShowFails \/ Dismiss \/ Click \/ SyncAfter \/ Handler
    \/ DeliverDisplayChange \/ OtherApplication
    \/ \E ms \in Arrangements : ChangeDisplay(ms)
    \/ \E r \in Entries : ChangeRegistry(r)

Spec == Init /\ [][Next]_vars

-----------------------------------------------------------------------------
(***************************************************************************)
(* A click does what the row says: "the ids it wires onto the real Win32   *)
(* menu can never drift from the map", however many rows are submenus,     *)
(* disabled or missing; and what it is about is still in the store.        *)
(***************************************************************************)
RowsAct ==
    phase = "dispatch" =>
        /\ action = row.action
        /\ "id" \in DOMAIN action => action.id \in Ids(layouts)
        /\ action.type = "toggleInclude" =>
              layouts[At(action.id)].windows[action.idx].exe = row.label[1]

(***************************************************************************)
(* A layout stands at the top level if and only if its monitors, moved and *)
(* listed in any order, are those read for the menu, whatever their        *)
(* taskbars; all others are under "Andere Setups".                         *)
(***************************************************************************)
Listed(items) == {items[k].action.id : k \in {j \in DOMAIN items :
                     items[j].children # <<>> /\ items[j].action # NoAction}}

Submenus(items) ==
    UNION {Listed(items[k].children) : k \in {j \in DOMAIN items :
               items[j].children # <<>> /\ items[j].action = NoAction}}

Filed ==
    phase = "menu" =>
        LET items == BuildMenu(shown)
        IN  \A i \in DOMAIN layouts :
              LET l == layouts[i]
              IN  /\ (l.id \in Listed(items)) = Same(l.monitors, shown.mons)
                  /\ (l.id \in Submenus(items)) = ~Same(l.monitors, shown.mons)

(***************************************************************************)
(* "Advertising a key that does nothing would be a lie": when the menu     *)
(* opens on the setup of the last sync, every combination in its right     *)
(* column without "(belegt)" is registered, and every one registered is    *)
(* there.  No tab in a name can forge one.  Of two layouts of the setup    *)
(* with one combination, the second goes with the first, in vain if the    *)
(* first is marked.                                                        *)
(***************************************************************************)
RowsOf(items) == {items[k] : k \in {j \in DOMAIN items : items[j].children # <<>>}}
LayoutRows(items) ==
    {r \in RowsOf(items) \cup UNION {RowsOf(i.children) : i \in RowsOf(items)} :
        r.action # NoAction}

InColumn(items) ==
    {<<r.action.id, r.label[2].keys, r.label[2].taken>> :
        r \in {q \in LayoutRows(items) : Len(q.label) > 1}}

KeysAreLive ==
    [][phase' = "menu" /\ phase # "menu" /\ FingerprintOf(shown'.mons) = synced =>
        LET column == InColumn(BuildMenu(shown'))
        IN  /\ \A r \in registered : <<r[1], r[2], FALSE>> \in column
            /\ \A c \in column :
                  c[3] \/ \E d \in column :
                      d[2] = c[2] /\ (d[3] \/ <<d[1], d[2]>> \in registered)]_vars

(***************************************************************************)
(* A click on a box makes it the opposite of what was shown, also after a  *)
(* failed save and in the reopened menu; the autostart entry, too, unless  *)
(* it changed or could not be read meanwhile.  An entry that starts        *)
(* another program is deleted only if it was written after the check.      *)
(***************************************************************************)
Acting == phase \in {"dispatch", "disable", "enable"}

TicksAreTrue ==
    [][Acting /\ phase' = "sync" =>
        /\ action.type = "toggleInclude" /\ left'.edits # left.edits =>
              layouts' = [layouts EXCEPT
                  ![At(action.id)].windows[action.idx].include = ~row.checked]
        /\ action.type = "minimizeOthers" /\ left'.edits # left.edits =>
              minimizeOthers' = ~row.checked
        /\ registry' # registry /\ "menu" \notin drift /\ registry'.at # "value" =>
              ~row.checked /\ Enabled(registry')
        /\ registry.at = "entry" /\ registry'.at # "entry" =>
              /\ "menu" \in drift \/ row.checked
              /\ "check" \in drift \/ registry.path = Exe]_vars
=============================================================================
