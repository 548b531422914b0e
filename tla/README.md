# Specifications of fenster

fenster is a Windows tray program. It remembers window layouts per monitor
setup and restores them from a menu or with a system-wide hotkey. This directory
holds TLA+ modules of the parts of it in which steps of several actors meet, the
TLC instances that check them, and proofs TLAPS checks.

All paths are relative to the root of the repository. `PROJECT.json` gives, for
every definition, the lines it translates, and lists the hazards with the
properties that cover them.

    tlc -config MCFenster.cfg MCFenster       # any run: see the table below
    tlapm FensterProofs.tla                   # the proofs, and likewise
                                              # HotkeyManagerProofs, RestoreProofs, CaptureDialogProofs,
                                              # MatchingProofs, EditDistanceProofs, MenuProofs,
                                              # ProcessProofs

## 1. The system

| part | source | state it keeps | operations |
|---|---|---|---|
| hotkey manager | `cmd/fenster/hotkeys.go`, `internal/win32/hotkey_windows.go` | `registered` (id to layout), `unavailable` (layouts whose combination was refused), `probeReleasePending` | `sync`, `probe` |
| hotkey selection | `internal/hotkey/select.go`, `hotkey.go` | none | `Active`, `Conflict`, `Parse`, `Canonical`, `FromKeys` |
| layout store | `internal/store/store.go`, `types.go` | `File` in memory, `layouts.json` on disk | `Load`, `Save`, `Add`, `Replace`, `Delete`, `SetInclude`, `SetMinimizeOthers`, and the readers |
| application | `cmd/fenster/main.go`, `app.go` | `busy`, and the local variables of a handler that waits | tray click, hotkey, display change, ten menu actions, startup, shutdown |
| message loops | `internal/win32/tray_windows.go` | the message window, the thread's queue, WM_QUIT | `Run`, the window procedure, `ShowMenu`, `Quit`, `SignalQuit` |
| dialogs | `internal/win32/dialog_windows.go`, `capture_windows.go` | the dialog, what was typed or captured | `InputBox`, `Confirm`, `CaptureHotkey` |
| window matching | `internal/layout/match.go`, `capture.go` | none | which window gets which entry of a layout |
| clamping | `internal/layout/clamp.go` | none | move and shrink a rectangle onto the monitors |
| monitor fingerprint | `internal/monitors/fingerprint.go` | none | a name for a set of monitors |
| menu model | `internal/tray/menumodel.go`, `render_windows.go` | none | `BuildMenu`, `FlattenActions`, `Render` |
| autostart | `internal/autostart/autostart_windows.go` | one registry value | `Enabled`, `Enable`, `Disable` |
| windows | `internal/win32/desktop_windows.go` | none | `EnumMonitors`, `EnumWindowsInfo`, `ApplyPlacement`, `MinimizeWindow` |
| single instance | `internal/win32/instance_windows.go` | a named mutex | refuse to start twice |
| deployment | `deploy.ps1` | none | stop, wait, copy, start |
| declarations | `internal/win32/syscalls_windows.go`, `cmd/mkicon/` | none | |

How they interact. The program has one thread that matters. Windows calls it
back through the message window: a click on the icon (`onTrayClick`), a
`WM_HOTKEY` (`onHotkey`), a change of the monitors (`onDisplayChange`),
`WM_CLOSE`. A menu or dialog runs a message loop of its own inside the handler
that opened it, and that loop delivers all of these again: handlers nest. The
flag `busy` is what keeps a second click or a hotkey out; display changes ignore
it on purpose. Every action ends (`dispatch`) with a sync of the hotkeys
from the store and the monitors of that moment. Other processes share the hotkey
table and change it between any two calls; the file system is shared with the
power supply; the notification area belongs to Explorer, which may restart; and more
than one process of fenster may run, if only for a moment.

What is hard here:

* nested loops: what a handler read before its dialog is old when it goes on;
* the hotkey table: `sync` is a sequence of calls, each of which may fail, while
  others register and release;
* ids: every sync gives out ids from 1, and posted messages carry them;
* undo: a save that fails must leave memory as the file is;
* `layouts.json` across kills and power loss, and files it did not write itself;
* shutdown: WM_QUIT through nested loops, and cleanup after the window is gone;
* processes: a start while another ends, `-quit` to one that is still starting, a
  binary that is replaced, an icon nobody owns;
* the desktop: two rectangles for each window, in two systems of coordinates, and
  windows, monitors and registry that change between reading and acting;
* numbering: command ids, registration ids and list positions that two pieces of
  code count independently.

What makes each part correct:

* *hotkey manager*: each layout that should be live is held under its own id or
  marked unavailable; nothing else is held; fenster does not refuse a
  combination to itself; news are reported once; a stuck probe is retried.
* *selection*: of a setup's layouts with the same combination the first counts.
* *store*: a save is atomic; memory and file agree between actions; foreign
  files are never lost.
* *application, loops, dialogs*: one handler at a time; no lost update; the
  hotkeys are always those of the monitors in use; a close ends the program.
* *matching*: one window per entry and one entry per window; nothing is wasted
  by the greedy passes; restoring what was just saved moves nothing.
* *clamping*: a rectangle is brought within reach of the monitors that were read, and one
  that is within reach is not changed.
* *restoring*: what the balloon calls restored is where it was saved, or where clamping puts
  that, and can be reached; nothing else is touched; each entry is counted once.
* *fingerprint*: the same monitors in another order or another place on the desktop
  are the same setup, and no others are.
* *menu*: a row does what it says; it advertises the keys that work, and only those.
* *autostart*: the tick is true, and the entry of another program is not deleted, unless it
  was written between the check and the deletion.
* *processes, icon*: one instance, with one icon, which comes back when Explorer
  does and goes when the process does; `-quit` ends it, and a new copy takes over.
* *hotkey dialog*: what is pressed is what is stored, and what is stored is what
  later runs read.

## 2. The modules

    HotkeySelect --- HotkeyManager --- HotkeyManagerProofs, MCHotkeyManager
         |                |
    Store +------------ Fenster ------ FensterProofs, MCFenster        (INSTANCE HotkeyManager)
         |
         +--- Menu ----------- MenuProofs, MCMenu
               |
    Fingerprint, Autostart

    AtomicFile --- StoreFile --------- ProcessProofs, MCStoreFile      (StoreFile implements AtomicFile)

    HotkeyText --- CaptureDialog ----- CaptureDialogProofs, MCCapture  (implements ModalDialog)

    Clamp -------- Restore ----------- RestoreProofs, MCRestore
    Matching --------- MatchingProofs, MCMatching
    EditDistance ----- EditDistanceProofs, MCEditDistance   (the Similarity of Matching)

    Lifecycle -------- ProcessProofs, MCLifecycle

Fenster is the program as its user meets it. The others open what is one step there:
Restore what a restore does to the windows, Menu what the menu shows and how a click finds
its action, CaptureDialog what happens inside a dialog, StoreFile what a save is,
Lifecycle what surrounds the message loop.

### HotkeySelect

`Active` and `Conflict`. The texts a layout can have, the combinations, `Parse`
and `Canonical` are constants: `Parse` maps several texts to a combination
(hand-edited spellings), to `Invalid`, or to `Zero` (no hotkey), and `Canonical`
picks one text. `HotkeyTextAssumption` requires the round trip
`Parse[Canonical[c]] = c` that the package's tests state.

### HotkeyManager

`sync` and `probe`, one call to Windows per step.

| state | code |
|---|---|
| `registered`, `unavailable`, `probeReleasePending` | fields of `hotkeyManager` |
| `pc`, `layouts`, `fingerprint`, `releasing`, `todo`, `nextId`, `was`, `newly`, `asked` | where the call is, its arguments, its local variables |
| `held`, `foreign`, `alive` | Windows: what the message window holds (id, combination), what others hold, whether the window exists |
| `faults` | calls that may still fail for no visible reason |

`CallSync`, `RetryProbeRelease`, `Release`, `SelectActive`, `RegisterGranted`,
`RegisterRefused`, `SyncReturns` are `sync`; `CallProbe`, `ProbeRegister`,
`ProbeRelease`, `ProbeReturns` are `probe`. Between any two of them
`ForeignRegister` and `ForeignUnregister` may happen, and `OtherCallFails`: a call that the
program around the manager makes, and that spends the bound on failures. The map of releases is
walked in any order, as Go does; the registrations go in the order of the list.
Registering an id again keeps what it had, as Windows documents; which one a
release then frees is left open.

### AtomicFile and StoreFile

`AtomicFile` says what the store promises: commit or nothing, die at any time,
fall back after a power loss to something that was committed.

`StoreFile` is `Load` and `Save` call by call (create a temp file, write, sync,
close, rename; remove it when one fails) over inodes: `path`, `temps` and
`broken` are what the directory holds, `data` what the files hold; `diskPath` and
`diskData` what of it a power loss would leave. An unsynced file may hold anything
after a power loss (`Torn`). `Mutate` and `Undo` are the caller, written once for
all actions of `main.go`. `Load` unmarshals before it looks at the version, so there are
two kinds of files of a newer schema: one whose fields still have the types of this version
(`Newer`), which `Load` refuses, and one with a field of another type (`Incompatible`), which
it moves aside like a corrupt one (`Unparsed`). `ForeignKept` is about all that no run of this
version has written (`Foreign`), `NewerUntouched` about the first kind. `Implements` is the refinement: `memory` maps to
`undo` while a save is under way, because the mutation has not happened
until the rename.

The directory entries of temp files and of files moved aside are taken to reach
the disk at once; only that of `layouts.json` may lag. `HandEdit` is the user,
while fenster is not running, so that no edit is lost to a save by design.

### Store

The operations on the list of layouts, and `restoreOrder`, with which a failed
delete is undone: `Emptied` deletes what is left, id by id, and the old list is put in its place. A layout is its id, its setup, its hotkey text, its name and
one Include checkbox.

### Fenster

`main.go` on the message loops, composed with `HotkeyManager` by INSTANCE.
`stack` holds a frame per handler that waits in a nested loop, with what it read
before (`mons`, the layout `l`, the captured `keys`). What a handler does between
two waits is one step, but each call to the manager is carried out step by step,
and `then` says what follows it. A save is one step, which is what StoreFile
establishes for everyone who looks at the file.

| actions | code |
|---|---|
| `TrayClick`, `ShowMenu`, `Dismiss` | `onTrayClick`, `showMenuOnce` |
| `Choose...`, `OpenDialog` | `dispatch` and the `action...` functions up to their dialog |
| `Confirm...`, `Cancel`, `CaptureKeys`, `ProbeAnswers`, `Assign`, `Finish` | the same after the dialog |
| `SyncHotkeys`, `Mutate`, `EndAction`, `Return`, `Reopen`, `Resume` | `syncHotkeys` and the end of `dispatch` |
| `DeliverDisplayChange`, `DeliverHotkey`, `DeliverClose` | `messageWindowProc`, `onDisplayChange`, `onHotkey` |
| `QuitLeavesMenu`, `QuitLeavesDialog`, `QuitLeavesRun`, `Exit` | WM_QUIT through the loops, the deferred cleanup of `main` |
| `Start`, `FirstSync`, `Kill` | `main` up to `Run`; the end of the process |
| `ChangeDisplay`, `Press`, `SignalQuit`, `OtherApplication` | the world |

A setup stands for its monitors. `CaptureKeys` cannot see a combination that
somebody has registered: Windows hands that press to its owner. A
`WM_DISPLAYCHANGE` is sent and several become one (`displayMsg`), since each
makes the same sync; `WM_HOTKEY` and `WM_CLOSE` are posted, in order.

### Matching and EditDistance

`MatchEntries`, one iteration of its loops per step.

| state | code |
|---|---|
| `entries`, `live`, `candidates`, `taken` | the arguments and variables of that name; `taken` is a set |
| `matched` | `matched`, as the number of the candidate, or 0 |
| `pass`, `at` | the closure that runs, and its loop |

`Collect` is the loop over `Eligible`; `Skip` and `Claim` are the body of `pass`,
and `Suits` and `Precedes` the three `pick` functions. A window is eligible or
not. Of titles, equality matters, and a score that is a constant of the module: how
`NormalizeTitle` trims a title is part of the score. `Missing` and `Unmatched` are
what `matched` and `taken` leave.

`EditDistance` is where a score comes from: `Similarity` (`Start`, `Return`) and
`levenshtein` (`Row`, `Cell`, `Swap`) cell by cell, with the two rows that are swapped
and written over. The score is a fraction, so no rounding is involved.

### Clamp and Restore

`Clamp` holds `Clamp`, `nearest`, `placementArea` and `clampInt32` as operators over
integers that wrap at `Limit`, as `int32` does at 2^31.

`Restore` is `actionRestore` with the desktop around it.

| state | code |
|---|---|
| `desk` | Windows: each window's restored rectangle (workspace coordinates), its place on the screen, its state, topmost |
| `mons`, `seen` | the monitors, and what `EnumMonitors` said when the menu opened or the hotkey arrived |
| `live` | `[]layout.Live` of the same moment |
| `entries`, `minimizeOthers` | the layout and the option |
| `extra`, `at`, `call`, `tally` | the loops of `minimizeExtraneous` and `actionRestore`, the call of `ApplyPlacement` that is next, the counters of the balloon as sets |

`ReadAll`, `ReadFewer` and `ReadSome` are `EnumMonitors`, `EnumWindowsInfo` and
`describeWindow`: any of the monitors may be left out without an error
(`desktop_windows.go:214`), so that `seen` is a part of `mons`, or either of the two calls for a
rectangle refused. A restore after `ReadFewer` does not count as disturbed. `Overwrite` is `Capture`;
`ChooseRestore`, `MinimizeWindow`, `PassOver`, `SetWindowPlacement`, `SetWindowPos`,
`SetTopmost`, `CallFails`, `Return` are the restore, one call to Windows a step. Between
any two of them the user moves or closes a window (`Moves`, `Closes`) or the
monitors change (`ChangeDisplay`). `Shown` is what Windows does with a placement.
Every window has an executable of its own here, and two entries may name one: which entry gets
which window otherwise is the business of Matching. `Reachable` and `StaysPut` are about the
rectangles `Clamp` is given and returns, in the coordinates it takes them for; where windows end up
is what `Placed` and `BringsBack` say, which go through `Shown`. The reference for the rectangles is a set of pixels
in unbounded integers. `Collect` is a loop that collects the members of a list that pass a
test: `EnumWindowsInfo` over the windows, `MatchEntries` over the eligible ones.

`RestoreAssumption` says what `EnumMonitors` may return (monitors of some extent whose edges
are integers, the work area unknown or inside, one monitor at the origin) and what a layout
holds. Its monitors need not be those of now, and its `screen` may be anything. Its `rect`
has an extent, because `Capture` saves eligible windows only; an entry edited to have none is
outside the model.

### Fingerprint, Autostart, Menu

`Fingerprint` is `normalize`, `canonical` and `Fingerprint` over lists of monitors. The
hash is taken to be injective. `Same` is the reference: one arrangement can be moved
onto the other, monitor by monitor. `Sorted` chooses any order that `Less` allows, as
`sort.Slice` may. `Autostart` is the Run entry: who it starts,
quoted or not, in which case.

`Menu` is `showMenuOnce`, `BuildMenu`, `Render`, `FlattenActions` and `dispatch`.

| state | code |
|---|---|
| `shown` | the `MenuInput` the open menu was built from; then what `dispatch` still has of it |
| `action`, `row` | what `FlattenActions` says was clicked, and the row that was |
| `layouts`, `minimizeOthers`, `registry` | the store and the Run entry |
| `registered`, `unavailable`, `synced` | what the last sync left |
| `mons`, `displayMsg`, `foreign` | the world |

A label is what its tabs divide, so that a name can hold one. `Commands` are the rows that
`Render` gives an id, `FlattenActions` the actions by id: two walks over one tree. The code
recurses; `BuildMenu` makes a tree of three levels, and `Render` and `Flatten` are one level of the
walk, applied to what the walk does below it. `Joined` is the loop that appends.
`EnumMonitors` may return fewer monitors than there are, without an error
(`desktop_windows.go:214`). `Sync` is the result of a sync; the calls it takes
are HotkeyManager's. An action changes store or registry as it does once its
dialog is over. `actionToggleAutostart` is two steps, the check (`CheckAutostart`) and what follows
(`DisableAutostart`, `EnableAutostart`), and another program may write before the first, between
them, or while the menu is open: `drift` holds which of what the menu and the check have found may
no longer be so. `MenuAssumption` starts from a store as the program writes it (`WellFormed`): ids
differ, and the setup of a layout is the fingerprint of its monitors.

### HotkeyText, ModalDialog, CaptureDialog

`HotkeyText` is `hotkey.go`: a text is a sequence of words and separators, with the
tables of modifiers, keys and spellings; `keyByName` is filled table by table (`Over`), and
`Tokens` is the loop of `Parse`. It is what HotkeySelect assumes of `Parse` and
`Canonical`, in the code's own words.

`CaptureDialog` is `CaptureHotkey` key by key, between the beginning and the end of
`actionHotkey`: `held` and `down` are the keyboard, `mods`, `vk`, `valid` the
`captureState`, `echo` what the dialog shows. A combination that somebody has
registered (`Taken`) does not reach the dialog. Enter on the disabled button arrives, as the
comment in the code says.

`ModalDialog` is what a handler relies on: a dialog ends once, with an answer or none;
with none if the program is told to quit, which it does not keep to itself. CaptureDialog
implements it (`IsModalDialog`), with liveness. It is also the contract under which
Fenster has one frame for any dialog.

### Lifecycle

`main` from the single-instance guard to the deferred cleanup, for several processes,
with Explorer and `deploy.ps1`.

| state | code |
|---|---|
| `stage` | where `main` of each process is |
| `mutex` | who has a handle of the named mutex |
| `windows`, `queue`, `quitting` | message windows, what is posted to them, `WM_QUIT` |
| `icons`, `shell`, `crashes` | the notification area and Explorer |
| `deploy`, `target`, `fresh` | where the script is, the window `-quit` found, the process the script started |

| actions | code |
|---|---|
| `Launch`, `Acquire`, `AcquireFails`, `Refuse` | `main`, `AcquireSingleInstance` |
| `Setup`, `CreateWindow`, `NewTrayIcon` and their failures | `main` up to `Run` |
| `DeliverTaskbarCreated`, `DeliverClose`, `QuitReceived` | `messageWindowProc`, `onTaskbarRecreated`, the loops |
| `OpenModal`, `CloseModal`, `ChooseQuit`, `Acknowledge` | the user, in a nested loop or an Alert |
| `Remove`, `Release`, `Exit`, `Kill` | the deferred calls, the end |
| `Crash`, `Restart`, `Broadcast`, `Reap` | Explorer |
| `SignalQuit`, `FindWindow`, `PostClose` | `fenster -quit`, by hand and from the script |
| `Wait`, `Copy`, `StartFresh` | `deploy.ps1` |

`unlucky` and `disturbed` are history: which calls failed for no reason, and whether
anybody else started fenster during the deployment.

## 3. The runs

| run | question | states | result |
|---|---|---|---|
| `hotkeys` | do the registrations follow every pair of list and setup while another process takes and gives up combinations, and what of it survives two calls that fail for no reason? | 289 513 | `TypeOK`, `HeldIsRegistered`, `BalloonOnlyForNews`, `RegisteredIsHeld`, `AllAccountedFor`, `ProbeNotForgotten`, `NeverBlocksItself` hold |
| `hotkey_leak` | do the registrations match when a release fails? | | `HeldMatches` is violated |
| `store_file` | is `Save` atomic, and `Load` careful, under kills, power loss and failing calls? | 113 714 | `MemoryMatchesFile`, `NewerUntouched`, `ForeignKept` and the refinement `Implements` hold |
| `fenster` | do store, dialog and hotkeys agree through every interleaving of actions, failures, display changes and shutdown? | 2.9 million | `MemoryMatchesDisk`, `SnapshotIsCurrent`, `HotkeysFollowSetup` hold |
| `fenster_live` | do the hotkeys follow every change, does a close always end the program, and is there one handler at a time, also after a kill and a restart? | 310 708 | `OneModal`, `FollowsDisplay`, `CloseEnds` hold |
| `stale_press` | does a press restore the layout of its keys when a sync comes in between? | | `PressRestoresItsLayout` is violated |
| `restore` | does a restore put the layout's windows, and only those, where they belong and within reach, and report what it did? | 666 071 | `Reachable`, `StaysPut`, `Accounted`, `Placed`, `BringsBack`, `Untouched` hold |
| `lifecycle` | is there one instance with one icon, through starts, `-quit`, deployments, kills and restarts of Explorer? | 267 001 | `OneRunning`, `NoGhostIcon`, `HandoverClean`, `IconReturns`, `QuitEnds` hold |
| `menu` | does the menu say what is the case, and do what it says? | 525 220 | `RowsAct`, `Filed`, `KeysAreLive`, `TicksAreTrue` hold |
| `capture` | is what is stored what was pressed, do the texts mean what they say, is the dialog a modal dialog? | 106 462 | `PressedIsSaved`, `ParseMeans` and the refinement `IsModalDialog` hold |
| `matching` | is what the greedy passes give each entry one-to-one, stable and in order? | 209 554 | `OneToOne`, `Stable`, `RoundTrip`, `OrderKept` hold |
| `edit_distance` | is the score, computed over swapped rows, that of the edit distance? | 3 802 | `ScoreIsSimilarity` holds |

Bounds, and why they are enough.

* *hotkeys*: two setups, two combinations, three layouts, five texts: the two
  canonical ones, a second spelling of the first, one that does not parse, and
  none. Lists have up to three layouts, one more than there are
  combinations, so that repetitions, wrong setups and every mixture occur. There
  is no bound on calls or on foreign steps: the state space is closed. With
  `MaxFaults = 2` one fault can hit a release and another the retry of it.
* *store_file*: four inodes hold the current file, the file a power loss would
  bring back, and two temp files or files moved aside; when no inode is free the
  next `Save` does not begin. There is no bound on the number of saves, kills or
  losses. Inodes, and the two contents no rule tells apart, are symmetric.
* *fenster*: two setups, two layouts, two combinations; one successful and one
  failed save, one call to Windows that fails, one change of the monitors, one foreign
  registration or release, and one posted message. Each hazard listed needs one of
  each; the number of clicks, menus and dialogs is not bounded. The theorems of section 5 have
  no such bounds. `InitialFiles` begins
  with the same combination in two setups, or with a hand-edited spelling and room
  for one more layout. No hotkey is pressed here: a press changes neither the store
  nor the registrations, and opens no dialog.
* *fenster_live*: one combination and one name less, one edit, one change, one
  press, one kill and one restart, and two posted messages, so that a press and
  a close queue up. No failed save or call, and no foreign process.
* *matching*: all lists of up to three entries and three windows, from an executable
  with three titles, the middle one similar to both others with different scores, a
  second executable, and a window that is not eligible. Two entries can thus compete for a
  window in every pass, with a third to take what is left. The theorems of section 5
  cover lists of every length.
* *edit_distance*: all pairs of titles of up to three runes, of three. The first two
  swaps give each row a past, and a third reads it. The theorem of section 5 covers every length.
* *restore*: integers from -8 to 7 (`Limit = 8`), so that sums overflow; either one entry with a
  rectangle anywhere in that range, from one pixel to larger than any monitor, or two entries
  among four windows: one the layout does not name and one of fenster's own, snapped,
  minimized, maximized or on the second monitor, or two entries for one executable; one monitor or two, with the taskbar
  at the bottom, at the top, or unknown. In the second case one thing goes wrong or changes: a call
  that fails, monitors left out of the reading, a window moved or closed, a change of the monitors. Restores and
  captures are not bounded. Monitors lie within the range, as those of Windows do. The theorems
  of section 5 cover every `Limit`, number of windows and length of a layout.
* *lifecycle*: three processes: one that is stopped, one that is started, and one that
  is in the way. `MaxIncidents = 6` is shared by failing calls, kills, crashes and, counted
  twice, starts, so that three starts go alone, two with two incidents, and one with four.
  `MaxQueue = 1` bounds what users post; what Explorer and the script send
  comes on top. The theorems of section 5 have no such bounds.
* *menu*: three arrangements of one or two monitors, and two more the layouts were saved
  on; two layouts, with the same combination in two spellings, a name with a
  forged accelerator, and windows that are open and not; one successful edit, one event
  of the world, one failing call. One failing call can hide a monitor, a window list or
  the registry, refuse a hotkey, or lose a save. The theorems of section 5 have no such bounds.
* *capture*: four modifier keys, two of which are both Win; six other keys: a digit,
  Tab, Enter, Escape, one without use and the code that stands for no signal; one combination
  that somebody has; eleven stored texts, with each way to be wrong. How often keys are
  pressed is not bounded. `ReadsBack` goes through all modifiers and all keys. The theorems
  of section 5 cover all texts and keyboards.

`CHECK_DEADLOCK FALSE` is said for Fenster, Lifecycle, Menu, CaptureDialog, Matching and
EditDistance: a program that has ended, with no start left, stops; so does a dialog that is
over, and an algorithm that is done.

Every property has a mutant in `PROJECT.json`: a plausible bug, as an alternative
definition beside the original, under which the run finds the property violated.

## 4. Fairness

`FairSpec` of Fenster assumes:

* weak fairness of `ThreadStep`: a handler that is running goes on. Every call it
  makes to Windows returns, and every step of `ThreadStep` stays enabled
  until the thread takes one;
* strong fairness of `DeliverDisplayChange`, `DeliverHotkey`, `DeliverClose`. The
  loops call `GetMessage`, which hands over sent messages first, then posted ones
  in order, and input only after both. A message is thus delivered the next
  time the thread comes back to any loop. It comes back again and again, but
  is not always there (a user who opens and closes dialogs makes it leave
  each time), so weak fairness would say too little, and the strong form is what
  the order of retrieval gives.

Nothing is assumed of the user, of other processes, or of the display: a dialog
may stay open for ever, and the hotkeys still follow the monitors.

`Fairness` of Lifecycle assumes weak fairness of what each process does by itself
(`ThreadStep`) and of `Broadcast`: an Explorer that has started tells the windows. That
Explorer starts again at all is not assumed, nor that anybody closes a menu, a dialog
or an Alert. Weak fairness is enough here: messages in a process's queue stay
until it takes them, and a loop of any kind takes them.

`Spec` of CaptureDialog and ModalDialog assumes weak fairness of leaving on `WM_QUIT`: once
it is set, `GetMessage` returns it as soon as nothing posted is left. Nothing makes a user
press a key.

## 5. The proofs

### HotkeyManagerProofs

It proves, for every finite or infinite set of layouts,
setups, combinations and texts, every set of lists and every number of faults:

| theorem | states |
|---|---|
| `TypeCorrect` | `Spec => []TypeOK` |
| `RegisteredIsHeldAlways` | every registered id is held, for the layout and combination it names, whatever fails |
| `AllAccountedForAlways` | every layout dealt with is registered or marked, and no other is, whatever fails |
| `HeldIsRegisteredAlways` | as long as no call fails for no reason, what is held is what is registered |
| `NeverBlocksItselfAlways` | in that case no registration is refused because of another of fenster's own |
| `BalloonOnlyForNewsAlways` | the count of new refusals is positive exactly when a layout is newly unavailable |
| `ProbeNotForgottenAlways` | with one failure at most, what a probe leaves under id 0 is remembered for a retry |
| `ExclusiveAlways` | no layout of a list with distinct ids is both registered and marked, whatever fails |

They rest on `HotkeyTextAssumption` and `ManagerAssumption`, which only give the
constants their types (and the round trip). The argument, in layers:

1. `TypeInv` is `TypeOK` with `LocalsOK`. `TypeOK` alone is not inductive: `CallSync`
   replaces the list that `todo` points into, so one must know that `todo` is
   empty then; and a probe registers what `asked` holds.
2. `AnswersInv` is `RegisteredIsHeld`, `AllAccountedFor` and `IdsBelow` (the ids
   given out lie below `nextId`). Without the last, the next registration could
   overwrite an entry of `registered`, and a layout would be dropped.
3. `OwnInv` holds while no call has failed for no reason: a combination is held
   once (`OneEach`), the releases still to come cover everything held
   (`OnlyOld`), id 0 is used by a probe only, and `HeldMatches`. That a combination
   is held once is what makes a release free exactly what it should, and
   `ActiveDistinct` (two selected layouts have different combinations) is
   what makes it stay so.
4. `FlagInv` holds while at most one call has failed: what earlier probes have left under
   id 0 is one combination at most, and the flag is set if there is one. The flag
   alone would not do: a further probe registers a second combination under id 0 and its
   release frees one of the two, so one must know that one release is enough.
   `BalloonOnlyForNews` is inductive by itself.

Each invariant has one lemma for `Init` and one for the step, with a case per
action; the temporal theorems combine them.

### MatchingProofs

It proves, for all lists of entries and windows, every score and every threshold:

| theorem | states |
|---|---|
| `TypeCorrect` | `Spec => []TypeOK` |
| `OneToOneAlways` | no window is claimed twice, and `taken` names those claimed |
| `StableAlways` | in the end no entry and window of one executable would both do better with each other |
| `OrderKeptAlways` | entries that found no title get windows in the order of both lists |
| `RoundTripAlways` | a layout captured from the windows gives each entry its own window back |

They rest on `MatchingAssumption`, which only gives the constants their types.
`OneToOne` is inductive given the types. The others are not, for a reason that
is the heart of the algorithm: what a pass has settled must stay settled.

* `StableInv`: of an entry that pass `q` has dealt with, no window of quality `q` is
  left that it could still want (`Settled`, `Blocks`). Later passes keep this,
  because they only take windows away. `Stable` speaks of the end only and says nothing of
  how it is reached.
* `OrderInv`: an entry has a window of quality 3 only since pass 3, and all windows of its
  executable that are still free lie behind it. Hence the next one gets a later one.
* `RoundTripInv`: in pass 1 over captured entries, those behind the loop have their
  own window and the others none. It is needed because of windows with one title: the first
  free one with the title of entry `k` is window `k` only since the earlier
  ones are taken.

### EditDistanceProofs

`ScoreIsSimilarityAlways` proves, for titles of every length over any alphabet, that the score is the
one the edit distance gives, and that it is 1 for equal titles only. It rests on no assumption.

The reference is not the recurrence that the code computes, but the least cost of an alignment, a
set of pairs of positions that do not cross. So the recurrence has to be proved (`NextCell`): an
alignment pairs the last runes of both titles, or leaves one of them alone, since two pairs with one
of the last runes each would cross (`LastRunes`). The inductive invariant is `Table`: `prev` is the row
before `i`, and `curr` is row `i` up to `j`. Behind `j` it holds what an earlier row left there,
of which nothing is said, and nothing needed. That a cell is 0 only where the prefixes are equal
(`Right`) is what makes a score of 1 mean equality.

### ProcessProofs

It is about what outlives a process: the file, and who is there to use it. Of StoreFile it proves,
for all contents, any number of files, saves, failures, kills and power losses:

| theorem | states |
|---|---|
| `MemoryMatchesFileAlways` | between mutations memory is what `layouts.json` holds |
| `NewerUntouchedAlways` | a file of a newer schema that unmarshals is replaced by the user alone |
| `ForeignKeptAlways` | what the user broke and what a newer version wrote stays there or next to it, whether it unmarshals or not, also over a power loss |
| `ImplementsAlways` | StoreFile implements AtomicFile under the mapping above |

They rest on `StoreFileAssumption`, which tells the constants apart. `Inv`, also checked by
TLC on the small instance, says why each step is safe:

* `RolesOK`: a file is a temp file, moved aside, or `layouts.json` (now, or after a power
  loss), never two of them. So what `Save` writes touches nothing else.
* `ContentsOK`: a file that is no temp file is on the disk as it is seen. The temp file gets
  there call by call (written, then synced), and has got there when it is renamed.
* `LagOK`: if the directory lags behind, `layouts.json` is none of the user's. Without it
  a power loss could take a broken or newer file away.
* `FileOK`: the file is what the caller goes back to if the save fails. It makes memory
  agree after `Undo`, and the rename the one step that commits.

`SeenChanges` and `OnDiskKept` say which steps a reader of the file, now or after a power
loss, can notice at all; every other step is a stutter of AtomicFile.

Of Lifecycle it proves, for any number of processes, incidents and messages:

| theorem | states |
|---|---|
| `OneRunningAlways` | of the processes whose `CreateMutexW` worked, one at a time is past the guard |
| `NoGhostIconAlways` | an icon without a process is left by a kill or a failing `NIM_DELETE` only |
| `HandoverCleanAlways` | an undisturbed deployment finds the binary free, and its process is not refused |

They rest on no assumption on the constants.

* `MutexInv`: a process past the guard has the mutex, if it could be created; and a
  handle belongs to one past the guard or about to be refused. The second half is what
  makes the mutex disappear. `OneRunning` is inductive with it: who finds no
  mutex finds nobody past the guard.
* `IconInv`: an icon belongs to a process that is in its loops or about to remove it.
  `NoGhostIcon` alone would not say that a process which ends has none.
* `DeployInv`: from the copying on, nothing is alive but what the script started, unless
  disturbed. With `MutexInv` the mutex is then gone as well, so that the new process
  is not refused.

A step is one of three kinds (`Steps`): of a process at the guard or on its way out,
of a process that stays on its side of the guard, or of none. Each invariant has a case per kind.

### MenuProofs

It proves, for any number of layouts, windows and monitors, any names and texts, whatever others do
while the menu is open, and any number of failures:

| theorem | states |
|---|---|
| `FingerprintIdentifies` | two arrangements have one fingerprint exactly when one is the other moved and listed in some order |
| `MenuInvAlways` | the inductive invariant |
| `RowsActAlways` | the action of a click is that of the row clicked, and what it is about is in the store |
| `FiledAlways` | a layout stands at the top exactly if it was saved with the monitors read for the menu |
| `TicksAreTrueAlways` | a box does the opposite of what it shows, and no other program's entry is deleted but one written after the check |
| `KeysAreLiveAlways` | the right column shows what is registered and marks what was refused |

They rest on `HotkeyTextAssumption` and `MenuAssumption`. Three arguments carry them.

* *The fingerprint.* `sort.Slice` keeps no order among equals, so that the fingerprint is well
  defined needs proof. `Less` is a strict order in which monitors that neither precedes the other
  have equal keys, hence equal canonical strings (`LessIsAnOrder`). A sorting exists
  (`SortingExists`: each element goes to the place that is the number of those before it) and is unique up
  to equal keys (`SortedUnique`: at the first place where two sortings differ, one element would have
  too many before it). Moving all monitors changes no comparison, and `Relative` takes the move
  out again; conversely equal fingerprints give the bijection (`OneFingerprintIsSame`).
* *The two walks.* `WalkedMenu`: of a tree in which the rows with children are no
  separators and three levels are all there are, the list of actions is that of the actions of the rows
  with an id. It holds level by level, by induction over the rows of one (`AgreeJoint`): each row adds as
  many ids to the one as to the other. `MenuRowsRight` says of each row which action it has and
  that its id is that of a layout, and its tick that of the store.
* *The right column.* `ColumnIs` says what it holds: the layouts of the setup with a combination, each
  marked if unavailable. `KeysAreLive` then compares that with the last sync.

`MenuInv` says what stays true while the menu waits: the store is well formed (`TypeInv`), an open
menu shows the store as it is, and the registry unless somebody else changed it (`ShownInv`), the row
clicked still does (`RowInv`), so does the check of the Run entry (`CheckInv`), and what is registered is the outcome of the last sync for this very store
(`SyncInv`). None of the properties is inductive without it: `RowsAct` speaks of the moment of the click,
but the layout must be there for every row that could be clicked.

### FensterProofs

It proves, for every set of layouts, setups and combinations, and any number of events, failed
saves and failed calls:

| theorem | states |
|---|---|
| `OneModalAlways` | one handler at a time waits in a nested loop, and `busy` says so |
| `SnapshotIsCurrentAlways` | a dialog that waits holds its layout as the store has it |
| `MemoryMatchesDiskAlways` | between actions memory is what `layouts.json` holds |
| `CallsTheManager` | every behaviour of the program is one of `HotkeyManager` |
| `HotkeysFollowSetupAlways` | whenever the thread waits and has heard of every change, the hotkeys are those of the store and the setup of the moment |
| `ReplaceUndone` | replacing a layout, and then the same id by what `Get` returned before, gives the old list |
| `IncludeUndone` | so does ticking a window and ticking it back |
| `AddUndone` | so does adding a layout with a new id and deleting it |
| `DeleteUndone` | so does `restoreOrder`, also where ids repeat |

The last four are about Store, for lists of every length: each rollback of a failed save gives back
the list it began with. `Replace` and `Delete` act on the first layout with an id, so the proofs
need the place of that layout, and that it is found there again. `DeleteUndone` says that
the loop which deletes every layout that is left ends with none; it is an induction over the
number of deletions. Where something has to be shown for every length, the least length for
which it fails is led to a contradiction (`LeastMember`).

They rest on `HotkeyTextAssumption` and `FensterAssumption`, which give the constants their types.
`ThreadInv` carries the first four:

* the manager's own `TypeInv`, and `Types` for the rest;
* `Control`: `busy` is set exactly when a handler waits, and what follows a call (`then`) fits
  the handler that is waiting. `OneModal` alone would not survive the return of a call.
* `Snapshots`: from the reading to the write of its own action, a dialog holds the layout as it is
  stored. It is needed in the middle of an action, too, where `SnapshotIsCurrent` says nothing:
  the no-change branch of `actionHotkey` saves what it read before two waits.

Each has a lemma for the user's steps, the thread's and the world's. `MemoryMatchesDisk`
uses the theorems about Store: every action that a failed save undoes is an edit (`Edited`)
whose rollback gives the old list.

`CallsTheManager` is a refinement: each step of Fenster is a step of the manager or leaves it
alone. It shows that the arguments `main.go` passes are among those HotkeyManager is proved for, and
brings all of its theorems into the program. `HotkeysFollowSetup` is these theorems and
`FollowInv`: the last sync was for the setup and the layouts there are now, as long as no display
change is on its way.

`HotkeysFollowSetupAlways` has one hypothesis, that the ids in the file the program starts from are
distinct. It is needed: with a file edited by hand in which two layouts share an id, a
mark that a combination was refused does not say which of the two it is about, and TLC finds the
property violated. `NewID` gives distinct ids, and no action makes two of them equal (`Distinct`).

### RestoreProofs

It proves, for integers of every range, any desktop, monitors and layouts of any number, and any
number of failed calls, moves and changes:

| theorem | states |
|---|---|
| `ReachableAlways` | what `Clamp` makes of a saved rectangle overlaps a monitor that was read, and lies in a work area if it was changed, whatever overflows |
| `StaysPutAlways` | a rectangle that Windows can show and that overlaps a monitor that was read is not changed |
| `UntouchedAlways` | a restore changes no window but those it is about |
| `AccountedAlways` | the balloon counts each entry once, and as missing only what could not be placed |
| `PlacedAlways` | what it counts as restored is where `Clamp` puts what the layout says, and a normal window is within reach |
| `BringsBackAlways` | a layout brings back the desktop it was captured from, as far as it was on monitors that were read |

They rest on `ClampAssumption` and `RestoreAssumption` (section 2). The first two are about `Clamp`:
of a rectangle that is moved, `MoveInto` computes only with numbers between the edges of a work
area, so nothing overflows there (`MovedInside`); what may overflow is the test whether it overlaps
a monitor, and the distances by which `nearest` chooses one. `ClampedIsReached` shows that
neither can do harm: any monitor will do, and a rectangle that seems to overlap does.

The other four are steps of `RestoreInv`:

* `Progress`: where the loop and the three calls are, and that a call is made for an entry that is
  ticked and has a window. `Untouched` follows from it.
* `CountedOnce`: the entries before `at` are counted, each once, and no others.
* `Undisturbed`: as long as nothing was disturbed, the reading of the windows is true and that of the
  monitors a part of them (`Listed`), what was counted as restored
  is still there, and each of the calls for the entry in hand finds what the one before left.
  Later entries do not undo it, because the matching gives them other windows (`OthersKept`).
* `IsCapture`: a layout that was captured, undisturbed, holds the desktop as it was.

### CaptureDialogProofs

| theorem | states |
|---|---|
| `ParseMeansAlways` | of any text `Parse` understands what its words say and nothing else, and it reads back every text and label that is written |
| `PressedIsSavedAlways` | what is stored means the key last pressed with the modifiers held then, and is what the dialog showed |
| `ImplementsModalDialog` | the dialog ends once, with an answer the rules accept or with none, and passes `WM_QUIT` on |

They hold for texts of any length, every keyboard, any keys in any order and whatever combinations others
have, and rest on `CaptureAssumption`.

* *The tables.* No name occurs twice in `letters`, `digits`, `functionKeys` and `namedKeys`, none is a
  modifier, and none separates (`NamesDiffer`, `SpellingsDiffer`, `NoneSeparates`). So nothing that
  is entered into `keyByName` replaces anything (`KeysAre`), and `keyName` is its inverse in both
  languages (`KeyNameIs`).
* *The loop.* `Understood` is its invariant: after `k` words, either all of them are known, at most one is a
  key, and the result is what they say; or the result is an error, and a word is unknown or two are
  keys. So the loop, which goes from left to right and stops at the first error, does what
  `Means` says of the words as a set (`ParseIs`).
* *The way back.* `Join` puts the words at the odd places (`JoinJoins`), `modParts` names the modifiers
  (`ModPartsDenote`); what such a text means is the combination it was made of (`JoinedMean`).
* *The dialog.* The invariant has two links of one chain: the `captureState` is what was pressed last
  (`CapturesPress`), and what is confirmed, and then stored, is the `captureState` (`AnswerInv`). What
  is stored is always a text (`StoredIsText`).

`ImplementsModalDialog` is the refinement `IsModalDialog` without its fairness.

### Not proved

Every invariant and every action property of the passing runs is proved. Only model-checked is
liveness: `FollowsDisplay`, `CloseEnds`, `IconReturns`, `QuitEnds`, and the live half of `IsModalDialog`. The
provers do not handle liveness under fairness. They cannot use induction over an operator either, nor
see into the folds of the community modules; what a loop computes is proved here for recursive
functions, by the least counterexample (`LeastMember`).

## 6. Where the code and its documents disagree

Each is the result of a run that checks what a document or comment says. `PROJECT.json` has
the quotations.

* `hotkey_leak`: a release that fails in `sync` is forgotten, and the combination
  stays with fenster although no layout has it. The probe has a retry for this, the
  registrations have none.
* `stale_press`: a hotkey pressed before and delivered after a sync for another
  setup restores the layout that has the id by then.

More were met while modelling, and follow from reading the code; no run is kept for
them. Where one bears on a property, the property says so.

* The monitors and windows are read before the menu is shown. If they change while it is
  open, a restore clamps against monitors that are gone and places by what was
  there (`main.go:382`). `Placed` speaks of a restore during which nothing changed.
* Overwriting a layout of another setup moves it here with its hotkey, which nothing
  compares with the layouts here (`main.go:590`). Of the two, the first is
  registered. If that is refused, its row says "(belegt)", the row of the second does not, and
  its keys do nothing either; `KeysAreLive` allows for this.
* `fenster -quit` with a dialog open ends in a sync without a window, and a balloon that
  says the hotkeys are taken (`main.go:422`).
* With a hand-edited spelling, and a setup that returns while the hotkey dialog is
  open, the no-change branch of `actionHotkey` (`main.go:675-703`) does not apply, and
  fenster probes a combination it holds itself.
* The deferred release of `main` (`main.go:143`) runs when the window that owned the
  registrations is gone, so every one fails and is logged on a normal exit.
* `onTaskbarRecreated` adds the icon once. If that call fails the process has none until
  Explorer restarts again; `IconReturns` exempts it.
* `fenster -quit` answers 1 for an instance that has no window yet or no longer, and
  `deploy.ps1` then says that nothing was running; if the process lasts, the copy fails.
  `HandoverClean` exempts it as a disturbance.
* If `CreateMutexW` fails the program starts all the same (`main.go:52-58`); `OneRunning`
  exempts it.
* `Load` is said to leave a file of a newer schema untouched (`store.go:39-40`), but it
  unmarshals (`store.go:52`) before it looks at the version (`store.go:60`). A newer file in which a
  field has another type is renamed to `.broken-...`, and fenster starts empty.
  `LoadMovesAside` does so with `Incompatible`; a property that spoke of every newer file
  would be violated there. `NewerUntouched` speaks of those that unmarshal, and
  `ForeignKept` says that the others are kept under the new name.
* `EnumMonitors` passes over a monitor it gets no information about, without an error
  (`desktop_windows.go:214`). The menu then shows the layouts of a setup that is not
  there: `Filed` and `KeysAreLive` speak of the monitors it returned. A restore moves windows from
  the monitor left out, which were in reach, and counts them as restored: `Placed` and
  `BringsBack` say where to. If no monitor was read, `Clamp` changes nothing, and a
  window may end up out of reach.
* The rectangle of a minimized or maximized window is in workspace coordinates
  (`desktop_windows.go:295-305`), and so is that of a normal one without `screen`; `Clamp`
  compares it with monitors in screen coordinates. With a taskbar at the top or at the left, a window whose
  restored place is visible may be moved, and one whose place is not may be left.
  A normal entry without `screen` is placed where the workspace rectangle says.
  `Reachable` and `StaysPut` speak of rectangles for this reason, and `Placed` promises reach only for
  windows that come up normal.
* `actionToggleAutostart` checks the Run entry (`main.go:797`) and then deletes (`main.go:804`) or sets
  it (`main.go:812`), opening the key each time. What another program writes in between
  is deleted or overwritten unseen, and an entry of fenster's that goes away in between is
  not noticed. An entry that starts another program counts as none, also in the menu, and is
  overwritten when the box is ticked.
* The tabs of a layout's name are replaced, those of a window's title are not: a window row
  can show something in the accelerator column (`menumodel.go:173`).

## 7. Not modelled

* Balloons, labels and logging, but for those a property is about.
* The text operations of `NormalizeTitle` and `Eligible`: a window is eligible or not,
  a pair of titles has a score. `Label` of a monitor, which is only shown.
* `NewID`: an id is fresh. A collision needs the fallback to the clock or equal
  random bits.
* In a layout's submenu a window is shown as not open if no live window has its executable; the code
  asks `MatchEntries`, which gives each window to one entry only. The balloon's count of minimized
  windows.
* The hash of a fingerprint: arrangements with different canonical strings count as different.
* The time stamps of a layout, among them `Updated`, which `SetInclude` sets (`store.go:155`) and the undo
  after a failed save does not set back (`main.go:572`); the name of a file moved aside, which has a
  resolution of one second (two corrupt files within a second would need the user
  to break the second by hand).
* The edit field and the buttons of `InputBox`, `Confirm` and `Alert`: Windows runs
  them. `InputBox` has the loop of `CaptureHotkey`, which CaptureDialog has in detail.
* A dialog on top of a dialog: `busy` keeps it from happening, which is `OneModal`.
* `syscalls_windows.go`, DPI awareness, the icon and its generator: declarations, or calls
  without a state.
* Calls that never return. A call to Windows either succeeds or fails.

## 8. Plan

The parts of the system that have a state or a decision to make are modelled, and what the runs check of
their safety is proved. Abstract specifications still worth stating, and proving: that Fenster implements a store of
layouts with atomic actions (the hotkey table as a function of store and monitors is
`HotkeysFollowSetup`); that Matching implements the choice of a stable assignment.
