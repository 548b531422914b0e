---------------------------- MODULE HotkeyManager ----------------------------
(***************************************************************************)
(* hotkeyManager of cmd/fenster/hotkeys.go against the hotkey table of     *)
(* Windows.  sync and probe are sequences of RegisterHotKey and            *)
(* UnregisterHotKey calls; each call is a step here, because between two   *)
(* of them another process may take or give up a combination.              *)
(*                                                                         *)
(* The caller of the manager is the UI thread: one call at a time, and the *)
(* layouts cannot change during a call.  The module only constrains the    *)
(* caller to the set Calls of arguments it may pass to sync.               *)
(***************************************************************************)
EXTENDS HotkeySelect

CONSTANTS
    LayoutId,
    Layout,       \* the records sync reads id, setup and hotkey of
    Setup,        \* monitor fingerprints
    LayoutLists,  \* the values store.Layouts() takes
    MaxFaults     \* bound on the calls to Windows that fail for no visible reason

ASSUME ManagerAssumption ==
    /\ \A l \in Layout : l.id \in LayoutId /\ l.setup \in Setup /\ l.hotkey \in Text
    /\ LayoutLists \subseteq Seq(Layout)
    /\ MaxFaults \in Nat

VARIABLES
    \* hotkeyManager's fields
    registered, unavailable, probeReleasePending,
    \* the call in progress: its step, arguments and local variables
    pc, layouts, fingerprint, releasing, todo, nextId, was, newly, asked,
    \* Windows: what the message window holds, what other processes hold,
    \* and whether the window still exists
    held, foreign, alive,
    \* calls that may still fail for no visible reason
    faults

manager == <<registered, unavailable, probeReleasePending>>
locals  == <<layouts, fingerprint, releasing, todo, nextId, was, newly, asked>>
windows == <<held, foreign, alive, faults>>
vars    == <<manager, pc, locals, windows>>

probeId == 0

-----------------------------------------------------------------------------
(***************************************************************************)
(* RegisterHotKey and UnregisterHotKey.  A combination has one owner in    *)
(* the whole system.  Registering a second combination under an id keeps   *)
(* the first; which of them a release then frees is not documented.  A     *)
(* release of an id that holds nothing fails.  A window that is destroyed  *)
(* loses its registrations, and can make no new ones.                      *)
(***************************************************************************)
Taken(c) == c \in foreign \/ \E r \in held : r[2] = c
HeldUnder(id) == {r \in held : r[1] = id}

Fault == faults > 0 /\ faults' = faults - 1

RegisterSucceeds(id, c) ==
    /\ alive
    /\ ~Taken(c)
    /\ held' = held \cup {<<id, c>>}
    /\ UNCHANGED <<foreign, alive, faults>>

RegisterFails(c) ==
    /\ IF alive /\ ~Taken(c) THEN Fault ELSE UNCHANGED faults
    /\ UNCHANGED <<held, foreign, alive>>

UnregisterSucceeds(id) ==
    /\ \E freed \in (SUBSET HeldUnder(id)) \ {{}} : held' = held \ freed
    /\ UNCHANGED <<foreign, alive, faults>>

UnregisterFails(id) ==
    /\ IF HeldUnder(id) # {} THEN Fault ELSE UNCHANGED faults
    /\ UNCHANGED <<held, foreign, alive>>

\* A call to Windows outside the manager fails.
OtherCallFails ==
    /\ Fault
    /\ UNCHANGED <<manager, pc, locals, held, foreign, alive>>

\* Another process takes or gives up a combination.
ForeignRegister(c) ==
    /\ ~Taken(c)
    /\ foreign' = foreign \cup {c}
    /\ UNCHANGED <<manager, pc, locals, held, alive, faults>>

ForeignUnregister(c) ==
    /\ c \in foreign
    /\ foreign' = foreign \ {c}
    /\ UNCHANGED <<manager, pc, locals, held, alive, faults>>

-----------------------------------------------------------------------------
Idle == pc = "idle"

\* The message window is destroyed, by the thread the manager runs on.
DestroyWindow ==
    /\ Idle
    /\ alive' = FALSE
    /\ held' = {}
    /\ UNCHANGED <<manager, pc, locals, foreign, faults>>

\* The process ends, or is killed in the middle of a call: Windows releases
\* what it held.
ProcessEnds ==
    /\ pc' = "idle"
    /\ releasing' = {}
    /\ todo' = {}
    /\ nextId' = 1
    /\ was' = {}
    /\ newly' = 0
    /\ asked' = Zero
    /\ alive' = FALSE
    /\ held' = {}
    /\ UNCHANGED <<manager, layouts, fingerprint, foreign, faults>>

\* A new process has created its message window and a manager for it.
ProcessStarts ==
    /\ Idle
    /\ ~alive
    /\ registered' = [id \in {} |-> {}]
    /\ unavailable' = {}
    /\ probeReleasePending' = FALSE
    /\ layouts' = <<>>
    /\ alive' = TRUE
    /\ UNCHANGED <<pc, fingerprint, releasing, todo, nextId, was, newly, asked,
                   held, foreign, faults>>

\* sync is called: its first step is to retry a probe release that failed.
CallSync(ls, f) ==
    /\ Idle
    /\ pc' = "retryProbe"
    /\ layouts' = ls
    /\ fingerprint' = f
    /\ UNCHANGED <<manager, releasing, todo, nextId, was, newly, asked, windows>>

RetryProbeRelease ==
    /\ pc = "retryProbe"
    /\ \/ /\ ~probeReleasePending
          /\ UNCHANGED <<probeReleasePending, windows>>
       \/ /\ probeReleasePending
          /\ UnregisterSucceeds(probeId)
          /\ probeReleasePending' = FALSE
       \/ /\ probeReleasePending
          /\ UnregisterFails(probeId)
          /\ UNCHANGED probeReleasePending
    /\ pc' = "release"
    /\ releasing' = DOMAIN registered
    /\ UNCHANGED <<registered, unavailable, layouts, fingerprint, todo, nextId,
                   was, newly, asked>>

\* One turn of the loop over the map of registrations, in any order.  A
\* release that fails is logged and otherwise treated like one that does not.
Release(id) ==
    /\ pc = "release"
    /\ id \in releasing
    /\ UnregisterSucceeds(id) \/ UnregisterFails(id)
    /\ releasing' = releasing \ {id}
    /\ UNCHANGED <<manager, pc, layouts, fingerprint, todo, nextId, was, newly,
                   asked>>

\* Mutant of SelectActive: the ids begin at the probe's.
SelectActiveFromZero ==
    /\ pc = "release"
    /\ releasing = {}
    /\ pc' = "register"
    /\ registered' = [id \in {} |-> {}]
    /\ todo' = Active(layouts, fingerprint)
    /\ was' = unavailable
    /\ unavailable' = {}
    /\ newly' = 0
    /\ nextId' = probeId
    /\ UNCHANGED <<probeReleasePending, layouts, fingerprint, releasing, asked,
                   windows>>

\* Mutant of SelectActive: the marks of the last sync are kept.
SelectActiveKeepingMarks ==
    /\ pc = "release"
    /\ releasing = {}
    /\ pc' = "register"
    /\ registered' = [id \in {} |-> {}]
    /\ todo' = Active(layouts, fingerprint)
    /\ was' = unavailable
    /\ newly' = 0
    /\ nextId' = 1
    /\ UNCHANGED <<unavailable, probeReleasePending, layouts, fingerprint,
                   releasing, asked, windows>>

SelectActive ==
    /\ pc = "release"
    /\ releasing = {}
    /\ pc' = "register"
    /\ registered' = [id \in {} |-> {}]
    /\ todo' = Active(layouts, fingerprint)
    /\ was' = unavailable
    /\ unavailable' = {}
    /\ newly' = 0
    /\ nextId' = 1
    /\ UNCHANGED <<probeReleasePending, layouts, fingerprint, releasing, asked,
                   windows>>

NextBinding(i) == i \in todo /\ \A j \in todo : i <= j

\* Mutant of RegisterGranted: the next layout gets the same id.
RegisterGrantedSameId(i) ==
    /\ pc = "register"
    /\ NextBinding(i)
    /\ RegisterSucceeds(nextId, Parse[layouts[i].hotkey])
    /\ registered' = [id \in DOMAIN registered \cup {nextId} |->
                        IF id = nextId THEN layouts[i].id ELSE registered[id]]
    /\ todo' = todo \ {i}
    /\ UNCHANGED <<unavailable, probeReleasePending, pc, layouts, fingerprint,
                   releasing, nextId, was, newly, asked>>

RegisterGranted(i) ==
    /\ pc = "register"
    /\ NextBinding(i)
    /\ RegisterSucceeds(nextId, Parse[layouts[i].hotkey])
    /\ registered' = [id \in DOMAIN registered \cup {nextId} |->
                        IF id = nextId THEN layouts[i].id ELSE registered[id]]
    /\ nextId' = nextId + 1
    /\ todo' = todo \ {i}
    /\ UNCHANGED <<unavailable, probeReleasePending, pc, layouts, fingerprint,
                   releasing, was, newly, asked>>

\* Mutant of RegisterRefused: every refusal is news.
RegisterRefusedAlwaysNews(i) ==
    /\ pc = "register"
    /\ NextBinding(i)
    /\ RegisterFails(Parse[layouts[i].hotkey])
    /\ unavailable' = unavailable \cup {layouts[i].id}
    /\ newly' = newly + 1
    /\ todo' = todo \ {i}
    /\ UNCHANGED <<registered, probeReleasePending, pc, layouts, fingerprint,
                   releasing, nextId, was, asked>>

\* Mutant of RegisterRefused: the layout is entered before the error is seen.
RegisterRefusedEntered(i) ==
    /\ pc = "register"
    /\ NextBinding(i)
    /\ RegisterFails(Parse[layouts[i].hotkey])
    /\ registered' = [id \in DOMAIN registered \cup {nextId} |->
                        IF id = nextId THEN layouts[i].id ELSE registered[id]]
    /\ unavailable' = unavailable \cup {layouts[i].id}
    /\ newly' = IF layouts[i].id \in was THEN newly ELSE newly + 1
    /\ todo' = todo \ {i}
    /\ UNCHANGED <<probeReleasePending, pc, layouts, fingerprint, releasing,
                   nextId, was, asked>>

RegisterRefused(i) ==
    /\ pc = "register"
    /\ NextBinding(i)
    /\ RegisterFails(Parse[layouts[i].hotkey])
    /\ unavailable' = unavailable \cup {layouts[i].id}
    /\ newly' = IF layouts[i].id \in was THEN newly ELSE newly + 1
    /\ todo' = todo \ {i}
    /\ UNCHANGED <<registered, probeReleasePending, pc, layouts, fingerprint,
                   releasing, nextId, was, asked>>

\* The call's local variables go out of scope.
SyncReturns ==
    /\ pc = "register"
    /\ todo = {}
    /\ pc' = "idle"
    /\ nextId' = 1
    /\ was' = {}
    /\ newly' = 0
    /\ UNCHANGED <<manager, layouts, fingerprint, releasing, todo, asked, windows>>

-----------------------------------------------------------------------------
\* probe: register under id 0 and release at once.  The answer is the step
\* the call ends in: "granted", "inUse" (ErrHotkeyInUse) or "failed".
CallProbe(c) ==
    /\ Idle
    /\ pc' = "probe"
    /\ asked' = c
    /\ UNCHANGED <<manager, layouts, fingerprint, releasing, todo, nextId, was,
                   newly, windows>>

ProbeRegister ==
    /\ pc = "probe"
    /\ \/ RegisterSucceeds(probeId, asked) /\ pc' = "probeHeld"
       \/ RegisterFails(asked) /\ pc' = IF alive /\ Taken(asked) THEN "inUse" ELSE "failed"
    /\ UNCHANGED <<manager, locals>>

\* Mutant of ProbeRelease: a release that fails is only logged.
ProbeReleaseForgotten ==
    /\ pc = "probeHeld"
    /\ pc' = "granted"
    /\ UnregisterSucceeds(probeId) \/ UnregisterFails(probeId)
    /\ UNCHANGED <<manager, locals>>

ProbeRelease ==
    /\ pc = "probeHeld"
    /\ pc' = "granted"
    /\ \/ UnregisterSucceeds(probeId) /\ UNCHANGED probeReleasePending
       \/ UnregisterFails(probeId) /\ probeReleasePending' = TRUE
    /\ UNCHANGED <<registered, unavailable, locals>>

ProbeReturns ==
    /\ pc \in {"granted", "inUse", "failed"}
    /\ pc' = "idle"
    /\ asked' = Zero
    /\ UNCHANGED <<manager, layouts, fingerprint, releasing, todo, nextId, was,
                   newly, windows>>

-----------------------------------------------------------------------------
Init ==
    /\ registered = [id \in {} |-> {}]
    /\ unavailable = {}
    /\ probeReleasePending = FALSE
    /\ pc = "idle"
    /\ layouts = <<>>
    /\ fingerprint \in Setup
    /\ releasing = {}
    /\ todo = {}
    /\ nextId = 1
    /\ was = {}
    /\ newly = 0
    /\ asked = Zero
    /\ held = {}
    /\ foreign = {}
    /\ alive = TRUE
    /\ faults = MaxFaults

\* The steps of a call in progress.
Step ==
    \/ RetryProbeRelease
    \/ \E id \in releasing : Release(id)
    \/ SelectActive
    \/ \E i \in todo : RegisterGranted(i)
    \/ \E i \in todo : RegisterRefused(i)
    \/ SyncReturns
    \/ ProbeRegister
    \/ ProbeRelease
    \/ ProbeReturns

Next ==
    \/ Step
    \/ \E ls \in LayoutLists, f \in Setup : CallSync(ls, f)
    \/ \E c \in Combo : CallProbe(c)
    \/ \E c \in Combo : ForeignRegister(c)
    \/ \E c \in Combo : ForeignUnregister(c)
    \/ DestroyWindow \/ ProcessEnds \/ ProcessStarts
    \/ OtherCallFails

Spec == Init /\ [][Next]_vars

-----------------------------------------------------------------------------
(***************************************************************************)
(* Type invariant.                                                         *)
(***************************************************************************)
ManagerOK ==
    /\ DOMAIN registered \subseteq Nat \ {probeId}
    /\ \A id \in DOMAIN registered : registered[id] \in LayoutId
    /\ unavailable \subseteq LayoutId
    /\ probeReleasePending \in BOOLEAN

CallOK ==
    /\ pc \in {"idle", "retryProbe", "release", "register",
              "probe", "probeHeld", "granted", "inUse", "failed"}
    /\ layouts \in Seq(Layout)
    /\ fingerprint \in Setup
    /\ releasing \subseteq Nat \ {probeId}
    /\ todo \subseteq DOMAIN layouts
    /\ nextId \in Nat \ {probeId}
    /\ was \subseteq LayoutId
    /\ newly \in Nat
    /\ asked \in Combo \cup {Zero}

WindowsOK ==
    /\ held \subseteq Nat \X Combo
    /\ foreign \subseteq Combo
    /\ alive \in BOOLEAN
    /\ faults \in 0 .. MaxFaults

TypeOK == ManagerOK /\ CallOK /\ WindowsOK

\* The registrations are those of the arguments in layouts and fingerprint:
\* from the moment sync forgets the old ones until it is called again.
Synced == pc \notin {"retryProbe", "release"}

\* No call has failed so far for a reason other than the state of the table.
NoFault == faults = MaxFaults

\* The positions sync has dealt with.
Done == Active(layouts, fingerprint) \ todo

(***************************************************************************)
(* Every entry of registered is a layout that should be live, and its      *)
(* combination is held by this process under that very id, so that the     *)
(* id in a WM_HOTKEY names the layout the user bound the keys to.  This    *)
(* survives refused registrations and releases that fail.                  *)
(***************************************************************************)
RegisteredIsHeld ==
    Synced /\ alive => \A id \in DOMAIN registered : \E i \in Done :
                 /\ registered[id] = layouts[i].id
                 /\ <<id, Parse[layouts[i].hotkey]>> \in held

(***************************************************************************)
(* "Failures are collected, never fatal": each layout that should be live  *)
(* ends up either registered or marked unavailable, and no other layout is *)
(* either.  Nothing is dropped between two refusals, and no mark of the    *)
(* previous setup survives.                                                *)
(***************************************************************************)
AllAccountedFor ==
    Synced /\ alive => {registered[id] : id \in DOMAIN registered} \cup unavailable
                 = {layouts[i].id : i \in Done}

(***************************************************************************)
(* What the process holds outside a probe is exactly what registered says: *)
(* "sync makes the registered set match the layouts of the given setup".   *)
(* A press can neither go unanswered nor reach another layout, and nothing *)
(* stays registered for a layout or a setup that is no longer in use.      *)
(***************************************************************************)
HeldMatches ==
    Synced =>
        \A r \in held :
            \/ r[1] = probeId
            \/ /\ r[1] \in DOMAIN registered
               /\ \E i \in Done : /\ registered[r[1]] = layouts[i].id
                                  /\ r[2] = Parse[layouts[i].hotkey]

(***************************************************************************)
(* That holds as long as Windows refuses nothing for no reason, and then   *)
(* the probe's id is in use only during a probe.                           *)
(***************************************************************************)
HeldIsRegistered ==
    NoFault => HeldMatches /\ (HeldUnder(probeId) # {} => pc = "probeHeld")

(***************************************************************************)
(* fenster never refuses a combination to itself: as long as Windows       *)
(* refuses nothing for no reason, a layout is marked unavailable only for  *)
(* a combination another process owns, never because an older registration *)
(* or another layout of the same setup is in the way.                      *)
(***************************************************************************)
NeverBlocksItself ==
    [][\A i \in todo : RegisterRefused(i) /\ NoFault' /\ alive =>
            Parse[layouts[i].hotkey] \in foreign]_vars

(***************************************************************************)
(* A probe whose release failed is not forgotten: with a single failure,   *)
(* id 0 is in use between calls only while probeReleasePending says so,    *)
(* which is what makes every later sync retry it.                          *)
(***************************************************************************)
ProbeNotForgotten ==
    Idle /\ faults >= MaxFaults - 1 =>
        (HeldUnder(probeId) # {} => probeReleasePending)

(***************************************************************************)
(* The user is told once: the number sync returns is positive exactly when *)
(* some layout is unavailable that was not when the call began, so that a  *)
(* later sync of the same state shows no second balloon.                   *)
(***************************************************************************)
BalloonOnlyForNews ==
    pc = "register" => (newly > 0 <=> ~(unavailable \subseteq was))
=============================================================================
