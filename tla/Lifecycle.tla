------------------------------ MODULE Lifecycle ------------------------------
(***************************************************************************)
(* Several processes of fenster.exe on one desktop: main() of              *)
(* cmd/fenster/main.go from the single-instance guard to the deferred      *)
(* cleanup, the notification area that Explorer loses when it restarts,   *)
(* `fenster -quit`, and deploy.ps1, which stops the running copy, replaces *)
(* its binary and starts the new one.                                      *)
(*                                                                         *)
(* What the handlers do is the business of Fenster; here a process in its  *)
(* message loop only is or is not inside a menu or dialog, whose nested    *)
(* loop delivers messages all the same.                                    *)
(*                                                                         *)
(* The names LifeInit, LifeNext and LifeSpec leave room for a module that  *)
(* extends StoreFile as well.                                              *)
(***************************************************************************)
EXTENDS Naturals, Sequences, FiniteSets

CONSTANTS
    MaxProcs,       \* bound: processes ever started
    MaxIncidents,   \* bound: failing calls, kills, crashes of Explorer and, twice, starts
    MaxQueue        \* bound: messages waiting when WM_CLOSE is posted

ASSUME LifecycleAssumption ==
    /\ MaxProcs \in Nat
    /\ MaxIncidents \in Nat
    /\ MaxQueue \in Nat

\* A process is the order it is started in.
Proc   == 1 .. MaxProcs
NoProc == 0

VARIABLES
    stage,       \* where each process is
    mutex,       \* the processes with a handle of the named mutex
    windows,     \* the processes with a message window
    queue,       \* the messages posted to each window
    quitting,    \* the processes with WM_QUIT in their queue
    icons,       \* the processes with an icon in the notification area
    shell,       \* Explorer: "down", "up", or "new" before its broadcast
    crashes,     \* how often it crashed
    deploy,      \* where deploy.ps1 is
    target,      \* the process whose window `-quit` found
    fresh,       \* the process deploy.ps1 started
    unlucky,     \* history: <<p, call>> if the call failed p without a reason
    disturbed    \* history: something else was in the way of the deployment

lifeVars == <<stage, mutex, windows, queue, quitting, icons, shell, crashes, deploy,
              target, fresh, unlucky, disturbed>>

desktop == <<icons, shell, crashes>>
script  == <<deploy, target, fresh>>
history == <<unlucky, disturbed>>

\* The process is past the guard and its deferred release is yet to come.
Guarded == {"setup", "window", "icon", "run", "modal", "alert", "remove", "release"}

Pumping == {"run", "modal", "alert"}
Places  == Guarded \cup {"none", "guard", "opened", "refused", "exit", "gone", "killed"}

Alive == {p \in Proc : stage[p] \notin {"none", "gone", "killed"}}

Goto(p, place) == stage' = [stage EXCEPT ![p] = place]
At(p, place)   == stage[p] = place

Incidents ==
    2 * Cardinality({p \in Proc : ~At(p, "none")}) + Cardinality({p \in Proc : At(p, "killed")})
        + Cardinality(unlucky) + crashes

\* A call fails although nothing stands against it.
BadLuck(p, call) ==
    /\ Incidents < MaxIncidents
    /\ unlucky' = unlucky \cup {<<p, call>>}
    /\ UNCHANGED disturbed

-----------------------------------------------------------------------------
(* The guard: the mutex exists while any process has a handle of it.       *)

StartedBy(p) ==
    /\ At(p, "none")
    /\ \A q \in 1 .. p - 1 : ~At(q, "none")
    /\ Incidents + 2 <= MaxIncidents
    /\ Goto(p, "guard")
    /\ UNCHANGED <<mutex, windows, queue, quitting, desktop, unlucky>>

\* Somebody other than deploy.ps1 starts the program.
Launch(p) ==
    /\ StartedBy(p)
    /\ disturbed' = (disturbed \/ deploy # "idle")
    /\ UNCHANGED script

Acquire(p) ==
    /\ At(p, "guard")
    /\ mutex' = mutex \cup {p}
    /\ Goto(p, IF mutex = {} THEN "setup" ELSE "opened")
    /\ UNCHANGED <<windows, queue, quitting, desktop, script, history>>

\* The process goes on as if it were the only one.
AcquireFails(p) ==
    /\ At(p, "guard")
    /\ BadLuck(p, "CreateMutexW")
    /\ Goto(p, "setup")
    /\ UNCHANGED <<mutex, windows, queue, quitting, desktop, script>>

\* ERROR_ALREADY_EXISTS: the handle is closed before "fenster laeuft bereits".
Refuse(p) ==
    /\ At(p, "opened")
    /\ mutex' = mutex \ {p}
    /\ Goto(p, "refused")
    /\ UNCHANGED <<windows, queue, quitting, desktop, script, history>>

-----------------------------------------------------------------------------
(* The way into the message loop.                                          *)

\* Mutant of Setup: release is called at once instead of deferred.
SetupReleased(p) ==
    /\ At(p, "setup")
    /\ mutex' = mutex \ {p}
    /\ \E place \in {"window", "alert"} : Goto(p, place)
    /\ UNCHANGED <<windows, queue, quitting, desktop, script, history>>

\* Paths, the log, the icon file and Load; some of it can fail.
Setup(p) ==
    /\ At(p, "setup")
    /\ \E place \in {"window", "alert"} : Goto(p, place)
    /\ UNCHANGED <<mutex, windows, queue, quitting, desktop, script, history>>

CreateWindow(p) ==
    /\ At(p, "window")
    /\ windows' = windows \cup {p}
    /\ Goto(p, "icon")
    /\ UNCHANGED <<mutex, queue, quitting, desktop, script, history>>

CreateWindowFails(p) ==
    /\ At(p, "window")
    /\ BadLuck(p, "CreateWindowExW")
    /\ Goto(p, "alert")
    /\ UNCHANGED <<mutex, windows, queue, quitting, desktop, script>>

\* Shell_NotifyIconW(NIM_ADD) refuses an icon that is there already.
CanAdd(p) == shell # "down" /\ p \notin icons

\* The first sync, which follows, is in Fenster.
NewTrayIcon(p) ==
    /\ At(p, "icon")
    /\ CanAdd(p)
    /\ icons' = icons \cup {p}
    /\ Goto(p, "run")
    /\ UNCHANGED <<mutex, windows, queue, quitting, shell, crashes, script, history>>

NewTrayIconFails(p) ==
    /\ At(p, "icon")
    /\ IF CanAdd(p) THEN BadLuck(p, "NIM_ADD") ELSE UNCHANGED history
    /\ Goto(p, "alert")
    /\ UNCHANGED <<mutex, windows, queue, quitting, desktop, script>>

-----------------------------------------------------------------------------
(* Messages.  An Alert pumps them as well, after the window was created.   *)

Receives(p, m) ==
    /\ stage[p] \in Pumping
    /\ queue[p] # <<>>
    /\ Head(queue[p]) = m

\* Mutant of Readd: not while a menu or dialog is open.
ReaddIfFree(p) ==
    IF At(p, "run") /\ CanAdd(p)
    THEN \/ icons' = icons \cup {p} /\ UNCHANGED history
         \/ BadLuck(p, "NIM_ADD") /\ UNCHANGED icons
    ELSE UNCHANGED <<icons, history>>

\* onTaskbarRecreated; a process that shows an Alert has no trayIcon yet, and
\* an icon that cannot be added is not tried again.
Readd(p) ==
    IF ~At(p, "alert") /\ CanAdd(p)
    THEN \/ icons' = icons \cup {p} /\ UNCHANGED history
         \/ BadLuck(p, "NIM_ADD") /\ UNCHANGED icons
    ELSE UNCHANGED <<icons, history>>

DeliverTaskbarCreated(p) ==
    /\ Receives(p, "TaskbarCreated")
    /\ queue' = [queue EXCEPT ![p] = Tail(@)]
    /\ Readd(p)
    /\ UNCHANGED <<stage, mutex, windows, quitting, shell, crashes, script>>

\* DefWindowProcW destroys the window; its messages go with it.
DeliverClose(p) ==
    /\ Receives(p, "WM_CLOSE")
    /\ windows' = windows \ {p}
    /\ queue' = [queue EXCEPT ![p] = <<>>]
    /\ quitting' = quitting \cup {p}
    /\ UNCHANGED <<stage, mutex, desktop, script, history>>

\* A tray click or a hotkey opens something with a loop of its own.
OpenModal(p) ==
    /\ At(p, "run")
    /\ p \in windows
    /\ Goto(p, "modal")
    /\ UNCHANGED <<mutex, windows, queue, quitting, desktop, script, history>>

CloseModal(p) ==
    /\ At(p, "modal")
    /\ Goto(p, "run")
    /\ UNCHANGED <<mutex, windows, queue, quitting, desktop, script, history>>

\* actionQuit posts WM_CLOSE to the process's own window.
ChooseQuit(p) ==
    /\ At(p, "modal")
    /\ p \in windows
    /\ Len(queue[p]) < MaxQueue
    /\ queue' = [queue EXCEPT ![p] = Append(@, "WM_CLOSE")]
    /\ Goto(p, "run")
    /\ UNCHANGED <<mutex, windows, quitting, desktop, script, history>>

\* Mutant of QuitReceived: a dialog does not post WM_QUIT again.
QuitSwallowed(p) ==
    /\ p \in quitting
    /\ queue[p] = <<>>
    /\ \/ At(p, "modal") /\ Goto(p, "run") /\ quitting' = quitting \ {p}
       \/ At(p, "run") /\ Goto(p, "remove") /\ UNCHANGED quitting
       \/ At(p, "alert") /\ Goto(p, "release") /\ UNCHANGED quitting
    /\ UNCHANGED <<mutex, windows, queue, desktop, script, history>>

\* WM_QUIT, which comes after everything posted, ends each loop in turn.
QuitReceived(p) ==
    /\ p \in quitting
    /\ queue[p] = <<>>
    /\ \/ At(p, "modal") /\ Goto(p, "run")
       \/ At(p, "run") /\ Goto(p, "remove")
       \/ At(p, "alert") /\ Goto(p, "release")
    /\ UNCHANGED <<mutex, windows, queue, quitting, desktop, script, history>>

-----------------------------------------------------------------------------
(* The way out, where the deferred calls run last in, first out.           *)

\* The user closes a message box.
Acknowledge(p) ==
    /\ \/ At(p, "alert") /\ Goto(p, "release")
       \/ At(p, "refused") /\ Goto(p, "exit")
    /\ UNCHANGED <<mutex, windows, queue, quitting, desktop, script, history>>

\* Mutant of Remove: only the menu's Beenden removed the icon.
RemoveNothing(p) ==
    /\ At(p, "remove")
    /\ Goto(p, "release")
    /\ UNCHANGED <<mutex, windows, queue, quitting, desktop, script, history>>

\* The hotkeys are gone with the window; then NIM_DELETE.
Remove(p) ==
    /\ At(p, "remove")
    /\ \/ icons' = icons \ {p} /\ UNCHANGED history
       \/ p \in icons /\ BadLuck(p, "NIM_DELETE") /\ UNCHANGED icons
    /\ Goto(p, "release")
    /\ UNCHANGED <<mutex, windows, queue, quitting, shell, crashes, script>>

Release(p) ==
    /\ At(p, "release")
    /\ mutex' = mutex \ {p}
    /\ Goto(p, "exit")
    /\ UNCHANGED <<windows, queue, quitting, desktop, script, history>>

\* Windows takes the window and the handles of a process that ends.
Ends(p, place) ==
    /\ Goto(p, place)
    /\ mutex' = mutex \ {p}
    /\ windows' = windows \ {p}
    /\ queue' = [queue EXCEPT ![p] = <<>>]
    /\ quitting' = quitting \ {p}
    /\ UNCHANGED <<desktop, script, history>>

Exit(p) == At(p, "exit") /\ Ends(p, "gone")
Kill(p) == p \in Alive /\ Incidents < MaxIncidents /\ Ends(p, "killed")

-----------------------------------------------------------------------------
(* Explorer.                                                               *)

Crash ==
    /\ shell # "down"
    /\ Incidents < MaxIncidents
    /\ shell' = "down"
    /\ crashes' = crashes + 1
    /\ icons' = {}
    /\ UNCHANGED <<stage, mutex, windows, queue, quitting, script, history>>

Restart ==
    /\ shell = "down"
    /\ shell' = "new"
    /\ UNCHANGED <<stage, mutex, windows, queue, quitting, icons, crashes, script, history>>

\* TaskbarCreated goes to every top-level window.
Broadcast ==
    /\ shell = "new"
    /\ shell' = "up"
    /\ queue' = [p \in Proc |-> IF p \in windows THEN Append(queue[p], "TaskbarCreated")
                                ELSE queue[p]]
    /\ UNCHANGED <<stage, mutex, windows, quitting, icons, crashes, script, history>>

\* The shell finds out that the owner of an icon is dead.
Reap(p) ==
    /\ p \in icons \ Alive
    /\ icons' = icons \ {p}
    /\ UNCHANGED <<stage, mutex, windows, queue, quitting, shell, crashes, script, history>>

-----------------------------------------------------------------------------
(* `fenster -quit`, by hand and from deploy.ps1.                           *)

Posted(p) == [queue EXCEPT ![p] = Append(@, "WM_CLOSE")]

SignalQuit(p) ==
    /\ p \in windows
    /\ Len(queue[p]) < MaxQueue
    /\ queue' = Posted(p)
    /\ UNCHANGED <<stage, mutex, windows, quitting, desktop, script, history>>

\* Mutant of FindWindow: the script does not wait for the process to end.
FindWindowNoWait ==
    /\ deploy = "idle"
    /\ \/ /\ windows = {}
          /\ deploy' = "copy"
          /\ disturbed' = (disturbed \/ Alive # {})
          /\ UNCHANGED <<target, queue>>
       \/ /\ deploy' = "copy"
          /\ target' \in windows
          /\ queue' = Posted(target')
          /\ UNCHANGED disturbed
    /\ UNCHANGED <<stage, mutex, windows, quitting, desktop, fresh, unlucky>>

\* Exit code 1 stands for "none was running", also if one has no window yet
\* or no longer.
FindWindow ==
    /\ deploy = "idle"
    /\ \/ /\ windows = {}
          /\ deploy' = "copy"
          /\ disturbed' = (disturbed \/ Alive # {})
          /\ UNCHANGED target
       \/ /\ deploy' = "post"
          /\ target' \in windows
          /\ UNCHANGED disturbed
    /\ UNCHANGED <<stage, mutex, windows, queue, quitting, desktop, fresh, unlucky>>

\* PostMessageW: a window that has gone since is not noticed.
PostClose ==
    /\ deploy = "post"
    /\ deploy' = "wait"
    /\ queue' = IF target \in windows THEN Posted(target) ELSE queue
    /\ target' = NoProc
    /\ UNCHANGED <<stage, mutex, windows, quitting, desktop, fresh, history>>

\* The loop ends with the last process, or at the deadline.
Wait ==
    /\ deploy = "wait"
    /\ deploy' \in IF Alive = {} THEN {"copy"} ELSE {"aborted"}
    /\ UNCHANGED <<stage, mutex, windows, queue, quitting, desktop, target, fresh, history>>

\* Windows locks a running executable.
Copy ==
    /\ deploy = "copy"
    /\ deploy' = IF Alive = {} THEN "start" ELSE "blocked"
    /\ UNCHANGED <<stage, mutex, windows, queue, quitting, desktop, target, fresh, history>>

StartFresh(p) ==
    /\ deploy = "start"
    /\ StartedBy(p)
    /\ deploy' = "done"
    /\ fresh' = p
    /\ UNCHANGED <<target, disturbed>>

-----------------------------------------------------------------------------
LifeInit ==
    /\ stage = [p \in Proc |-> "none"]
    /\ mutex = {} /\ windows = {} /\ quitting = {} /\ icons = {}
    /\ queue = [p \in Proc |-> <<>>]
    /\ shell = "up" /\ crashes = 0
    /\ deploy = "idle" /\ target = NoProc /\ fresh = NoProc
    /\ unlucky = {} /\ disturbed = FALSE

\* What a process does without anybody's help.
ThreadStep(p) ==
    \/ Acquire(p) \/ AcquireFails(p) \/ Refuse(p)
    \/ Setup(p) \/ CreateWindow(p) \/ CreateWindowFails(p)
    \/ NewTrayIcon(p) \/ NewTrayIconFails(p)
    \/ DeliverTaskbarCreated(p) \/ DeliverClose(p) \/ QuitReceived(p)
    \/ Remove(p) \/ Release(p) \/ Exit(p)

UserStep(p) ==
    \/ Launch(p) \/ OpenModal(p) \/ CloseModal(p) \/ ChooseQuit(p) \/ Acknowledge(p)
    \/ SignalQuit(p) \/ Kill(p) \/ Reap(p)

DeployStep ==
    \/ FindWindow \/ PostClose \/ Wait \/ Copy
    \/ \E p \in Proc : StartFresh(p)

LifeNext ==
    \/ \E p \in Proc : ThreadStep(p) \/ UserStep(p)
    \/ DeployStep
    \/ Crash \/ Restart \/ Broadcast

\* A process is scheduled and Explorer completes its start; whether a user
\* closes a dialog, or Explorer starts again at all, is left open.
Fairness ==
    /\ \A p \in Proc : WF_lifeVars(ThreadStep(p))
    /\ WF_lifeVars(Broadcast)

LifeSpec == LifeInit /\ [][LifeNext]_lifeVars /\ Fairness

-----------------------------------------------------------------------------
(***************************************************************************)
(* "single instance": of the processes whose CreateMutexW worked, one is   *)
(* past the guard, from loading the layouts until its icon is removed.     *)
(***************************************************************************)
OneRunning ==
    \A p, q \in Proc :
        /\ stage[p] \in Guarded /\ stage[q] \in Guarded
        /\ {<<p, "CreateMutexW">>, <<q, "CreateMutexW">>} \cap unlucky = {}
        => p = q

(***************************************************************************)
(* "Every way this process can end" removes the icon: the shell shows one  *)
(* without a process only if that was killed or its NIM_DELETE failed,     *)
(* however Explorer's restarts fall.                                       *)
(***************************************************************************)
NoGhostIcon ==
    \A p \in icons : p \in Alive \/ At(p, "killed") \/ <<p, "NIM_DELETE">> \in unlucky

(***************************************************************************)
(* A deployment does not trip over the copy it stopped: the binary is not  *)
(* locked and the new process not refused, unless another one was started  *)
(* or `-quit` overlooked one that had no window.                           *)
(***************************************************************************)
HandoverClean ==
    ~disturbed =>
        /\ deploy # "blocked"
        /\ fresh # NoProc => stage[fresh] \notin {"opened", "refused"}

(***************************************************************************)
(* Once Explorer is back, a process in its message loop has an icon again, *)
(* also if a menu or dialog is open all the time: "the one thing no        *)
(* failure is allowed to do" is to leave it without.  One failing NIM_ADD  *)
(* still does; nothing tries again.                                        *)
(***************************************************************************)
InLoop(p) == p \in windows /\ stage[p] \in {"run", "modal"}

IconReturns ==
    \A p \in Proc :
        (InLoop(p) /\ shell # "down")
            ~> (p \in icons \/ ~InLoop(p) \/ shell = "down" \/ <<p, "NIM_ADD">> \in unlucky)

(***************************************************************************)
(* A process that `-quit` was posted to ends, whatever it is doing: still  *)
(* starting, showing an Alert, or waiting in a dialog nobody answers.      *)
(***************************************************************************)
CloseSent(p) == \E k \in DOMAIN queue[p] : queue[p][k] = "WM_CLOSE"

QuitEnds == \A p \in Proc : CloseSent(p) ~> stage[p] \in {"gone", "killed"}
=============================================================================
