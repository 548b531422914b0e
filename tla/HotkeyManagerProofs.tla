------------------------- MODULE HotkeyManagerProofs -------------------------
(***************************************************************************)
(* What holds of the hotkey manager for every set of layouts, setups and   *)
(* combinations, and any number of failing calls.                          *)
(***************************************************************************)
EXTENDS HotkeyManager, TLAPS

(***************************************************************************)
(* The types, and what a local variable may hold at each step of a call:   *)
(* TypeOK alone is not inductive, because CallSync replaces the list that  *)
(* todo points into, and a probe registers what asked holds.               *)
(***************************************************************************)
LocalsOK ==
    /\ todo # {} => pc = "register"
    /\ releasing # {} => pc = "release"
    /\ pc \in {"probe", "probeHeld"} => asked \in Combo
    /\ todo \subseteq Active(layouts, fingerprint)

TypeInv == TypeOK /\ LocalsOK

\* What Active selects: positions of the list, with a combination each.
LEMMA ActiveSelects ==
    ASSUME NEW ls, NEW f
    PROVE  /\ Active(ls, f) \subseteq DOMAIN ls
           /\ \A i \in Active(ls, f) : Parse[ls[i].hotkey] \in Combo
    BY DEF Active, Bound

\* A list of layouts holds layouts, whose ids are layout ids.
LEMMA LayoutAt ==
    ASSUME NEW ls \in Seq(Layout), NEW i \in DOMAIN ls
    PROVE  ls[i] \in Layout /\ ls[i].id \in LayoutId
    BY ManagerAssumption

\* Two selected positions of a list have different combinations.
LEMMA ActiveDistinct ==
    ASSUME NEW ls \in Seq(Layout), NEW f,
           NEW i \in Active(ls, f), NEW j \in Active(ls, f), i # j
    PROVE  Parse[ls[i].hotkey] # Parse[ls[j].hotkey]
    <1>1. i \in 1 .. Len(ls) /\ j \in 1 .. Len(ls)
        BY ActiveSelects
    <1>2. CASE i < j
        BY <1>1, <1>2 DEF Active
    <1>3. CASE j < i
        BY <1>1, <1>3 DEF Active
    <1> QED
        BY <1>1, <1>2, <1>3

-----------------------------------------------------------------------------
(***************************************************************************)
(* Type correctness.                                                       *)
(***************************************************************************)
\* Where a position to be registered points to.
LEMMA LayoutOfTodo ==
    ASSUME TypeInv, NEW i \in todo
    PROVE  Parse[layouts[i].hotkey] \in Combo /\ layouts[i].id \in LayoutId
    BY ActiveSelects, LayoutAt DEF TypeInv, TypeOK, CallOK, LocalsOK

\* No call to Windows leaves the types of its side.
LEMMA RegisterTypes ==
    ASSUME WindowsOK, NEW id \in Nat, NEW c \in Combo,
           RegisterSucceeds(id, c) \/ RegisterFails(c)
    PROVE  WindowsOK'
    <1>1. CASE RegisterSucceeds(id, c)
        BY <1>1 DEF RegisterSucceeds, WindowsOK
    <1>2. CASE RegisterFails(c)
        BY <1>2, ManagerAssumption DEF RegisterFails, Fault, WindowsOK
    <1> QED
        BY <1>1, <1>2

LEMMA UnregisterTypes ==
    ASSUME WindowsOK, NEW id,
           UnregisterSucceeds(id) \/ UnregisterFails(id)
    PROVE  WindowsOK'
    <1>1. CASE UnregisterSucceeds(id)
        BY <1>1 DEF UnregisterSucceeds, WindowsOK
    <1>2. CASE UnregisterFails(id)
        BY <1>2, ManagerAssumption DEF UnregisterFails, Fault, WindowsOK
    <1> QED
        BY <1>1, <1>2

LEMMA TypeInit == Init => TypeInv
    <1> SUFFICES ASSUME Init PROVE TypeInv
        OBVIOUS
    <1>1. ManagerOK
        BY DEF Init, ManagerOK
    <1>2. CallOK
        BY DEF Init, CallOK, probeId
    <1>3. WindowsOK
        BY ManagerAssumption DEF Init, WindowsOK
    <1>4. LocalsOK
        BY DEF Init, LocalsOK
    <1> QED
        BY <1>1, <1>2, <1>3, <1>4 DEF TypeInv, TypeOK

LEMMA TypeStep == TypeInv /\ [Next]_vars => TypeInv'
    <1> SUFFICES ASSUME TypeInv, [Next]_vars PROVE TypeInv'
        OBVIOUS
    <1> USE DEF TypeInv, TypeOK, probeId
    <1>1. CASE RetryProbeRelease
        <2>1. ManagerOK'
            BY <1>1 DEF ManagerOK, RetryProbeRelease, UnregisterSucceeds, UnregisterFails, Fault, windows
        <2>2. CallOK'
            BY <1>1 DEF ManagerOK, CallOK, LocalsOK, RetryProbeRelease, windows
        <2>3. WindowsOK'
            <3>1. CASE UNCHANGED windows
                BY <3>1 DEF WindowsOK, windows
            <3>2. CASE UnregisterSucceeds(0) \/ UnregisterFails(0)
                BY <3>2, UnregisterTypes
            <3> QED
                BY <1>1, <3>1, <3>2 DEF RetryProbeRelease
        <2>4. LocalsOK'
            BY <1>1 DEF LocalsOK, RetryProbeRelease, UnregisterSucceeds, UnregisterFails, Fault, windows
        <2> QED
            BY <2>1, <2>2, <2>3, <2>4
    <1>2. ASSUME NEW id \in releasing, Release(id) PROVE TypeInv'
        <2>1. ManagerOK'
            BY <1>2 DEF ManagerOK, Release, UnregisterSucceeds, UnregisterFails, Fault, manager
        <2>2. CallOK'
            BY <1>2 DEF CallOK, Release, UnregisterSucceeds, UnregisterFails, Fault, manager
        <2>3. WindowsOK'
            BY <1>2, UnregisterTypes DEF CallOK, Release
        <2>4. LocalsOK'
            BY <1>2 DEF LocalsOK, Release, UnregisterSucceeds, UnregisterFails, Fault, manager
        <2> QED
            BY <2>1, <2>2, <2>3, <2>4
    <1>3. CASE SelectActive
        <2>1. ManagerOK'
            BY <1>3, ActiveSelects DEF ManagerOK, SelectActive, windows
        <2>2. CallOK'
            BY <1>3, ActiveSelects DEF ManagerOK, CallOK, SelectActive
        <2>3. WindowsOK'
            BY <1>3, ActiveSelects DEF WindowsOK, SelectActive, windows
        <2>4. LocalsOK'
            BY <1>3, ActiveSelects DEF LocalsOK, SelectActive, windows
        <2> QED
            BY <2>1, <2>2, <2>3, <2>4
    <1>4. ASSUME NEW i \in todo, RegisterGranted(i) PROVE TypeInv'
        <2>1. ManagerOK'
            BY <1>4, LayoutOfTodo DEF ManagerOK, CallOK, RegisterGranted
        <2>2. CallOK'
            BY <1>4, LayoutOfTodo DEF CallOK, RegisterGranted, RegisterSucceeds
        <2>3. WindowsOK'
            BY <1>4, LayoutOfTodo, RegisterTypes DEF CallOK, RegisterGranted
        <2>4. LocalsOK'
            BY <1>4, LayoutOfTodo DEF LocalsOK, RegisterGranted, RegisterSucceeds
        <2> QED
            BY <2>1, <2>2, <2>3, <2>4
    <1>5. ASSUME NEW i \in todo, RegisterRefused(i) PROVE TypeInv'
        <2>1. ManagerOK'
            BY <1>5, LayoutOfTodo DEF ManagerOK, RegisterRefused, RegisterFails, Fault
        <2>2. CallOK'
            BY <1>5, LayoutOfTodo DEF CallOK, RegisterRefused, RegisterFails, Fault
        <2>3. WindowsOK'
            BY <1>5, LayoutOfTodo, RegisterTypes DEF RegisterRefused
        <2>4. LocalsOK'
            BY <1>5, LayoutOfTodo DEF LocalsOK, RegisterRefused, RegisterFails, Fault
        <2> QED
            BY <2>1, <2>2, <2>3, <2>4
    <1>6. CASE SyncReturns
        <2>1. ManagerOK'
            BY <1>6 DEF ManagerOK, SyncReturns, manager, windows
        <2>2. CallOK'
            BY <1>6 DEF CallOK, SyncReturns, manager, windows
        <2>3. WindowsOK'
            BY <1>6 DEF WindowsOK, SyncReturns, manager, windows
        <2>4. LocalsOK'
            BY <1>6 DEF LocalsOK, SyncReturns, manager, windows
        <2> QED
            BY <2>1, <2>2, <2>3, <2>4
    <1>7. CASE ProbeRegister
        <2>1. ManagerOK'
            BY <1>7 DEF ManagerOK, ProbeRegister, RegisterSucceeds, RegisterFails, Fault, manager, locals
        <2>2. CallOK'
            BY <1>7 DEF CallOK, ProbeRegister, RegisterSucceeds, RegisterFails, Fault, manager, locals
        <2>3. WindowsOK'
            BY <1>7, RegisterTypes DEF LocalsOK, ProbeRegister
        <2>4. LocalsOK'
            BY <1>7 DEF LocalsOK, ProbeRegister, RegisterSucceeds, RegisterFails, Fault, manager, locals
        <2> QED
            BY <2>1, <2>2, <2>3, <2>4
    <1>8. CASE ProbeRelease
        <2>1. ManagerOK'
            BY <1>8 DEF ManagerOK, ProbeRelease, UnregisterSucceeds, UnregisterFails, Fault, locals
        <2>2. CallOK'
            BY <1>8 DEF CallOK, ProbeRelease, UnregisterSucceeds, UnregisterFails, Fault, locals
        <2>3. WindowsOK'
            BY <1>8, UnregisterTypes DEF LocalsOK, ProbeRelease
        <2>4. LocalsOK'
            BY <1>8 DEF LocalsOK, ProbeRelease, UnregisterSucceeds, UnregisterFails, Fault, locals
        <2> QED
            BY <2>1, <2>2, <2>3, <2>4
    <1>9. CASE ProbeReturns
        <2>1. ManagerOK'
            BY <1>9 DEF ManagerOK, ProbeReturns, manager, windows
        <2>2. CallOK'
            BY <1>9 DEF CallOK, ProbeReturns, manager, windows
        <2>3. WindowsOK'
            BY <1>9 DEF WindowsOK, ProbeReturns, manager, windows
        <2>4. LocalsOK'
            BY <1>9 DEF LocalsOK, ProbeReturns, manager, windows
        <2> QED
            BY <2>1, <2>2, <2>3, <2>4
    <1>10. ASSUME NEW ls \in LayoutLists, NEW f \in Setup, CallSync(ls, f) PROVE TypeInv'
        <2>1. ManagerOK'
            BY <1>10, ManagerAssumption DEF ManagerOK, CallSync, Idle, manager, windows
        <2>2. CallOK'
            BY <1>10, ManagerAssumption DEF CallOK, LocalsOK, CallSync, Idle
        <2>3. WindowsOK'
            BY <1>10, ManagerAssumption DEF WindowsOK, CallSync, Idle, manager, windows
        <2>4. LocalsOK'
            BY <1>10, ManagerAssumption DEF LocalsOK, CallSync, Idle, manager, windows
        <2> QED
            BY <2>1, <2>2, <2>3, <2>4
    <1>11. ASSUME NEW c \in Combo, CallProbe(c) PROVE TypeInv'
        <2>1. ManagerOK'
            BY <1>11 DEF ManagerOK, CallProbe, Idle, manager, windows
        <2>2. CallOK'
            BY <1>11 DEF CallOK, CallProbe, Idle, manager, windows
        <2>3. WindowsOK'
            BY <1>11 DEF WindowsOK, CallProbe, Idle, manager, windows
        <2>4. LocalsOK'
            BY <1>11 DEF LocalsOK, CallProbe, Idle, manager, windows
        <2> QED
            BY <2>1, <2>2, <2>3, <2>4
    <1>12. ASSUME NEW c \in Combo, ForeignRegister(c) PROVE TypeInv'
        <2>1. ManagerOK'
            BY <1>12 DEF ManagerOK, ForeignRegister, manager, locals
        <2>2. CallOK'
            BY <1>12 DEF CallOK, ForeignRegister, manager, locals
        <2>3. WindowsOK'
            BY <1>12 DEF WindowsOK, ForeignRegister, manager, locals
        <2>4. LocalsOK'
            BY <1>12 DEF LocalsOK, ForeignRegister, manager, locals
        <2> QED
            BY <2>1, <2>2, <2>3, <2>4
    <1>13. ASSUME NEW c \in Combo, ForeignUnregister(c) PROVE TypeInv'
        <2>1. ManagerOK'
            BY <1>13 DEF ManagerOK, ForeignUnregister, manager, locals
        <2>2. CallOK'
            BY <1>13 DEF CallOK, ForeignUnregister, manager, locals
        <2>3. WindowsOK'
            BY <1>13 DEF WindowsOK, ForeignUnregister, manager, locals
        <2>4. LocalsOK'
            BY <1>13 DEF LocalsOK, ForeignUnregister, manager, locals
        <2> QED
            BY <2>1, <2>2, <2>3, <2>4
    <1>14. CASE DestroyWindow
        <2>1. ManagerOK'
            BY <1>14 DEF ManagerOK, DestroyWindow, manager, locals
        <2>2. CallOK'
            BY <1>14 DEF CallOK, DestroyWindow, manager, locals
        <2>3. WindowsOK'
            BY <1>14 DEF WindowsOK, DestroyWindow, manager, locals
        <2>4. LocalsOK'
            BY <1>14 DEF LocalsOK, DestroyWindow, manager, locals
        <2> QED
            BY <2>1, <2>2, <2>3, <2>4
    <1>15. CASE ProcessEnds
        <2>1. ManagerOK'
            BY <1>15 DEF ManagerOK, ProcessEnds, manager
        <2>2. CallOK'
            BY <1>15 DEF CallOK, ProcessEnds, manager
        <2>3. WindowsOK'
            BY <1>15 DEF WindowsOK, ProcessEnds, manager
        <2>4. LocalsOK'
            BY <1>15 DEF LocalsOK, ProcessEnds, manager
        <2> QED
            BY <2>1, <2>2, <2>3, <2>4
    <1>16. CASE ProcessStarts
        <2>1. ManagerOK'
            BY <1>16 DEF ManagerOK, ProcessStarts, Idle
        <2>2. CallOK'
            BY <1>16 DEF CallOK, LocalsOK, ProcessStarts, Idle
        <2>3. WindowsOK'
            BY <1>16 DEF WindowsOK, ProcessStarts, Idle
        <2>4. LocalsOK'
            BY <1>16 DEF LocalsOK, ProcessStarts, Idle
        <2> QED
            BY <2>1, <2>2, <2>3, <2>4
    <1>17. CASE UNCHANGED vars
        <2>1. ManagerOK'
            BY <1>17 DEF ManagerOK, vars, manager, locals, windows
        <2>2. CallOK'
            BY <1>17 DEF CallOK, vars, manager, locals, windows
        <2>3. WindowsOK'
            BY <1>17 DEF WindowsOK, vars, manager, locals, windows
        <2>4. LocalsOK'
            BY <1>17 DEF LocalsOK, vars, manager, locals, windows
        <2> QED
            BY <2>1, <2>2, <2>3, <2>4
    <1>18. CASE OtherCallFails
        <2>1. ManagerOK'
            BY <1>18 DEF ManagerOK, OtherCallFails, manager
        <2>2. CallOK'
            BY <1>18 DEF CallOK, OtherCallFails, manager, locals
        <2>3. WindowsOK'
            BY <1>18, ManagerAssumption DEF WindowsOK, OtherCallFails, Fault
        <2>4. LocalsOK'
            BY <1>18 DEF LocalsOK, OtherCallFails, locals
        <2> QED
            BY <2>1, <2>2, <2>3, <2>4
    <1> QED
        BY <1>1, <1>2, <1>3, <1>4, <1>5, <1>6, <1>7, <1>8, <1>9, <1>10, <1>11, <1>12,
           <1>13, <1>14, <1>15, <1>16, <1>17, <1>18
        DEF Next, Step

(***************************************************************************)
(* Every variable of the manager keeps its type, whatever Windows answers. *)
(***************************************************************************)
THEOREM TypeCorrect == Spec => []TypeOK
    <1>1. TypeInv => TypeOK
        BY DEF TypeInv
    <1> QED
        BY TypeInit, TypeStep, <1>1, PTL DEF Spec

LEMMA TypeInvariant == Spec => []TypeInv
    BY TypeInit, TypeStep, PTL DEF Spec
-----------------------------------------------------------------------------
(***************************************************************************)
(* The answers sync keeps: registered and unavailable.  The ids given out  *)
(* so far are below nextId, so that a new one overwrites no entry.         *)
(***************************************************************************)
IdsBelow == pc = "register" => \A id \in DOMAIN registered : id < nextId

AnswersInv == RegisteredIsHeld /\ AllAccountedFor /\ IdsBelow

LEMMA AnswersInit == Init => AnswersInv
    BY DEF Init, AnswersInv, RegisteredIsHeld, AllAccountedFor, IdsBelow, Done,
           Active, Bound

LEMMA AnswersGranted ==
    ASSUME TypeInv, AnswersInv, NEW i \in todo, RegisterGranted(i)
    PROVE  AnswersInv'
    <1> DEFINE new == layouts[i]
    <1>1. /\ pc = "register" /\ pc' = "register" /\ alive /\ alive'
          /\ held' = held \cup {<<nextId, Parse[new.hotkey]>>}
          /\ UNCHANGED <<layouts, fingerprint, unavailable>>
          /\ nextId' = nextId + 1 /\ nextId \in Nat
          /\ DOMAIN registered \subseteq Nat
        BY DEF RegisterGranted, RegisterSucceeds, TypeInv, TypeOK, CallOK, ManagerOK
    <1>2. /\ DOMAIN registered' = DOMAIN registered \cup {nextId}
          /\ registered'[nextId] = new.id
          /\ \A id \in DOMAIN registered :
                id # nextId => registered'[id] = registered[id]
        BY DEF RegisterGranted
    <1>3. Done' = Done \cup {i}
        BY <1>1 DEF RegisterGranted, Done, TypeInv, LocalsOK
    <1>4. nextId \notin DOMAIN registered
        BY <1>1 DEF AnswersInv, IdsBelow
    <1>5. RegisteredIsHeld'
        BY <1>1, <1>2, <1>3 DEF AnswersInv, RegisteredIsHeld, Synced
    <1>6. {registered'[id] : id \in DOMAIN registered'}
            = {registered[id] : id \in DOMAIN registered} \cup {new.id}
        BY <1>2, <1>4
    <1>7. AllAccountedFor'
        BY <1>1, <1>3, <1>6 DEF AnswersInv, AllAccountedFor, Synced
    <1>8. IdsBelow'
        BY <1>1, <1>2 DEF AnswersInv, IdsBelow
    <1> QED
        BY <1>5, <1>7, <1>8 DEF AnswersInv

LEMMA AnswersRefused ==
    ASSUME TypeInv, AnswersInv, NEW i \in todo, RegisterRefused(i)
    PROVE  AnswersInv'
    <1>1. /\ pc = "register" /\ pc' = "register"
          /\ UNCHANGED <<layouts, fingerprint, registered, held, alive, nextId>>
          /\ unavailable' = unavailable \cup {layouts[i].id}
        BY DEF RegisterRefused, RegisterFails
    <1>2. Done' = Done \cup {i}
        BY <1>1 DEF RegisterRefused, Done, TypeInv, LocalsOK
    <1>3. RegisteredIsHeld'
        BY <1>1, <1>2 DEF AnswersInv, RegisteredIsHeld, Synced
    <1>4. AllAccountedFor'
        BY <1>1, <1>2 DEF AnswersInv, AllAccountedFor, Synced
    <1>5. IdsBelow'
        BY <1>1 DEF AnswersInv, IdsBelow
    <1> QED
        BY <1>3, <1>4, <1>5 DEF AnswersInv

\* A step that leaves the answers and the arguments alone, and what is held
\* under the ids that were given out.
LEMMA AnswersKept ==
    ASSUME AnswersInv,
           UNCHANGED <<registered, unavailable, layouts, fingerprint, todo, nextId>>,
           Synced' => Synced,
           pc' = "register" => pc = "register",
           alive' => alive /\ \A r \in held : r[1] # probeId => r \in held',
           probeId \notin DOMAIN registered
    PROVE  AnswersInv'
    <1>1. Done' = Done
        BY DEF Done
    <1>2. ASSUME Synced', alive', NEW id \in DOMAIN registered'
          PROVE  \E i \in Done' : /\ registered'[id] = layouts'[i].id
                                  /\ <<id, Parse[layouts'[i].hotkey]>> \in held'
        <2>1. PICK i \in Done : /\ registered[id] = layouts[i].id
                                /\ <<id, Parse[layouts[i].hotkey]>> \in held
            BY <1>2 DEF AnswersInv, RegisteredIsHeld
        <2>2. <<id, Parse[layouts[i].hotkey]>>[1] # probeId
            BY <1>2
        <2> QED
            BY <1>1, <1>2, <2>1, <2>2
    <1>3. RegisteredIsHeld'
        BY <1>2 DEF RegisteredIsHeld
    <1>4. AllAccountedFor'
        BY <1>1 DEF AnswersInv, AllAccountedFor
    <1>5. IdsBelow'
        BY DEF AnswersInv, IdsBelow
    <1> QED
        BY <1>3, <1>4, <1>5 DEF AnswersInv

LEMMA AnswersStep == TypeInv /\ AnswersInv /\ [Next]_vars => AnswersInv'
    <1> SUFFICES ASSUME TypeInv, AnswersInv, [Next]_vars PROVE AnswersInv'
        OBVIOUS
    <1>0. probeId \notin DOMAIN registered
        BY DEF TypeInv, TypeOK, ManagerOK
    \* While sync releases, it has no answers.
    <1>1. ASSUME pc' \in {"retryProbe", "release"} PROVE AnswersInv'
        BY <1>1 DEF AnswersInv, RegisteredIsHeld, AllAccountedFor, IdsBelow, Synced
    <1>2. CASE RetryProbeRelease
        BY <1>1, <1>2 DEF RetryProbeRelease
    <1>3. ASSUME NEW id \in releasing, Release(id) PROVE AnswersInv'
        BY <1>1, <1>3 DEF Release
    <1>4. CASE SelectActive
        <2>1. DOMAIN registered' = {} /\ unavailable' = {} /\ Done' = {}
            BY <1>4 DEF SelectActive, Done
        <2> QED
            BY <2>1 DEF AnswersInv, RegisteredIsHeld, AllAccountedFor, IdsBelow
    <1>5. ASSUME NEW i \in todo, RegisterGranted(i) PROVE AnswersInv'
        BY <1>5, AnswersGranted
    <1>6. ASSUME NEW i \in todo, RegisterRefused(i) PROVE AnswersInv'
        BY <1>6, AnswersRefused
    <1>7. CASE SyncReturns
        <2>1. /\ RegisteredIsHeld' /\ AllAccountedFor'
            BY <1>7 DEF SyncReturns, manager, windows, AnswersInv, RegisteredIsHeld,
                        AllAccountedFor, Synced, Done
        <2> QED
            BY <1>7, <2>1 DEF SyncReturns, AnswersInv, IdsBelow
    <1>8. CASE ProbeRegister
        BY <1>0, <1>8, AnswersKept
        DEF ProbeRegister, RegisterSucceeds, RegisterFails, manager, locals, Synced
    <1>9. CASE ProbeRelease
        BY <1>0, <1>9, AnswersKept
        DEF ProbeRelease, UnregisterSucceeds, UnregisterFails, HeldUnder, locals,
            Synced
    <1>10. CASE ProbeReturns
        BY <1>0, <1>10, AnswersKept DEF ProbeReturns, manager, windows, Synced
    <1>11. ASSUME NEW ls \in LayoutLists, NEW f \in Setup, CallSync(ls, f)
           PROVE  AnswersInv'
        BY <1>1, <1>11 DEF CallSync
    <1>12. ASSUME NEW c \in Combo, CallProbe(c) PROVE AnswersInv'
        BY <1>0, <1>12, AnswersKept DEF CallProbe, Idle, manager, windows, Synced
    <1>13. ASSUME NEW c \in Combo, ForeignRegister(c) PROVE AnswersInv'
        BY <1>0, <1>13, AnswersKept DEF ForeignRegister, manager, locals, Synced
    <1>14. ASSUME NEW c \in Combo, ForeignUnregister(c) PROVE AnswersInv'
        BY <1>0, <1>14, AnswersKept DEF ForeignUnregister, manager, locals, Synced
    <1>15. CASE DestroyWindow \/ ProcessEnds
        BY <1>15
        DEF DestroyWindow, ProcessEnds, Idle, AnswersInv, RegisteredIsHeld,
            AllAccountedFor, IdsBelow
    <1>16. CASE ProcessStarts
        <2>1. DOMAIN registered' = {} /\ unavailable' = {} /\ Done' = {}
            BY <1>16 DEF ProcessStarts, Done, Active
        <2> QED
            BY <2>1 DEF AnswersInv, RegisteredIsHeld, AllAccountedFor, IdsBelow
    <1>17. CASE UNCHANGED vars
        BY <1>0, <1>17, AnswersKept DEF vars, manager, locals, windows, Synced
    <1>18. CASE OtherCallFails
        BY <1>0, <1>18, AnswersKept DEF OtherCallFails, manager, locals, Synced
    <1> QED
        BY <1>2, <1>3, <1>4, <1>5, <1>6, <1>7, <1>8, <1>9, <1>10, <1>11, <1>12,
           <1>13, <1>14, <1>15, <1>16, <1>17, <1>18
        DEF Next, Step

LEMMA AnswersInvariant == Spec => [](TypeInv /\ AnswersInv)
    <1>1. TypeInv /\ AnswersInv /\ [Next]_vars => (TypeInv /\ AnswersInv)'
        BY TypeStep, AnswersStep
    <1> QED
        BY TypeInit, AnswersInit, <1>1, PTL DEF Spec

(***************************************************************************)
(* An id in registered always names a layout that should be live, and      *)
(* Windows holds that layout's combination under it, through any number of *)
(* refusals and failed releases.                                           *)
(***************************************************************************)
THEOREM RegisteredIsHeldAlways == Spec => []RegisteredIsHeld
    <1>1. AnswersInv => RegisteredIsHeld
        BY DEF AnswersInv
    <1> QED
        BY AnswersInvariant, <1>1, PTL

(***************************************************************************)
(* No layout is dropped by a failure: each one that should be live is      *)
(* registered or marked unavailable, and no other one is either.           *)
(***************************************************************************)
THEOREM AllAccountedForAlways == Spec => []AllAccountedFor
    <1>1. AnswersInv => AllAccountedFor
        BY DEF AnswersInv
    <1> QED
        BY AnswersInvariant, <1>1, PTL

(***************************************************************************)
(* The two answers exclude each other if no two layouts of the list have   *)
(* an id in common: each position is dealt with once.                      *)
(***************************************************************************)
DistinctIds(ls) == \A i, j \in DOMAIN ls : ls[i].id = ls[j].id => i = j

Exclusive ==
    Synced /\ alive /\ DistinctIds(layouts) =>
        \A id \in DOMAIN registered : registered[id] \notin unavailable

LEMMA ExclusiveInit == Init => Exclusive
    BY DEF Init, Exclusive

\* The answers name layouts dealt with before, never the next one.
LEMMA NextIsNew ==
    ASSUME TypeInv, AnswersInv, NEW i \in todo, pc = "register", alive,
           DistinctIds(layouts)
    PROVE  /\ layouts[i].id \notin unavailable
           /\ \A id \in DOMAIN registered : registered[id] # layouts[i].id
    <1>1. \A j \in Done : layouts[j].id # layouts[i].id
        BY ActiveSelects DEF Done, DistinctIds, TypeInv, TypeOK, CallOK
    <1>2. {registered[id] : id \in DOMAIN registered} \cup unavailable
            = {layouts[j].id : j \in Done}
        BY DEF AnswersInv, AllAccountedFor, Synced
    <1> QED
        BY <1>1, <1>2

LEMMA ExclusiveStep == TypeInv /\ AnswersInv /\ Exclusive /\ [Next]_vars => Exclusive'
    <1> SUFFICES ASSUME TypeInv, AnswersInv, Exclusive, [Next]_vars,
                        Synced', alive', DistinctIds(layouts'), NEW id \in DOMAIN registered'
                 PROVE  registered'[id] \notin unavailable'
        BY DEF Exclusive, DistinctIds
    <1>1. CASE SelectActive \/ ProcessStarts
        BY <1>1 DEF SelectActive, ProcessStarts
    <1>2. ASSUME NEW i \in todo, RegisterGranted(i)
          PROVE  registered'[id] \notin unavailable'
        <2>1. /\ pc = "register" /\ alive /\ Synced
              /\ UNCHANGED <<layouts, unavailable>>
              /\ registered' = [k \in DOMAIN registered \cup {nextId} |->
                                  IF k = nextId THEN layouts[i].id ELSE registered[k]]
            BY <1>2 DEF RegisterGranted, RegisterSucceeds, Synced
        <2> QED
            BY <2>1, NextIsNew DEF Exclusive
    <1>3. ASSUME NEW i \in todo, RegisterRefused(i)
          PROVE  registered'[id] \notin unavailable'
        <2>1. /\ pc = "register" /\ alive /\ Synced
              /\ UNCHANGED <<layouts, registered>>
              /\ unavailable' = unavailable \cup {layouts[i].id}
            BY <1>3 DEF RegisterRefused, RegisterFails, Synced
        <2> QED
            BY <2>1, NextIsNew DEF Exclusive
    <1>4. CASE UNCHANGED <<registered, unavailable, layouts>> /\ alive /\ Synced
        BY <1>4 DEF Exclusive
    <1>5. \/ SelectActive \/ ProcessStarts
          \/ \E i \in todo : RegisterGranted(i) \/ RegisterRefused(i)
          \/ UNCHANGED <<registered, unavailable, layouts>> /\ alive /\ Synced
        BY DEF Next, Step, RetryProbeRelease, Release, SyncReturns, ProbeRegister,
               ProbeRelease, ProbeReturns, CallSync, CallProbe, ForeignRegister,
               ForeignUnregister, DestroyWindow, ProcessEnds, OtherCallFails, Idle,
               RegisterSucceeds, RegisterFails, UnregisterSucceeds, UnregisterFails,
               vars, manager, locals, windows, Synced
    <1> QED
        BY <1>1, <1>2, <1>3, <1>4, <1>5

(***************************************************************************)
(* If the ids in the list are distinct, no layout is both registered and   *)
(* marked unavailable: a row of the menu does not say "(belegt)" of keys   *)
(* that work.                                                              *)
(***************************************************************************)
THEOREM ExclusiveAlways == Spec => []Exclusive
    <1>1. TypeInv /\ AnswersInv /\ Exclusive /\ [Next]_vars
            => (TypeInv /\ AnswersInv /\ Exclusive)'
        BY TypeStep, AnswersStep, ExclusiveStep
    <1> QED
        BY TypeInit, AnswersInit, ExclusiveInit, <1>1, PTL DEF Spec
-----------------------------------------------------------------------------
(***************************************************************************)
(* What the process holds, as long as no call fails without a reason: one  *)
(* combination under an id, the probe's id in use only during a probe, the *)
(* ids of the old registrations only until sync has released them, and     *)
(* from then on those of registered.                                       *)
(***************************************************************************)
OneEach == \A r, q \in held : r[1] = q[1] => r = q

OnlyOld ==
    /\ pc = "retryProbe" => \A r \in held : r[1] \in DOMAIN registered
    /\ pc = "release" => \A r \in held : r[1] \in releasing

ProbeHolds == HeldUnder(probeId) # {} <=> pc = "probeHeld"

Owned ==
    /\ OneEach
    /\ OnlyOld
    /\ ProbeHolds
    /\ HeldMatches
    /\ ~probeReleasePending

OwnInv == (NoFault => Owned) /\ (~alive => held = {})

LEMMA OwnInit == Init => OwnInv
    BY DEF Init, OwnInv, Owned, OneEach, OnlyOld, ProbeHolds, HeldMatches, HeldUnder

\* A failure without a reason is remembered: there is one less to come.
LEMMA NoFaultKept ==
    ASSUME TypeInv, Fault \/ UNCHANGED faults, NoFault'
    PROVE  NoFault /\ UNCHANGED faults
    BY ManagerAssumption DEF TypeInv, TypeOK, WindowsOK, Fault, NoFault

LEMMA RefusedForAReason ==
    ASSUME TypeInv, NEW c, RegisterFails(c), NoFault'
    PROVE  NoFault /\ (alive => Taken(c))
    BY NoFaultKept, ManagerAssumption
    DEF RegisterFails, Fault, NoFault, TypeInv, TypeOK, WindowsOK

LEMMA ReleaseFailsForAReason ==
    ASSUME TypeInv, NEW id, UnregisterFails(id), NoFault'
    PROVE  NoFault /\ HeldUnder(id) = {}
    BY NoFaultKept, ManagerAssumption
    DEF UnregisterFails, Fault, NoFault, TypeInv, TypeOK, WindowsOK

\* Either way, nothing is held under the id any more, and the rest still is.
LEMMA Released ==
    ASSUME TypeInv, OwnInv, NoFault', NEW id,
           UnregisterSucceeds(id) \/ UnregisterFails(id)
    PROVE  NoFault /\ held' = {r \in held : r[1] # id}
    <1>1. CASE UnregisterSucceeds(id)
        <2>1. NoFault /\ OneEach
            BY <1>1 DEF UnregisterSucceeds, NoFault, OwnInv, Owned
        <2>2. PICK freed \in (SUBSET HeldUnder(id)) \ {{}} : held' = held \ freed
            BY <1>1 DEF UnregisterSucceeds
        <2>3. freed = HeldUnder(id)
            BY <2>1, <2>2 DEF OneEach, HeldUnder
        <2> QED
            BY <2>1, <2>2, <2>3 DEF HeldUnder
    <1>2. CASE UnregisterFails(id)
        BY <1>2, ReleaseFailsForAReason DEF UnregisterFails, HeldUnder
    <1> QED
        BY <1>1, <1>2

\* A step that leaves the manager, the call's arguments and what is held alone.
LEMMA OwnedKept ==
    ASSUME Owned,
           UNCHANGED <<registered, probeReleasePending, layouts, fingerprint, todo,
                       held>>,
           pc \in {"idle", "register", "probe", "granted", "inUse", "failed"},
           pc' \in {"idle", "register", "probe", "granted", "inUse", "failed"}
    PROVE  Owned'
    <1>1. OneEach' /\ OnlyOld'
        BY DEF Owned, OneEach, OnlyOld
    <1>2. ProbeHolds'
        BY DEF Owned, ProbeHolds, HeldUnder
    <1>3. HeldMatches'
        BY DEF Owned, HeldMatches, Synced, Done
    <1> QED
        BY <1>1, <1>2, <1>3 DEF Owned

\* A process that holds nothing and is in no probe.
LEMMA OwnedNothing ==
    ASSUME held = {}, pc # "probeHeld", ~probeReleasePending
    PROVE  Owned
    BY DEF Owned, OneEach, OnlyOld, ProbeHolds, HeldMatches, HeldUnder

LEMMA OwnedGranted ==
    ASSUME TypeInv, AnswersInv, Owned, NEW i \in todo, RegisterGranted(i)
    PROVE  Owned'
    <1> DEFINE new == layouts[i]
    <1>1. /\ pc = "register" /\ pc' = "register"
          /\ held' = held \cup {<<nextId, Parse[new.hotkey]>>}
          /\ UNCHANGED <<layouts, fingerprint, probeReleasePending>>
          /\ nextId \in Nat \ {probeId} /\ DOMAIN registered \subseteq Nat \ {probeId}
        BY DEF RegisterGranted, RegisterSucceeds, TypeInv, TypeOK, CallOK, ManagerOK
    <1>2. /\ DOMAIN registered' = DOMAIN registered \cup {nextId}
          /\ registered'[nextId] = new.id
          /\ \A id \in DOMAIN registered :
                id # nextId => registered'[id] = registered[id]
        BY DEF RegisterGranted
    <1>3. Done' = Done \cup {i}
        BY <1>1 DEF RegisterGranted, Done, TypeInv, LocalsOK
    <1>4. nextId \notin DOMAIN registered
        BY <1>1 DEF AnswersInv, IdsBelow
    <1>5. \A r \in held : r[1] # probeId
        BY <1>1 DEF Owned, ProbeHolds, HeldUnder
    <1>6. \A r \in held : r[1] \in DOMAIN registered
        BY <1>1, <1>5 DEF Owned, HeldMatches, Synced
    <1>7. OneEach'
        BY <1>1, <1>4, <1>6 DEF Owned, OneEach
    <1>8. OnlyOld'
        BY <1>1 DEF OnlyOld
    <1>9. ProbeHolds'
        BY <1>1, <1>5 DEF ProbeHolds, HeldUnder
    <1>10. HeldMatches'
        <2> SUFFICES ASSUME NEW r \in held'
                     PROVE  /\ r[1] \in DOMAIN registered'
                            /\ \E k \in Done' :
                                  /\ registered'[r[1]] = layouts'[k].id
                                  /\ r[2] = Parse[layouts'[k].hotkey]
            BY DEF HeldMatches
        <2>1. CASE r \in held
            <3>1. PICK k \in Done : /\ registered[r[1]] = layouts[k].id
                                    /\ r[2] = Parse[layouts[k].hotkey]
                BY <1>1, <1>5, <2>1 DEF Owned, HeldMatches, Synced
            <3> QED
                BY <1>1, <1>2, <1>3, <1>4, <1>6, <2>1, <3>1
        <2>2. CASE r = <<nextId, Parse[new.hotkey]>>
            BY <1>1, <1>2, <1>3, <2>2
        <2> QED
            BY <1>1, <2>1, <2>2
    <1> QED
        BY <1>1, <1>7, <1>8, <1>9, <1>10 DEF Owned

LEMMA OwnStep == TypeInv /\ AnswersInv /\ OwnInv /\ [Next]_vars => OwnInv'
    <1> SUFFICES ASSUME TypeInv, AnswersInv, OwnInv, [Next]_vars PROVE OwnInv'
        OBVIOUS
    <1>1. ~alive' => held' = {}
        <2>1. ASSUME NEW id, NEW c, RegisterSucceeds(id, c) \/ RegisterFails(c)
              PROVE  ~alive' => held' = {}
            BY <2>1 DEF OwnInv, RegisterSucceeds, RegisterFails
        <2>2. ASSUME NEW id, UnregisterSucceeds(id) \/ UnregisterFails(id)
              PROVE  ~alive' => held' = {}
            BY <2>2 DEF OwnInv, UnregisterSucceeds, UnregisterFails, HeldUnder
        <2>3. ASSUME UNCHANGED <<held, alive>> PROVE ~alive' => held' = {}
            BY <2>3 DEF OwnInv
        <2>4. CASE Step
            BY <2>1, <2>2, <2>3, <2>4
            DEF Step, RetryProbeRelease, Release, SelectActive, RegisterGranted,
                RegisterRefused, SyncReturns, ProbeRegister, ProbeRelease,
                ProbeReturns, windows
        <2>5. CASE ~Step
            BY <2>3, <2>5
            DEF Next, CallSync, CallProbe, ForeignRegister, ForeignUnregister,
                DestroyWindow, ProcessEnds, ProcessStarts, OtherCallFails, vars, windows
        <2> QED
            BY <2>4, <2>5
    <1> SUFFICES ASSUME NoFault' PROVE Owned'
        BY <1>1 DEF OwnInv
    <1> USE DEF OwnInv
    <1>2. CASE RetryProbeRelease
        <2>1. NoFault /\ ~probeReleasePending
            <3>1. CASE UNCHANGED windows
                BY <3>1 DEF windows, NoFault, Owned
            <3>2. CASE UnregisterSucceeds(probeId) \/ UnregisterFails(probeId)
                BY <3>2, Released DEF Owned
            <3> QED
                BY <1>2, <3>1, <3>2 DEF RetryProbeRelease
        <2>2. /\ pc = "retryProbe" /\ pc' = "release"
              /\ UNCHANGED <<held, registered, probeReleasePending>>
              /\ releasing' = DOMAIN registered
            BY <1>2, <2>1 DEF RetryProbeRelease, windows
        <2>3. OneEach' /\ OnlyOld' /\ ProbeHolds' /\ HeldMatches'
            BY <2>1, <2>2
            DEF Owned, OneEach, OnlyOld, ProbeHolds, HeldUnder, HeldMatches, Synced
        <2> QED
            BY <2>1, <2>2, <2>3 DEF Owned
    <1>3. ASSUME NEW id \in releasing, Release(id) PROVE Owned'
        <2>1. NoFault /\ held' = {r \in held : r[1] # id}
            BY <1>3, Released DEF Release
        <2>2. /\ pc = "release" /\ pc' = "release"
              /\ releasing' = releasing \ {id}
              /\ UNCHANGED <<registered, probeReleasePending>>
            BY <1>3 DEF Release, manager
        <2>3. OneEach' /\ OnlyOld' /\ ProbeHolds' /\ HeldMatches'
            BY <2>1, <2>2
            DEF Owned, OneEach, OnlyOld, ProbeHolds, HeldUnder, HeldMatches, Synced
        <2> QED
            BY <2>1, <2>2, <2>3 DEF Owned
    <1>4. CASE SelectActive
        <2>1. NoFault /\ held = {}
            BY <1>4 DEF SelectActive, windows, NoFault, Owned, OnlyOld
        <2>2. held' = {} /\ pc' # "probeHeld" /\ ~probeReleasePending'
            BY <1>4, <2>1 DEF SelectActive, windows, Owned
        <2> QED
            BY <2>2 DEF Owned, OneEach, OnlyOld, ProbeHolds, HeldMatches, HeldUnder
    <1>5. ASSUME NEW i \in todo, RegisterGranted(i) PROVE Owned'
        BY <1>5, OwnedGranted DEF RegisterGranted, RegisterSucceeds, NoFault
    <1>6. ASSUME NEW i \in todo, RegisterRefused(i) PROVE Owned'
        <2>1. NoFault
            BY <1>6, RefusedForAReason DEF RegisterRefused
        <2>2. /\ pc = "register" /\ pc' = "register" /\ todo' \subseteq todo
              /\ UNCHANGED <<registered, probeReleasePending, layouts, fingerprint,
                             held>>
            BY <1>6 DEF RegisterRefused, RegisterFails
        <2>3. OneEach' /\ OnlyOld' /\ ProbeHolds'
            BY <2>1, <2>2 DEF Owned, OneEach, OnlyOld, ProbeHolds, HeldUnder
        <2>4. Done \subseteq Done'
            BY <2>2 DEF Done
        <2>5. HeldMatches'
            BY <2>1, <2>2, <2>4 DEF Owned, HeldMatches, Synced
        <2> QED
            BY <2>1, <2>2, <2>3, <2>5 DEF Owned
    <1>7. CASE SyncReturns
        BY <1>7, OwnedKept DEF SyncReturns, manager, windows, NoFault
    <1>8. CASE ProbeRegister
        <2>1. ASSUME RegisterSucceeds(probeId, asked), pc' = "probeHeld" PROVE Owned'
            <3>1. /\ NoFault /\ pc = "probe"
                  /\ held' = held \cup {<<probeId, asked>>}
                  /\ UNCHANGED <<registered, probeReleasePending, layouts,
                                 fingerprint, todo>>
                BY <1>8, <2>1
                DEF ProbeRegister, RegisterSucceeds, NoFault, manager, locals
            <3>2. \A r \in held : r[1] # probeId
                BY <3>1 DEF Owned, ProbeHolds, HeldUnder
            <3>3. OneEach' /\ OnlyOld' /\ ProbeHolds'
                <4>1. <<probeId, asked>> \in held' /\ <<probeId, asked>>[1] = probeId
                    BY <3>1
                <4>2. ProbeHolds'
                    BY <2>1, <4>1 DEF ProbeHolds, HeldUnder
                <4>3. OneEach' /\ OnlyOld'
                    BY <2>1, <3>1, <3>2 DEF Owned, OneEach, OnlyOld
                <4> QED
                    BY <4>2, <4>3
            <3>4. Done' = Done
                BY <3>1 DEF Done
            <3>5. HeldMatches'
                BY <2>1, <3>1, <3>4 DEF Owned, HeldMatches, Synced
            <3> QED
                BY <3>1, <3>3, <3>5 DEF Owned
        <2>2. ASSUME RegisterFails(asked), pc' \in {"inUse", "failed"} PROVE Owned'
            <3>1. NoFault
                BY <2>2, RefusedForAReason
            <3> QED
                BY <1>8, <2>2, <3>1, OwnedKept
                DEF ProbeRegister, RegisterFails, manager, locals
        <2> QED
            BY <1>8, <2>1, <2>2 DEF ProbeRegister
    <1>9. CASE ProbeRelease
        <2>1. /\ NoFault /\ held' = {r \in held : r[1] # probeId}
              /\ pc = "probeHeld" /\ pc' = "granted"
              /\ UNCHANGED <<registered, layouts, fingerprint, todo>>
            BY <1>9, Released DEF ProbeRelease, locals
        <2>2. ~UnregisterFails(probeId)
            BY <2>1, ReleaseFailsForAReason DEF Owned, ProbeHolds
        <2>3. ~probeReleasePending'
            BY <1>9, <2>1, <2>2 DEF ProbeRelease, Owned
        <2>4. OneEach' /\ OnlyOld' /\ ProbeHolds'
            BY <2>1 DEF Owned, OneEach, OnlyOld, ProbeHolds, HeldUnder
        <2>5. Done' = Done
            BY <2>1 DEF Done
        <2>6. HeldMatches'
            BY <2>1, <2>5 DEF Owned, HeldMatches, Synced
        <2> QED
            BY <2>3, <2>4, <2>6 DEF Owned
    <1>10. CASE ProbeReturns
        BY <1>10, OwnedKept DEF ProbeReturns, manager, windows, NoFault
    <1>11. ASSUME NEW ls \in LayoutLists, NEW f \in Setup, CallSync(ls, f)
           PROVE  Owned'
        <2>1. /\ NoFault /\ pc = "idle" /\ pc' = "retryProbe"
              /\ UNCHANGED <<held, registered, probeReleasePending>>
            BY <1>11 DEF CallSync, Idle, manager, windows, NoFault
        <2>2. \A r \in held : r[1] \in DOMAIN registered
            BY <2>1 DEF Owned, ProbeHolds, HeldUnder, HeldMatches, Synced
        <2>3. OneEach' /\ OnlyOld' /\ ProbeHolds' /\ HeldMatches'
            BY <2>1, <2>2
            DEF Owned, OneEach, OnlyOld, ProbeHolds, HeldUnder, HeldMatches, Synced
        <2> QED
            BY <2>1, <2>3 DEF Owned
    <1>12. ASSUME NEW c \in Combo, CallProbe(c) PROVE Owned'
        BY <1>12, OwnedKept DEF CallProbe, Idle, manager, windows, NoFault
    <1>13. ASSUME UNCHANGED <<manager, pc, locals, held, faults>> PROVE Owned'
        <2>1. NoFault /\ Done' = Done
            BY <1>13 DEF NoFault, locals, Done
        <2>2. OneEach' /\ OnlyOld' /\ ProbeHolds' /\ HeldMatches'
            BY <1>13, <2>1
            DEF Owned, OneEach, OnlyOld, ProbeHolds, HeldUnder, HeldMatches, Synced,
                manager, locals
        <2> QED
            BY <1>13, <2>1, <2>2 DEF Owned, manager
    <1>14. CASE DestroyWindow \/ ProcessEnds \/ ProcessStarts
        <2>1. held' = {} /\ pc' # "probeHeld" /\ ~probeReleasePending'
            BY <1>14
            DEF DestroyWindow, ProcessEnds, ProcessStarts, Idle, manager, NoFault,
                Owned
        <2> QED
            BY <2>1 DEF Owned, OneEach, OnlyOld, ProbeHolds, HeldMatches, HeldUnder
    <1>15. ASSUME NEW c \in Combo, ForeignRegister(c) \/ ForeignUnregister(c)
           PROVE  Owned'
        BY <1>13, <1>15 DEF ForeignRegister, ForeignUnregister
    <1>16. CASE UNCHANGED vars
        BY <1>13, <1>16 DEF vars, windows
    <1>17. CASE OtherCallFails
        BY <1>13, <1>17, NoFaultKept DEF OtherCallFails
    <1> QED
        BY <1>2, <1>3, <1>4, <1>5, <1>6, <1>7, <1>8, <1>9, <1>10, <1>11, <1>12,
           <1>14, <1>15, <1>16, <1>17
        DEF Next, Step

LEMMA OwnInvariant == Spec => [](TypeInv /\ AnswersInv /\ OwnInv)
    <1>1. TypeInv /\ AnswersInv /\ OwnInv /\ [Next]_vars
            => (TypeInv /\ AnswersInv /\ OwnInv)'
        BY TypeStep, AnswersStep, OwnStep
    <1> QED
        BY TypeInit, AnswersInit, OwnInit, <1>1, PTL DEF Spec

(***************************************************************************)
(* As long as no call fails without a reason, what Windows holds for the   *)
(* process is exactly what sync has registered, and id 0 is in use only    *)
(* during a probe.                                                         *)
(***************************************************************************)
THEOREM HeldIsRegisteredAlways == Spec => []HeldIsRegistered
    <1>1. OwnInv => HeldIsRegistered
        BY DEF OwnInv, Owned, ProbeHolds, HeldIsRegistered
    <1> QED
        BY OwnInvariant, <1>1, PTL

(***************************************************************************)
(* fenster never stands in its own way: a layout is marked unavailable     *)
(* only for a combination another process owns.                            *)
(***************************************************************************)
THEOREM NeverBlocksItselfAlways == Spec => NeverBlocksItself
    <1> DEFINE Blames(i) == RegisterRefused(i) /\ NoFault' /\ alive
               Fair == \A i \in todo : Blames(i) => Parse[layouts[i].hotkey] \in foreign
    <1>1. TypeInv /\ AnswersInv /\ OwnInv => Fair
        <2> SUFFICES ASSUME TypeInv, AnswersInv, OwnInv, NEW i \in todo, Blames(i)
                     PROVE  Parse[layouts[i].hotkey] \in foreign
            OBVIOUS
        <2>1. pc = "register" /\ i \in Active(layouts, fingerprint)
            BY DEF RegisterRefused, TypeInv, LocalsOK
        <2>2. NoFault /\ Taken(Parse[layouts[i].hotkey])
            BY RefusedForAReason DEF RegisterRefused
        <2>3. ASSUME NEW r \in held, r[2] = Parse[layouts[i].hotkey] PROVE FALSE
            <3>1. r[1] # probeId
                BY <2>1, <2>2 DEF OwnInv, Owned, ProbeHolds, HeldUnder
            <3>2. PICK j \in Done : r[2] = Parse[layouts[j].hotkey]
                BY <2>1, <2>2, <3>1 DEF OwnInv, Owned, HeldMatches, Synced
            <3>3. j \in Active(layouts, fingerprint) /\ j # i
                BY <3>2 DEF Done
            <3> QED
                BY <2>1, <2>3, <3>2, <3>3, ActiveDistinct
                DEF TypeInv, TypeOK, CallOK
        <2> QED
            BY <2>2, <2>3 DEF Taken
    <1>2. TypeInv /\ AnswersInv /\ OwnInv => [Fair]_vars
        BY <1>1
    <1> QED
        BY OwnInvariant, <1>2, PTL DEF NeverBlocksItself
-----------------------------------------------------------------------------
(***************************************************************************)
(* The balloon.  BalloonOnlyForNews is inductive: every refusal adds its   *)
(* layout to unavailable, and counts it unless it was there before.        *)
(***************************************************************************)
LEMMA NewsInit == Init => BalloonOnlyForNews
    BY DEF Init, BalloonOnlyForNews

LEMMA NewsStep == TypeInv /\ BalloonOnlyForNews /\ [Next]_vars => BalloonOnlyForNews'
    <1> SUFFICES ASSUME TypeInv, BalloonOnlyForNews, [Next]_vars, pc' = "register"
                 PROVE  newly' > 0 <=> ~(unavailable' \subseteq was')
        BY DEF BalloonOnlyForNews
    <1>1. newly \in Nat
        BY DEF TypeInv, TypeOK, CallOK
    <1>2. CASE SelectActive
        BY <1>2 DEF SelectActive
    <1>3. ASSUME NEW i \in todo, RegisterRefused(i)
          PROVE  newly' > 0 <=> ~(unavailable' \subseteq was')
        <2>1. /\ newly > 0 <=> ~(unavailable \subseteq was)
              /\ unavailable' = unavailable \cup {layouts[i].id}
              /\ newly' = IF layouts[i].id \in was THEN newly ELSE newly + 1
              /\ was' = was
            BY <1>3 DEF RegisterRefused, BalloonOnlyForNews
        <2>2. CASE layouts[i].id \in was
            BY <2>1, <2>2
        <2>3. CASE layouts[i].id \notin was
            BY <1>1, <2>1, <2>3
        <2> QED
            BY <2>2, <2>3
    <1>4. CASE pc = "register" /\ UNCHANGED <<newly, unavailable, was>>
        BY <1>4 DEF BalloonOnlyForNews
    <1>5. \/ SelectActive
          \/ \E i \in todo : RegisterRefused(i)
          \/ pc = "register" /\ UNCHANGED <<newly, unavailable, was>>
        BY DEF Next, Step, RetryProbeRelease, Release, RegisterGranted, SyncReturns,
               ProbeRegister, ProbeRelease, ProbeReturns, CallSync, CallProbe,
               ForeignRegister, ForeignUnregister, DestroyWindow, ProcessEnds,
               ProcessStarts, OtherCallFails, Idle, vars, manager, locals
    <1> QED
        BY <1>2, <1>3, <1>4, <1>5

(***************************************************************************)
(* In every sync the count of new refusals is positive exactly when a      *)
(* layout is unavailable that was not when it began, whatever fails.       *)
(***************************************************************************)
THEOREM BalloonOnlyForNewsAlways == Spec => []BalloonOnlyForNews
    <1>1. TypeInv /\ BalloonOnlyForNews /\ [Next]_vars => (TypeInv /\ BalloonOnlyForNews)'
        BY TypeStep, NewsStep
    <1> QED
        BY TypeInit, NewsInit, <1>1, PTL DEF Spec

-----------------------------------------------------------------------------
(***************************************************************************)
(* The probe.  What a probe has left under id 0 is what is held there but  *)
(* for the combination of a probe that is under way.  After one failure it *)
(* is one combination at most, and the flag is set: a second probe adds    *)
(* its own, and frees one of the two again.                                *)
(***************************************************************************)
LeftOver ==
    HeldUnder(probeId) \ (IF pc = "probeHeld" THEN {<<probeId, asked>>} ELSE {})

AtMostOne == faults >= MaxFaults - 1

FlagTells ==
    /\ LeftOver # {} => probeReleasePending
    /\ \A r, q \in LeftOver : r = q

FlagInv == AtMostOne => FlagTells

LEMMA FlagInit == Init => FlagInv
    BY DEF Init, FlagInv, FlagTells, LeftOver, HeldUnder

\* Failures do not go away.
LEMMA AtMostOneBefore ==
    ASSUME TypeInv, Fault \/ UNCHANGED faults, AtMostOne'
    PROVE  AtMostOne
    BY ManagerAssumption DEF TypeInv, TypeOK, WindowsOK, Fault, AtMostOne

\* The first failure is the first.
LEMMA FirstFault ==
    ASSUME TypeInv, Fault, AtMostOne'
    PROVE  NoFault
    BY ManagerAssumption DEF TypeInv, TypeOK, WindowsOK, Fault, AtMostOne, NoFault

\* A step that is neither a probe's nor frees what a probe has left.
LEMMA FlagKept ==
    ASSUME FlagTells, LeftOver' \subseteq LeftOver, UNCHANGED probeReleasePending
    PROVE  FlagTells'
    BY DEF FlagTells

\* A release of id 0 with the flag set leaves nothing, or fails.
LEMMA FlagRetried ==
    ASSUME FlagTells, pc = "retryProbe", pc' = "release", UnregisterSucceeds(probeId)
    PROVE  FlagTells'
    <1>1. PICK freed \in (SUBSET HeldUnder(probeId)) \ {{}} : held' = held \ freed
        BY DEF UnregisterSucceeds
    <1>2. LeftOver = HeldUnder(probeId) /\ LeftOver' = HeldUnder(probeId) \ freed
        BY <1>1 DEF LeftOver, HeldUnder
    <1>3. LeftOver' = {}
        BY <1>1, <1>2 DEF FlagTells
    <1> QED
        BY <1>3 DEF FlagTells

\* The release at the end of a probe: one of at most two combinations goes.
LEMMA FlagReleased ==
    ASSUME FlagTells, pc = "probeHeld", pc' = "granted", UnregisterSucceeds(probeId),
           UNCHANGED <<probeReleasePending, asked>>
    PROVE  FlagTells'
    <1>1. PICK freed \in (SUBSET HeldUnder(probeId)) \ {{}} : held' = held \ freed
        BY DEF UnregisterSucceeds
    <1>2. /\ LeftOver = HeldUnder(probeId) \ {<<probeId, asked>>}
          /\ LeftOver' = HeldUnder(probeId) \ freed
        BY <1>1 DEF LeftOver, HeldUnder
    <1>3. PICK r \in HeldUnder(probeId) : r \in freed
        BY <1>1
    <1>4. CASE r = <<probeId, asked>>
        BY <1>2, <1>3, <1>4 DEF FlagTells
    <1>5. CASE r # <<probeId, asked>>
        <2>1. LeftOver' \subseteq {<<probeId, asked>>} /\ LeftOver # {}
            BY <1>2, <1>3, <1>5 DEF FlagTells
        <2> QED
            BY <2>1 DEF FlagTells
    <1> QED
        BY <1>4, <1>5

\* The same, if it fails: then it is the first failure, or nothing was held.
LEMMA FlagRaised ==
    ASSUME TypeInv, OwnInv, AtMostOne', UnregisterFails(probeId),
           pc' = "granted", probeReleasePending' = TRUE
    PROVE  FlagTells'
    <1>1. LeftOver' = HeldUnder(probeId)
        BY DEF LeftOver, HeldUnder, UnregisterFails
    <1>2. CASE HeldUnder(probeId) = {}
        BY <1>1, <1>2 DEF FlagTells
    <1>3. CASE HeldUnder(probeId) # {}
        <2>1. OneEach
            BY <1>3, FirstFault DEF UnregisterFails, OwnInv, Owned
        <2> QED
            BY <1>1, <2>1 DEF FlagTells, OneEach, HeldUnder
    <1> QED
        BY <1>2, <1>3

LEMMA FlagStep == TypeInv /\ OwnInv /\ FlagInv /\ [Next]_vars => FlagInv'
    <1> SUFFICES ASSUME TypeInv, OwnInv, FlagInv, [Next]_vars, AtMostOne'
                 PROVE  FlagTells'
        BY DEF FlagInv
    <1>1. Fault \/ UNCHANGED faults
        BY DEF Next, Step, RetryProbeRelease, Release, SelectActive, RegisterGranted,
               RegisterRefused, SyncReturns, ProbeRegister, ProbeRelease, ProbeReturns,
               CallSync, CallProbe, ForeignRegister, ForeignUnregister, DestroyWindow,
               ProcessEnds, ProcessStarts, OtherCallFails, vars, windows, RegisterSucceeds,
               RegisterFails, UnregisterSucceeds, UnregisterFails
    <1>2. FlagTells
        BY <1>1, AtMostOneBefore DEF FlagInv
    <1>3. CASE RetryProbeRelease
        <2>1. pc = "retryProbe" /\ pc' = "release"
            BY <1>3 DEF RetryProbeRelease
        <2>2. CASE UnregisterSucceeds(probeId)
            BY <1>2, <2>1, <2>2, FlagRetried
        <2>3. CASE UNCHANGED <<held, probeReleasePending>>
            BY <1>2, <2>1, <2>3, FlagKept DEF LeftOver, HeldUnder
        <2> QED
            BY <1>3, <2>2, <2>3 DEF RetryProbeRelease, UnregisterFails, windows
    <1>4. ASSUME NEW id \in releasing, Release(id) PROVE FlagTells'
        <2>1. pc = "release" /\ pc' = "release" /\ held' \subseteq held
            BY <1>4 DEF Release, UnregisterSucceeds, UnregisterFails
        <2> QED
            BY <1>2, <1>4, <2>1, FlagKept DEF LeftOver, HeldUnder, Release, manager
    <1>5. ASSUME NEW i \in todo, RegisterGranted(i) PROVE FlagTells'
        <2>1. nextId # probeId
            BY DEF TypeInv, TypeOK, CallOK
        <2>2. LeftOver' = LeftOver
            BY <1>5, <2>1 DEF RegisterGranted, RegisterSucceeds, LeftOver, HeldUnder
        <2> QED
            BY <1>2, <1>5, <2>2, FlagKept DEF RegisterGranted
    <1>6. CASE ProbeRegister
        <2>1. /\ pc = "probe" /\ UNCHANGED <<probeReleasePending, asked>>
              /\ \/ RegisterSucceeds(probeId, asked) /\ pc' = "probeHeld"
                 \/ RegisterFails(asked) /\ pc' # "probeHeld"
            BY <1>6 DEF ProbeRegister, manager, locals
        <2>2. LeftOver' \subseteq LeftOver
            BY <2>1 DEF RegisterSucceeds, RegisterFails, LeftOver, HeldUnder
        <2> QED
            BY <1>2, <2>1, <2>2, FlagKept
    <1>7. CASE ProbeRelease
        <2>1. pc = "probeHeld" /\ pc' = "granted" /\ UNCHANGED asked
            BY <1>7 DEF ProbeRelease, locals
        <2>2. CASE UnregisterSucceeds(probeId) /\ UNCHANGED probeReleasePending
            BY <1>2, <2>1, <2>2, FlagReleased
        <2>3. CASE UnregisterFails(probeId) /\ probeReleasePending' = TRUE
            BY <2>1, <2>3, FlagRaised
        <2> QED
            BY <1>7, <2>2, <2>3 DEF ProbeRelease
    <1>8. CASE held' = {}
        BY <1>8 DEF FlagTells, LeftOver, HeldUnder
    <1>9. CASE /\ pc # "probeHeld" /\ pc' # "probeHeld"
               /\ UNCHANGED <<held, probeReleasePending>>
        BY <1>2, <1>9, FlagKept DEF LeftOver, HeldUnder
    <1>10. CASE UNCHANGED <<pc, asked, held, probeReleasePending>>
        BY <1>2, <1>10, FlagKept DEF LeftOver, HeldUnder
    <1>11. ASSUME NEW i \in todo, RegisterRefused(i)
           PROVE  UNCHANGED <<pc, asked, held, probeReleasePending>>
        BY <1>11 DEF RegisterRefused, RegisterFails
    <1>12. CASE SelectActive \/ SyncReturns \/ ProbeReturns
                \/ (\E ls \in LayoutLists, f \in Setup : CallSync(ls, f))
                \/ (\E c \in Combo : CallProbe(c))
        BY <1>9, <1>12
        DEF SelectActive, SyncReturns, ProbeReturns, CallSync, CallProbe, Idle,
            manager, windows
    <1>13. CASE \/ \E c \in Combo : ForeignRegister(c) \/ ForeignUnregister(c)
                \/ OtherCallFails \/ UNCHANGED vars
        BY <1>10, <1>13
        DEF ForeignRegister, ForeignUnregister, OtherCallFails, vars, manager, locals, windows
    <1>14. CASE DestroyWindow \/ ProcessEnds \/ ProcessStarts
        BY <1>8, <1>14 DEF DestroyWindow, ProcessEnds, ProcessStarts, OwnInv
    <1> QED
        BY <1>3, <1>4, <1>5, <1>6, <1>7, <1>10, <1>11, <1>12, <1>13, <1>14 DEF Next, Step

(***************************************************************************)
(* With one failure at most, a combination is held under id 0 between      *)
(* calls only while the flag is set that makes the next sync release it.   *)
(***************************************************************************)
THEOREM ProbeNotForgottenAlways == Spec => []ProbeNotForgotten
    <1>1. TypeInv /\ AnswersInv /\ OwnInv /\ FlagInv /\ [Next]_vars
            => (TypeInv /\ AnswersInv /\ OwnInv /\ FlagInv)'
        BY TypeStep, AnswersStep, OwnStep, FlagStep
    <1>2. FlagInv => ProbeNotForgotten
        BY DEF FlagInv, FlagTells, AtMostOne, ProbeNotForgotten, LeftOver, Idle
    <1> QED
        BY TypeInit, AnswersInit, OwnInit, FlagInit, <1>1, <1>2, PTL DEF Spec
=============================================================================
