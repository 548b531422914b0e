------------------------------ MODULE Autostart ------------------------------
(***************************************************************************)
(* The Run entry of internal/autostart: a value of the registry that says  *)
(* which program to start, or what is there instead of one.                *)
(***************************************************************************)
EXTENDS Naturals

CONSTANTS Exe, OtherExe   \* fenster's own path, and another one

\* Without the key or the value, nothing is started.
NoKey   == [at |-> "key"]
NoValue == [at |-> "value"]
Entry(path, quoted, upper) ==
    [at |-> "entry", path |-> path, quoted |-> quoted, upper |-> upper]

Registry ==
    {NoKey, NoValue} \cup {Entry(p, q, u) : p \in {Exe, OtherExe}, q, u \in BOOLEAN}

\* Mutant of Enabled: any entry will do.
EnabledByAny(r) == r.at = "entry"

\* Quotes and case make no difference.
Enabled(r) == r.at = "entry" /\ r.path = Exe

\* The key is created if need be.
Enable(r) == Entry(Exe, TRUE, FALSE)

\* What is not there need not be deleted.
Disable(r) == IF r = NoKey THEN NoKey ELSE NoValue
=============================================================================
