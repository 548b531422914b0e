----------------------------- MODULE AtomicFile -----------------------------
(***************************************************************************)
(* What internal/store promises about layouts.json, with nothing said of   *)
(* how: the file and the copy of it in memory change together or not at    *)
(* all; a process that dies leaves the file at what was last committed; a  *)
(* power loss may fall back to what had reached the disk, which is         *)
(* something that was committed, and never to a mixture.                   *)
(***************************************************************************)
CONSTANTS
    Content,     \* what a File value can be
    EmptyFile,   \* File{Version: SchemaVersion}
    Corrupt,     \* bytes that are no JSON
    Newer,       \* a file of a newer schema that File can hold
    Incompatible,  \* one that it cannot: a field has another type
    Missing,     \* no file
    NoMemory     \* no process has the file loaded

OnDisk == Content \cup {Corrupt, Newer, Incompatible, Missing}

VARIABLES
    file,        \* what a reader of layouts.json sees
    durable,     \* what it would see after a power loss
    memory       \* Store.file of the running process

vars == <<file, durable, memory>>

Init ==
    /\ file \in {Missing, EmptyFile}
    /\ durable = file
    /\ memory = NoMemory

\* A mutation and the Save that follows it succeed.
Commit(v) ==
    /\ memory # NoMemory
    /\ memory' = v
    /\ file' = v
    /\ UNCHANGED durable

\* A process starts with what it finds.
Load ==
    /\ memory = NoMemory
    /\ file \in Content \cup {Missing}
    /\ memory' = IF file = Missing THEN EmptyFile ELSE file
    /\ UNCHANGED <<file, durable>>

\* A file that does not unmarshal is moved out of the way.
MoveAside ==
    /\ memory = NoMemory
    /\ file \in {Corrupt, Incompatible}
    /\ file' = Missing
    /\ UNCHANGED <<durable, memory>>

Die ==
    /\ memory' = NoMemory
    /\ UNCHANGED <<file, durable>>

Flush == durable' = file /\ UNCHANGED <<file, memory>>

PowerLoss ==
    /\ file' = durable
    /\ memory' = NoMemory
    /\ UNCHANGED durable

\* The user replaces the file by hand while nothing has it loaded.
HandEdit(x) ==
    /\ memory = NoMemory
    /\ file' = x
    /\ durable' = x
    /\ UNCHANGED memory

Next ==
    \/ \E v \in Content : Commit(v)
    \/ Load
    \/ MoveAside
    \/ Die
    \/ Flush
    \/ PowerLoss
    \/ \E x \in OnDisk : HandEdit(x)

Spec == Init /\ [][Next]_vars
=============================================================================
