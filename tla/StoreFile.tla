------------------------------ MODULE StoreFile ------------------------------
(***************************************************************************)
(* Store.Load and Store.Save of internal/store/store.go, call by call,     *)
(* over a file system whose directory and file contents reach the disk     *)
(* late: between two calls the process may be killed, and at any time the  *)
(* power may go.  The caller is the one every action of the program        *)
(* follows: mutate the copy in memory, Save, and undo the mutation if Save *)
(* fails.                                                                  *)
(***************************************************************************)
EXTENDS Naturals

CONSTANTS
    Content,     \* what a File value can be
    EmptyFile,   \* File{Version: SchemaVersion}
    Corrupt,     \* bytes that are no JSON
    Newer,       \* a file of a newer schema that File can hold
    Incompatible,  \* one that it cannot: a field has another type
    Missing,     \* no file
    NoMemory,    \* no process has the file loaded
    Torn,        \* what is on disk of a file written but not synced
    Inode        \* bound: files that exist at a time

ASSUME StoreFileAssumption ==
    /\ EmptyFile \in Content
    /\ {Corrupt, Newer, Incompatible, Missing, NoMemory, Torn} \cap Content = {}
    /\ Newer \notin {Corrupt, Incompatible}
    /\ Missing \notin {Corrupt, Newer, Incompatible, Torn}
    /\ Torn \notin {Corrupt, Newer, Incompatible}
    /\ Missing \notin Inode

VARIABLES
    \* the process
    pc,        \* where Load or Save is
    memory,    \* Store.file
    undo,      \* what the caller puts back if Save fails
    tmp,       \* the temp file Save works on
    \* the file system as a process sees it: what layouts.json names, the
    \* temp files, the files moved aside, the content of each file
    path, temps, broken, data,
    \* the part of it that has reached the disk
    diskPath, diskData

process == <<pc, memory, undo, tmp>>
names   == <<path, temps, broken>>
vars    == <<process, names, data, diskPath, diskData>>

\* An inode no directory entry refers to, now or after a power loss.
Free(i) == i \notin temps \cup broken \cup {path, diskPath}

Seen == IF path = Missing THEN Missing ELSE data[path]

\* What no run of this version has written.
Foreign == {Corrupt, Newer, Incompatible}

\* What json.Unmarshal refuses, which Load calls before it looks at the version.
Unparsed == {Corrupt, Incompatible, Torn}

Init ==
    /\ pc = "stopped"
    /\ memory = NoMemory
    /\ undo = NoMemory
    /\ tmp = Missing
    /\ temps = {}
    /\ broken = {}
    /\ path \in Inode \cup {Missing}
    /\ diskPath = path
    /\ data = [i \in Inode |-> EmptyFile]
    /\ diskData = data

-----------------------------------------------------------------------------
(***************************************************************************)
(* Load.  The process exits if the file cannot be read, is of a newer      *)
(* version, or does not unmarshal and cannot be moved aside.               *)
(***************************************************************************)
Start ==
    /\ pc = "stopped"
    /\ pc' = "load"
    /\ UNCHANGED <<memory, undo, tmp, names, data, diskPath, diskData>>

LoadSucceeds ==
    /\ pc = "load"
    /\ Seen \in Content \cup {Missing}
    /\ memory' = IF Seen = Missing THEN EmptyFile ELSE Seen
    /\ pc' = "running"
    /\ UNCHANGED <<undo, tmp, names, data, diskPath, diskData>>

\* Mutant of LoadMovesAside: a newer file is taken for a corrupt one.
LoadMovesNewerAside ==
    /\ pc = "load"
    /\ Seen \in Unparsed \cup {Newer}
    /\ broken' = broken \cup {path}
    /\ path' = Missing
    /\ pc' = "movedAside"
    /\ UNCHANGED <<memory, undo, tmp, temps, data, diskPath, diskData>>

\* Mutant of LoadMovesAside: fenster starts empty without moving the file.
LoadLeavesCorrupt ==
    /\ pc = "load"
    /\ Seen \in Unparsed
    /\ pc' = "movedAside"
    /\ UNCHANGED <<memory, undo, tmp, names, data, diskPath, diskData>>

LoadMovesAside ==
    /\ pc = "load"
    /\ Seen \in Unparsed
    /\ broken' = broken \cup {path}
    /\ path' = Missing
    /\ pc' = "movedAside"
    /\ UNCHANGED <<memory, undo, tmp, temps, data, diskPath, diskData>>

LoadStartsEmpty ==
    /\ pc = "movedAside"
    /\ memory' = EmptyFile
    /\ pc' = "running"
    /\ UNCHANGED <<undo, tmp, names, data, diskPath, diskData>>

LoadFails ==
    /\ pc = "load"
    /\ Seen # Missing
    /\ pc' = "stopped"
    /\ UNCHANGED <<memory, undo, tmp, names, data, diskPath, diskData>>

-----------------------------------------------------------------------------
(***************************************************************************)
(* Save.  Every call may fail; the temp file is then removed, an error of  *)
(* the removal is ignored, and the caller undoes its mutation.             *)
(***************************************************************************)
Mutate(v) ==
    /\ pc = "running"
    /\ memory' = v
    /\ undo' = memory
    /\ pc' = "create"
    /\ UNCHANGED <<tmp, names, data, diskPath, diskData>>

CreateTemp(i) ==
    /\ pc = "create"
    /\ Free(i)
    /\ tmp' = i
    /\ temps' = temps \cup {i}
    /\ data' = [data EXCEPT ![i] = Torn]
    /\ diskData' = [diskData EXCEPT ![i] = Torn]
    /\ pc' = "write"
    /\ UNCHANGED <<memory, undo, path, broken, diskPath>>

\* Mutant of Write: Sync is not called before Close.
WriteWithoutSync ==
    /\ pc = "write"
    /\ data' = [data EXCEPT ![tmp] = memory]
    /\ pc' = "close"
    /\ UNCHANGED <<memory, undo, tmp, names, diskPath, diskData>>

Write ==
    /\ pc = "write"
    /\ data' = [data EXCEPT ![tmp] = memory]
    /\ pc' = "sync"
    /\ UNCHANGED <<memory, undo, tmp, names, diskPath, diskData>>

Sync ==
    /\ pc = "sync"
    /\ diskData' = [diskData EXCEPT ![tmp] = data[tmp]]
    /\ pc' = "close"
    /\ UNCHANGED <<memory, undo, tmp, names, data, diskPath>>

Close ==
    /\ pc = "close"
    /\ pc' = "rename"
    /\ UNCHANGED <<memory, undo, tmp, names, data, diskPath, diskData>>

Rename ==
    /\ pc = "rename"
    /\ path' = tmp
    /\ temps' = temps \ {tmp}
    /\ tmp' = Missing
    /\ undo' = NoMemory
    /\ pc' = "running"
    /\ UNCHANGED <<memory, broken, data, diskPath, diskData>>

\* Creating the directory or the temp file fails: there is nothing to remove.
CreateFails ==
    /\ pc = "create"
    /\ pc' = "undo"
    /\ UNCHANGED <<memory, undo, tmp, names, data, diskPath, diskData>>

CallFails ==
    /\ pc \in {"write", "sync", "close", "rename"}
    /\ pc' = "remove"
    /\ UNCHANGED <<memory, undo, tmp, names, data, diskPath, diskData>>

RemoveTemp ==
    /\ pc = "remove"
    /\ temps' \in {temps, temps \ {tmp}}
    /\ tmp' = Missing
    /\ pc' = "undo"
    /\ UNCHANGED <<memory, undo, path, broken, data, diskPath, diskData>>

\* Mutant of Undo: the caller reports the error and keeps the mutation.
UndoNothing ==
    /\ pc = "undo"
    /\ undo' = NoMemory
    /\ pc' = "running"
    /\ UNCHANGED <<memory, tmp, names, data, diskPath, diskData>>

Undo ==
    /\ pc = "undo"
    /\ memory' = undo
    /\ undo' = NoMemory
    /\ pc' = "running"
    /\ UNCHANGED <<tmp, names, data, diskPath, diskData>>

-----------------------------------------------------------------------------
\* The process ends or is killed: the file system keeps what it has seen.
Die ==
    /\ pc # "stopped"
    /\ pc' = "stopped"
    /\ memory' = NoMemory
    /\ undo' = NoMemory
    /\ tmp' = Missing
    /\ UNCHANGED <<names, data, diskPath, diskData>>

\* The operating system writes back what it holds, whenever it likes.
FlushData(i) ==
    /\ diskData' = [diskData EXCEPT ![i] = data[i]]
    /\ UNCHANGED <<process, names, data, diskPath>>

FlushDirectory ==
    /\ diskPath' = path
    /\ UNCHANGED <<process, names, data, diskData>>

PowerLoss ==
    /\ pc' = "stopped"
    /\ memory' = NoMemory
    /\ undo' = NoMemory
    /\ tmp' = Missing
    /\ path' = diskPath
    /\ broken' = broken \ {diskPath}
    /\ data' = diskData
    /\ UNCHANGED <<temps, diskPath, diskData>>

\* The user replaces the file by hand while fenster is not running.
HandEdit(i, x) ==
    /\ pc = "stopped"
    /\ Free(i)
    /\ path' = i
    /\ diskPath' = i
    /\ data' = [data EXCEPT ![i] = x]
    /\ diskData' = [diskData EXCEPT ![i] = x]
    /\ UNCHANGED <<process, temps, broken>>

\* The user deletes the temp files a failed or killed Save left behind.
Tidy ==
    /\ pc = "stopped"
    /\ temps' = {}
    /\ UNCHANGED <<process, path, broken, data, diskPath, diskData>>

SaveStep ==
    \/ \E i \in Inode : CreateTemp(i)
    \/ Write \/ Sync \/ Close \/ Rename
    \/ CreateFails \/ CallFails \/ RemoveTemp \/ Undo

LoadStep == LoadSucceeds \/ LoadMovesAside \/ LoadStartsEmpty \/ LoadFails

Next ==
    \/ Start \/ LoadStep
    \/ \E v \in Content : Mutate(v)
    \/ SaveStep
    \/ Die \/ PowerLoss \/ FlushDirectory
    \/ \E i \in Inode : FlushData(i)
    \/ \E i \in Inode, x \in Foreign : HandEdit(i, x)
    \/ Tidy

Spec == Init /\ [][Next]_vars

-----------------------------------------------------------------------------
Saving == {"create", "write", "sync", "close", "rename", "remove", "undo"}

OnDisk == IF diskPath = Missing THEN Missing ELSE diskData[diskPath]

(***************************************************************************)
(* Between mutations the copy in memory is what the file holds, whatever   *)
(* Save has met: "the in-memory store stays consistent with what is        *)
(* actually on disk".                                                      *)
(***************************************************************************)
MemoryMatchesFile ==
    pc = "running" => memory = IF Seen = Missing THEN EmptyFile ELSE Seen

(***************************************************************************)
(* A file of a newer schema that File can hold is "refused with an error   *)
(* and left untouched": only the user replaces it, while no process has it *)
(* loaded.  One with a field of another type is not: Load moves it aside   *)
(* before it could read the version, whatever its comment says.            *)
(***************************************************************************)
NewerUntouched == [][Seen = Newer /\ Seen' # Newer => pc = "stopped"]_vars

(***************************************************************************)
(* What the user broke, or a newer version wrote, is never lost to the     *)
(* program: whatever it takes the file for, and wherever it dies, the      *)
(* bytes stay in layouts.json or next to it.                               *)
(***************************************************************************)
ForeignKept ==
    [][\A i \in Inode :
          /\ pc # "stopped"
          /\ i \in broken \cup {path}
          /\ data[i] \in Foreign
          => i \in broken' \cup {path'} /\ data'[i] = data[i]]_vars

(***************************************************************************)
(* The store implements AtomicFile: until the rename, the mutation in      *)
(* progress has not happened.                                              *)
(***************************************************************************)
Atomic == INSTANCE AtomicFile
    WITH file    <- Seen,
         durable <- OnDisk,
         memory  <- IF pc \in Saving THEN undo ELSE memory

Implements == Atomic!Spec
=============================================================================
