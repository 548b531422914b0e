---------------------------- MODULE ProcessProofs ----------------------------
(***************************************************************************)
(* What holds of layouts.json for every set of contents and any number of  *)
(* saves, failures, kills and power losses; and of the instances of        *)
(* Lifecycle for any number of processes, incidents and messages.          *)
(***************************************************************************)
EXTENDS StoreFile, Lifecycle, TLAPS

-----------------------------------------------------------------------------
(***************************************************************************)
(* The invariant.  What the variables may hold at each step of a call:     *)
(* the mutation and what undoes it while Save runs, the temp file from its *)
(* creation to the rename or the removal.                                  *)
(***************************************************************************)
Stored == Content \cup Foreign \cup {Torn}

HasTmp == {"write", "sync", "close", "rename", "remove"}

FilesOK ==
    /\ path \in Inode \cup {Missing}
    /\ diskPath \in Inode \cup {Missing}
    /\ temps \subseteq Inode
    /\ broken \subseteq Inode
    /\ data \in [Inode -> Stored]
    /\ diskData \in [Inode -> Stored]

ProcessOK ==
    /\ pc \in {"stopped", "load", "movedAside", "running"} \cup Saving
    /\ pc \in {"stopped", "load", "movedAside"} => memory = NoMemory
    /\ pc \in {"running"} \cup Saving => memory \in Content
    /\ pc \in Saving => undo \in Content
    /\ pc \in HasTmp => tmp \in temps

(***************************************************************************)
(* A file has one role at a time: a temp file is neither layouts.json, now *)
(* or after a power loss, nor a file moved aside.                          *)
(***************************************************************************)
RolesOK ==
    /\ \A i \in temps : i \notin broken
    /\ path \notin temps \cup broken
    /\ diskPath \notin temps

(***************************************************************************)
(* A file that is no temp file is on the disk as it is seen, and whole.    *)
(* The temp file gets there call by call: that it has got there before the *)
(* rename is what Sync is for.                                             *)
(***************************************************************************)
Settled(i) == data[i] = diskData[i] /\ data[i] # Torn

ContentsOK ==
    /\ \A i \in Inode : i \in broken \cup {path, diskPath} => Settled(i)
    /\ pc \in {"sync", "close", "rename"} => data[tmp] = memory
    /\ pc \in {"close", "rename"} => diskData[tmp] = memory

(***************************************************************************)
(* The directory lags behind only what the program has done itself.        *)
(***************************************************************************)
LagOK == path # diskPath => Seen \in Content \cup {Missing}

(***************************************************************************)
(* The file is what the caller goes back to if the save fails.             *)
(***************************************************************************)
Loaded == IF pc \in Saving THEN undo ELSE memory

FileOK ==
    /\ pc \in {"running"} \cup Saving =>
           Loaded = IF Seen = Missing THEN EmptyFile ELSE Seen
    /\ pc = "movedAside" => path = Missing

Inv == FilesOK /\ ProcessOK /\ RolesOK /\ ContentsOK /\ LagOK /\ FileOK

LEMMA InvInit == Init => Inv
    BY StoreFileAssumption
    DEF Init, Inv, FilesOK, ProcessOK, RolesOK, ContentsOK, LagOK, FileOK, Settled,
        Stored, Saving, HasTmp, Seen, Loaded

LEMMA FilesStep == Inv /\ [Next]_vars => FilesOK'
    <1> SUFFICES ASSUME Inv, [Next]_vars PROVE FilesOK'
        OBVIOUS
    <1> USE StoreFileAssumption DEF Inv, FilesOK, Stored
    <1>1. ASSUME NEW i \in Inode, CreateTemp(i) PROVE FilesOK'
        BY <1>1 DEF CreateTemp
    <1>2. CASE Write
        BY <1>2 DEF Write, ProcessOK, Saving, HasTmp, names
    <1>3. CASE Sync
        BY <1>3 DEF Sync, ProcessOK, Saving, HasTmp, names
    <1>4. CASE Rename
        BY <1>4 DEF Rename, ProcessOK, HasTmp
    <1>5. CASE LoadMovesAside
        BY <1>5 DEF LoadMovesAside, Seen, Unparsed
    <1>6. CASE PowerLoss
        BY <1>6 DEF PowerLoss
    <1>7. ASSUME NEW i \in Inode, FlushData(i) PROVE FilesOK'
        BY <1>7 DEF FlushData, names
    <1>8. ASSUME NEW i \in Inode, NEW x \in Foreign, HandEdit(i, x)
          PROVE  FilesOK'
        BY <1>8 DEF HandEdit
    <1>9. CASE FlushDirectory \/ Tidy \/ RemoveTemp
        BY <1>9 DEF FlushDirectory, Tidy, RemoveTemp, names
    <1>10. CASE UNCHANGED <<names, data, diskPath, diskData>>
        BY <1>10 DEF names
    <1>11. CASE \/ Start \/ LoadSucceeds \/ LoadStartsEmpty \/ LoadFails
                \/ \E v \in Content : Mutate(v)
                \/ Close \/ CreateFails \/ CallFails \/ Undo \/ Die \/ UNCHANGED vars
        BY <1>10, <1>11
        DEF Start, LoadSucceeds, LoadStartsEmpty, LoadFails, Mutate, Close,
            CreateFails, CallFails, Undo, Die, vars, names
    <1> QED
        BY <1>1, <1>2, <1>3, <1>4, <1>5, <1>6, <1>7, <1>8, <1>9, <1>11
        DEF Next, SaveStep, LoadStep

LEMMA ProcessStep == Inv /\ [Next]_vars => ProcessOK'
    <1> SUFFICES ASSUME Inv, [Next]_vars PROVE ProcessOK'
        OBVIOUS
    <1> USE StoreFileAssumption DEF Inv, ProcessOK, Saving, HasTmp
    <1>1. CASE LoadStep
        BY <1>1 DEF LoadStep, LoadSucceeds, LoadMovesAside, LoadStartsEmpty, LoadFails
    <1>2. ASSUME NEW v \in Content, Mutate(v) PROVE ProcessOK'
        BY <1>2 DEF Mutate
    <1>3. ASSUME NEW i \in Inode, CreateTemp(i) PROVE ProcessOK'
        BY <1>3 DEF CreateTemp
    <1>4. CASE Write \/ Sync \/ Close \/ CallFails
        BY <1>4 DEF Write, Sync, Close, CallFails, names
    <1>5. CASE Rename \/ CreateFails \/ RemoveTemp \/ Undo
        BY <1>5 DEF Rename, CreateFails, RemoveTemp, Undo, names
    <1>6. CASE Start \/ Die \/ PowerLoss \/ Tidy
        BY <1>6 DEF Start, Die, PowerLoss, Tidy, names, process
    <1>7. CASE UNCHANGED <<process, temps>>
        BY <1>7 DEF process
    <1>8. CASE \/ FlushDirectory
               \/ \E i \in Inode : FlushData(i)
               \/ \E i \in Inode, x \in Foreign : HandEdit(i, x)
               \/ UNCHANGED vars
        BY <1>7, <1>8 DEF FlushDirectory, FlushData, HandEdit, vars, names
    <1> QED
        BY <1>1, <1>2, <1>3, <1>4, <1>5, <1>6, <1>8 DEF Next, SaveStep

LEMMA RolesStep == Inv /\ [Next]_vars => RolesOK'
    <1> SUFFICES ASSUME Inv, [Next]_vars PROVE RolesOK'
        OBVIOUS
    <1> USE StoreFileAssumption DEF Inv, RolesOK
    <1>1. ASSUME NEW i \in Inode, CreateTemp(i) PROVE RolesOK'
        BY <1>1 DEF CreateTemp, Free
    <1>2. CASE Rename
        BY <1>2 DEF Rename, ProcessOK, HasTmp
    <1>3. CASE RemoveTemp \/ Tidy \/ FlushDirectory \/ PowerLoss
        BY <1>3 DEF RemoveTemp, Tidy, FlushDirectory, PowerLoss, names
    <1>4. CASE LoadMovesAside
        BY <1>4 DEF LoadMovesAside, FilesOK, Seen, Unparsed
    <1>5. ASSUME NEW i \in Inode, NEW x, HandEdit(i, x) PROVE RolesOK'
        BY <1>5 DEF HandEdit, Free
    <1>6. CASE UNCHANGED <<names, diskPath>>
        BY <1>6 DEF names
    <1>7. CASE \/ Start \/ LoadSucceeds \/ LoadStartsEmpty \/ LoadFails
               \/ \E v \in Content : Mutate(v)
               \/ Write \/ Sync \/ Close \/ CreateFails \/ CallFails \/ Undo \/ Die
               \/ \E i \in Inode : FlushData(i)
               \/ UNCHANGED vars
        BY <1>6, <1>7
        DEF Start, LoadSucceeds, LoadStartsEmpty, LoadFails, Mutate, Write, Sync, Close,
            CreateFails, CallFails, Undo, Die, FlushData, vars, names
    <1> QED
        BY <1>1, <1>2, <1>3, <1>4, <1>5, <1>7 DEF Next, SaveStep, LoadStep

LEMMA ContentsStep == Inv /\ [Next]_vars => ContentsOK'
    <1> SUFFICES ASSUME Inv, [Next]_vars PROVE ContentsOK'
        OBVIOUS
    <1> USE StoreFileAssumption DEF Inv, FilesOK, ContentsOK, Settled
    <1>1. ASSUME NEW i \in Inode, CreateTemp(i) PROVE ContentsOK'
        BY <1>1 DEF CreateTemp, Free
    <1>2. CASE Write
        BY <1>2 DEF Write, ProcessOK, HasTmp, RolesOK, names
    <1>3. CASE Sync
        BY <1>3 DEF Sync, ProcessOK, HasTmp, RolesOK, names
    <1>4. CASE Close
        BY <1>4 DEF Close, names
    <1>5. CASE Rename
        BY <1>5 DEF Rename, ProcessOK, HasTmp, Saving
    <1>6. CASE LoadMovesAside
        BY <1>6 DEF LoadMovesAside
    <1>7. CASE PowerLoss
        BY <1>7 DEF PowerLoss
    <1>8. ASSUME NEW i \in Inode, FlushData(i) PROVE ContentsOK'
        BY <1>8 DEF FlushData, process, names, ProcessOK, HasTmp
    <1>9. ASSUME NEW i \in Inode, NEW x \in Foreign, HandEdit(i, x)
          PROVE  ContentsOK'
        BY <1>9 DEF HandEdit, process, Free, Foreign
    <1>10. CASE FlushDirectory \/ Tidy \/ UNCHANGED vars
        BY <1>10 DEF FlushDirectory, Tidy, vars, process, names
    <1>11. CASE /\ UNCHANGED <<path, broken, data, diskPath, diskData>>
                /\ pc' \notin {"sync", "close", "rename"}
        BY <1>11
    <1>12. CASE \/ Start \/ LoadSucceeds \/ LoadStartsEmpty \/ LoadFails
                \/ \E v \in Content : Mutate(v)
                \/ CreateFails \/ CallFails \/ RemoveTemp \/ Undo \/ Die
        BY <1>11, <1>12
        DEF Start, LoadSucceeds, LoadStartsEmpty, LoadFails, Mutate, CreateFails,
            CallFails, RemoveTemp, Undo, Die, names
    <1> QED
        BY <1>1, <1>2, <1>3, <1>4, <1>5, <1>6, <1>7, <1>8, <1>9, <1>10, <1>12
        DEF Next, SaveStep, LoadStep

\* Nothing but these steps changes what a reader of layouts.json sees.
LEMMA SeenChanges ==
    ASSUME Inv, [Next]_vars
    PROVE  \/ Rename \/ LoadMovesAside \/ PowerLoss
           \/ \E i \in Inode, x \in Foreign : HandEdit(i, x)
           \/ UNCHANGED <<path, Seen>>
    <1> USE StoreFileAssumption DEF Inv, FilesOK, RolesOK, Seen
    <1>1. ASSUME NEW i \in Inode, CreateTemp(i) PROVE UNCHANGED <<path, Seen>>
        BY <1>1 DEF CreateTemp, Free
    <1>2. CASE Write
        BY <1>2 DEF Write, ProcessOK, HasTmp, names
    <1>3. CASE UNCHANGED <<path, data>>
        BY <1>3
    <1>4. CASE \/ Start \/ LoadSucceeds \/ LoadStartsEmpty \/ LoadFails
               \/ \E v \in Content : Mutate(v)
               \/ Sync \/ Close \/ CreateFails \/ CallFails \/ RemoveTemp \/ Undo
               \/ Die \/ FlushDirectory \/ Tidy
               \/ \E i \in Inode : FlushData(i)
               \/ UNCHANGED vars
        BY <1>3, <1>4
        DEF Start, LoadSucceeds, LoadStartsEmpty, LoadFails, Mutate, Sync, Close,
            CreateFails, CallFails, RemoveTemp, Undo, Die, FlushDirectory, Tidy,
            FlushData, vars, names
    <1> QED
        BY <1>1, <1>2, <1>4 DEF Next, SaveStep, LoadStep

\* The rename puts the mutation in place of the file.
LEMMA RenameCommits ==
    ASSUME Inv, Rename
    PROVE  Seen' = memory /\ memory \in Content /\ UNCHANGED OnDisk
    BY StoreFileAssumption
    DEF Inv, FilesOK, ProcessOK, ContentsOK, Rename, Seen, OnDisk, Saving, HasTmp

\* What a power loss leaves is what OnDisk says.
LEMMA PowerLossFallsBack ==
    ASSUME Inv, PowerLoss
    PROVE  Seen' = OnDisk /\ OnDisk' = OnDisk /\ path' = diskPath'
    BY DEF PowerLoss, Seen, OnDisk

LEMMA LagStep == Inv /\ [Next]_vars => LagOK'
    <1> SUFFICES ASSUME Inv, [Next]_vars PROVE LagOK'
        OBVIOUS
    <1> USE DEF LagOK
    <1>1. CASE Rename
        BY <1>1, RenameCommits
    <1>2. CASE LoadMovesAside
        BY <1>2 DEF LoadMovesAside, Seen
    <1>3. CASE PowerLoss
        BY <1>3, PowerLossFallsBack
    <1>4. ASSUME NEW i \in Inode, NEW x, HandEdit(i, x) PROVE LagOK'
        BY <1>4 DEF HandEdit
    <1>5. CASE UNCHANGED <<path, Seen>>
        <2>1. diskPath' = diskPath \/ diskPath' = path'
            BY <1>5 DEF Next, LoadStep, SaveStep, Start, LoadSucceeds, LoadMovesAside,
                LoadStartsEmpty, LoadFails, Mutate, CreateTemp, Write, Sync, Close,
                Rename, CreateFails, CallFails, RemoveTemp, Undo, Die, PowerLoss,
                FlushDirectory, FlushData, HandEdit, Tidy, vars, names
        <2> QED
            BY <1>5, <2>1 DEF Inv
    <1> QED
        BY <1>1, <1>2, <1>3, <1>4, <1>5, SeenChanges

LEMMA FileStep == Inv /\ [Next]_vars => FileOK'
    <1> SUFFICES ASSUME Inv, [Next]_vars PROVE FileOK'
        OBVIOUS
    <1> USE StoreFileAssumption DEF FileOK, Loaded, Saving
    <1>1. CASE Rename
        BY <1>1, RenameCommits DEF Rename
    <1>2. CASE LoadMovesAside \/ PowerLoss
        BY <1>2 DEF LoadMovesAside, PowerLoss
    <1>3. ASSUME NEW i \in Inode, NEW x, HandEdit(i, x) PROVE FileOK'
        BY <1>3 DEF HandEdit, process
    <1>4. CASE UNCHANGED <<path, Seen>>
        <2>1. CASE LoadSucceeds \/ LoadStartsEmpty
            BY <1>4, <2>1 DEF LoadSucceeds, LoadStartsEmpty, Inv, Seen
        <2>2. CASE \/ \E v \in Content : Mutate(v)
                   \/ \E i \in Inode : CreateTemp(i)
                   \/ Write \/ Sync \/ Close \/ CreateFails \/ CallFails
                   \/ RemoveTemp \/ Undo
            BY <1>4, <2>2
            DEF Mutate, CreateTemp, Write, Sync, Close, CreateFails, CallFails,
                RemoveTemp, Undo, Inv
        <2>3. CASE Start \/ LoadFails \/ Die
            BY <2>3 DEF Start, LoadFails, Die
        <2>4. CASE UNCHANGED process
            BY <1>4, <2>4 DEF process, Inv
        <2>5. CASE \/ FlushDirectory \/ Tidy
                   \/ \E i \in Inode : FlushData(i)
                   \/ UNCHANGED vars
            BY <2>4, <2>5 DEF FlushDirectory, Tidy, FlushData, vars
        <2> QED
            BY <1>1, <1>2, <1>3, <2>1, <2>2, <2>3, <2>5 DEF Next, SaveStep, LoadStep
    <1> QED
        BY <1>1, <1>2, <1>3, <1>4, SeenChanges

LEMMA Invariant == Spec => []Inv
    <1>1. Inv /\ [Next]_vars => Inv'
        BY FilesStep, ProcessStep, RolesStep, ContentsStep, LagStep, FileStep DEF Inv
    <1> QED
        BY InvInit, <1>1, PTL DEF Spec

-----------------------------------------------------------------------------
(***************************************************************************)
(* Between mutations the copy in memory is what layouts.json holds,        *)
(* whichever call of Load or Save has failed.                              *)
(***************************************************************************)
THEOREM MemoryMatchesFileAlways == Spec => []MemoryMatchesFile
    <1>1. Inv => MemoryMatchesFile
        BY DEF Inv, FileOK, Loaded, Saving, MemoryMatchesFile
    <1> QED
        BY Invariant, <1>1, PTL

\* A file of a newer version, or none that parses, is not loaded.
LEMMA LoadedIsContent ==
    ASSUME Inv, pc \in {"movedAside", "running"} \cup Saving
    PROVE  Seen \in Content \cup {Missing}
    BY StoreFileAssumption DEF Inv, ProcessOK, FileOK, Loaded, Saving, Seen

(***************************************************************************)
(* A file of a newer schema that unmarshals is replaced by the user alone, *)
(* while no process is running: fenster neither overwrites it nor moves    *)
(* it, and a power loss does not take it away.                             *)
(***************************************************************************)
THEOREM NewerUntouchedAlways == Spec => NewerUntouched
    <1> DEFINE Kept == Seen = Newer /\ Seen' # Newer => pc = "stopped"
    <1>1. Inv /\ [Next]_vars => Kept
        <2> SUFFICES ASSUME Inv, [Next]_vars, Seen = Newer, Seen' # Newer
                     PROVE  pc = "stopped"
            OBVIOUS
        <2>1. CASE Rename
            BY <2>1, LoadedIsContent, StoreFileAssumption DEF Rename, Saving
        <2>2. CASE LoadMovesAside
            BY <2>2, StoreFileAssumption DEF LoadMovesAside, Unparsed
        <2>3. CASE PowerLoss
            <3>1. path = diskPath
                BY StoreFileAssumption DEF Inv, LagOK
            <3> QED
                BY <2>3, <3>1, PowerLossFallsBack, StoreFileAssumption
                DEF Inv, FilesOK, ContentsOK, Settled, Seen, OnDisk
        <2>4. ASSUME NEW i \in Inode, NEW x, HandEdit(i, x) PROVE pc = "stopped"
            BY <2>4 DEF HandEdit
        <2> QED
            BY <2>1, <2>2, <2>3, <2>4, SeenChanges
    <1>2. Inv /\ [Next]_vars => [Kept]_vars
        BY <1>1
    <1> QED
        BY Invariant, <1>2, PTL DEF Spec, NewerUntouched

(***************************************************************************)
(* What the user broke or a newer version wrote stays in layouts.json or   *)
(* next to it, whatever the program does and wherever it dies.             *)
(***************************************************************************)
THEOREM ForeignKeptAlways == Spec => ForeignKept
    <1> DEFINE Kept == \A i \in Inode :
                          /\ pc # "stopped"
                          /\ i \in broken \cup {path}
                          /\ data[i] \in Foreign
                          => i \in broken' \cup {path'} /\ data'[i] = data[i]
    <1>1. Inv /\ [Next]_vars => Kept
        <2> DEFINE Stays(i) == i \in broken' \cup {path'} /\ data'[i] = data[i]
        <2> SUFFICES ASSUME Inv, [Next]_vars, NEW i \in Inode, pc # "stopped",
                            i \in broken \cup {path}, data[i] \in Foreign
                     PROVE  Stays(i)
            OBVIOUS
        <2> USE StoreFileAssumption DEF Inv, FilesOK
        <2>1. ASSUME NEW j \in Inode, CreateTemp(j) PROVE Stays(i)
            BY <2>1 DEF CreateTemp, Free
        <2>2. CASE Write
            BY <2>2 DEF Write, ProcessOK, HasTmp, RolesOK, names
        <2>3. CASE Rename
            <3>1. path = Missing \/ data[path] \notin Foreign
                BY <2>3, LoadedIsContent DEF Rename, Saving, Seen, Foreign
            <3> QED
                BY <2>3, <3>1 DEF Rename
        <2>4. CASE LoadMovesAside
            BY <2>4 DEF LoadMovesAside
        <2>5. CASE PowerLoss
            <3>1. data[i] = diskData[i]
                BY DEF ContentsOK, Settled
            <3>2. i = path => path = diskPath
                BY DEF LagOK, Seen, Foreign
            <3> QED
                BY <2>5, <3>1, <3>2 DEF PowerLoss
        <2>6. CASE UNCHANGED <<path, broken, data>>
            BY <2>6
        <2>7. CASE \/ LoadSucceeds \/ LoadStartsEmpty \/ LoadFails
                   \/ \E v \in Content : Mutate(v)
                   \/ Sync \/ Close \/ CreateFails \/ CallFails \/ RemoveTemp \/ Undo
                   \/ Die \/ FlushDirectory
                   \/ \E j \in Inode : FlushData(j)
                   \/ UNCHANGED vars
            BY <2>6, <2>7
            DEF LoadSucceeds, LoadStartsEmpty, LoadFails, Mutate, Sync, Close,
                CreateFails, CallFails, RemoveTemp, Undo, Die, FlushDirectory,
                FlushData, vars, names
        <2> QED
            BY <2>1, <2>2, <2>3, <2>4, <2>5, <2>7
            DEF Next, SaveStep, LoadStep, Start, Tidy, HandEdit
    <1>2. Inv /\ [Next]_vars => [Kept]_vars
        BY <1>1
    <1> QED
        BY Invariant, <1>2, PTL DEF Spec, ForeignKept

-----------------------------------------------------------------------------
(***************************************************************************)
(* The refinement.  What a power loss would leave changes only when the    *)
(* directory is written back, or by the user's hand.                       *)
(***************************************************************************)
LEMMA OnDiskKept ==
    ASSUME Inv, [Next]_vars
    PROVE  \/ FlushDirectory
           \/ \E i \in Inode, x \in Foreign : HandEdit(i, x)
           \/ UNCHANGED OnDisk
    <1> USE StoreFileAssumption DEF Inv, FilesOK, RolesOK, OnDisk
    <1>1. ASSUME NEW i \in Inode, CreateTemp(i) PROVE UNCHANGED OnDisk
        BY <1>1 DEF CreateTemp, Free
    <1>2. CASE Sync
        BY <1>2 DEF Sync, ProcessOK, HasTmp
    <1>3. ASSUME NEW i \in Inode, FlushData(i) PROVE UNCHANGED OnDisk
        BY <1>3 DEF FlushData, ContentsOK, Settled
    <1>4. CASE UNCHANGED <<diskPath, diskData>>
        BY <1>4
    <1>5. CASE \/ Start \/ LoadStep
               \/ \E v \in Content : Mutate(v)
               \/ Write \/ Close \/ Rename \/ CreateFails \/ CallFails \/ RemoveTemp
               \/ Undo \/ Die \/ PowerLoss \/ Tidy \/ UNCHANGED vars
        BY <1>4, <1>5
        DEF Start, LoadStep, LoadSucceeds, LoadMovesAside, LoadStartsEmpty, LoadFails,
            Mutate, Write, Close, Rename, CreateFails, CallFails, RemoveTemp, Undo, Die,
            PowerLoss, Tidy, vars
    <1> QED
        BY <1>1, <1>2, <1>3, <1>5 DEF Next, SaveStep

LEMMA AtomicInit == Init => Atomic!Init
    BY StoreFileAssumption DEF Init, Atomic!Init, Seen, OnDisk, Saving

LEMMA AtomicStep == Inv /\ [Next]_vars => [Atomic!Next]_(Atomic!vars)
    <1> DEFINE Mapped == IF pc \in Saving THEN undo ELSE memory
    <1> SUFFICES ASSUME Inv, [Next]_vars
                 PROVE  Atomic!Next \/ UNCHANGED <<Seen, OnDisk, Mapped>>
        BY DEF Atomic!vars
    <1> USE StoreFileAssumption DEF Saving
    <1>1. CASE LoadSucceeds
        <2>1. Atomic!Load
            BY <1>1 DEF LoadSucceeds, Atomic!Load, Inv, ProcessOK, Seen, OnDisk, names
        <2> QED
            BY <2>1 DEF Atomic!Next
    <1>2. CASE LoadMovesAside
        <2>1. Seen \in {Corrupt, Incompatible}
            BY <1>2 DEF LoadMovesAside, Unparsed, Inv, FilesOK, ContentsOK, Settled, Seen
        <2>2. Atomic!MoveAside
            BY <1>2, <2>1
            DEF LoadMovesAside, Atomic!MoveAside, Inv, ProcessOK, Seen, OnDisk
        <2> QED
            BY <2>2 DEF Atomic!Next
    <1>3. CASE LoadStartsEmpty
        <2>1. Atomic!Load
            BY <1>3
            DEF LoadStartsEmpty, Atomic!Load, Inv, ProcessOK, FileOK, Seen, OnDisk, names
        <2> QED
            BY <2>1 DEF Atomic!Next
    <1>4. CASE Rename
        <2>1. Atomic!Commit(memory)
            BY <1>4, RenameCommits DEF Rename, Atomic!Commit, Inv, ProcessOK
        <2> QED
            BY <1>4, <2>1, RenameCommits DEF Atomic!Next
    <1>5. CASE Die
        <2>1. Atomic!Die
            BY <1>5 DEF Die, Atomic!Die, Seen, OnDisk, names
        <2> QED
            BY <2>1 DEF Atomic!Next
    <1>6. CASE PowerLoss
        <2>1. Atomic!PowerLoss
            BY <1>6, PowerLossFallsBack DEF PowerLoss, Atomic!PowerLoss
        <2> QED
            BY <2>1 DEF Atomic!Next
    <1>7. CASE FlushDirectory
        <2>1. OnDisk' = Seen
            BY <1>7
            DEF FlushDirectory, names, Inv, FilesOK, ContentsOK, Settled, Seen, OnDisk
        <2>2. Atomic!Flush
            BY <1>7, <2>1 DEF FlushDirectory, Atomic!Flush, process, names, Seen
        <2> QED
            BY <2>2 DEF Atomic!Next
    <1>8. ASSUME NEW i \in Inode, NEW x \in Foreign, HandEdit(i, x)
          PROVE  Atomic!Next
        <2>1. Atomic!HandEdit(x)
            BY <1>8
            DEF HandEdit, Atomic!HandEdit, process, Inv, FilesOK, ProcessOK, Seen, OnDisk
        <2> QED
            BY <2>1 DEF Atomic!Next, Atomic!OnDisk, Foreign
    <1>9. ASSUME UNCHANGED Mapped,
                 ~Rename, ~LoadMovesAside, ~PowerLoss, ~FlushDirectory,
                 ~(\E i \in Inode, x \in Foreign : HandEdit(i, x))
          PROVE  UNCHANGED <<Seen, OnDisk, Mapped>>
        BY <1>9, SeenChanges, OnDiskKept
    <1>10. CASE \/ \E v \in Content : Mutate(v)
                \/ \E i \in Inode : CreateTemp(i)
                \/ Write \/ Sync \/ Close \/ CreateFails \/ CallFails \/ RemoveTemp
                \/ Undo
        <2>1. UNCHANGED Mapped
            BY <1>10 DEF Mutate, CreateTemp, Write, Sync, Close, CreateFails, CallFails,
                RemoveTemp, Undo
        <2> QED
            BY <1>4, <1>2, <1>6, <1>7, <1>8, <1>9, <2>1
    <1>11. CASE \/ Start \/ LoadFails \/ Tidy
                \/ \E i \in Inode : FlushData(i)
                \/ UNCHANGED vars
        <2>1. UNCHANGED Mapped
            BY <1>11 DEF Start, LoadFails, Tidy, FlushData, vars, process
        <2> QED
            BY <1>4, <1>2, <1>6, <1>7, <1>8, <1>9, <2>1
    <1> QED
        BY <1>1, <1>2, <1>3, <1>4, <1>5, <1>6, <1>7, <1>8, <1>10, <1>11
        DEF Next, SaveStep, LoadStep

(***************************************************************************)
(* The store does what AtomicFile promises: until the rename nothing has   *)
(* happened, and from then on everything has.                              *)
(***************************************************************************)
THEOREM ImplementsAlways == Spec => Implements
    BY Invariant, AtomicInit, AtomicStep, PTL DEF Spec, Implements, Atomic!Spec

-----------------------------------------------------------------------------
(***************************************************************************)
(* The processes: however many are started, killed and replaced, and       *)
(* however many calls fail, there is one that has the file.                *)
(***************************************************************************)
Lucky(p) == <<p, "CreateMutexW">> \notin unlucky

(***************************************************************************)
(* The mutex belongs to those past the guard, or about to be refused; and  *)
(* a process past the guard has it, if it could be created.                *)
(***************************************************************************)
MutexInv ==
    /\ stage \in [Proc -> Places]
    /\ mutex \subseteq {p \in Proc : stage[p] \in Guarded \cup {"opened"}}
    /\ \A p \in Proc : stage[p] \in Guarded /\ Lucky(p) => p \in mutex

\* An icon has a process that will remove it, unless that was killed or the
\* removal failed.
IconInv ==
    /\ icons \subseteq Proc
    /\ \A p \in icons :
          \/ stage[p] \in {"run", "modal", "remove", "killed"}
          \/ <<p, "NIM_DELETE">> \in unlucky

(***************************************************************************)
(* Left alone, the script copies and starts while nothing is alive, and    *)
(* from then on only what it started is.                                   *)
(***************************************************************************)
DeployInv ==
    /\ fresh \in Proc \cup {NoProc}
    /\ deploy # "done" => fresh = NoProc
    /\ ~disturbed =>
          /\ deploy # "blocked"
          /\ deploy \in {"copy", "start"} => Alive = {}
          /\ deploy = "done" => fresh \in Proc /\ Alive \subseteq {fresh}
          /\ fresh # NoProc => stage[fresh] \notin {"opened", "refused"}

-----------------------------------------------------------------------------
(***************************************************************************)
(* The mutex.                                                              *)
(***************************************************************************)
\* What happens to one process past the guard, or on its way out.
MutexStep(p) ==
    \/ Acquire(p) \/ AcquireFails(p) \/ Refuse(p) \/ Release(p)
       \/ Exit(p) \/ Kill(p)

\* Steps of a process on one side of the guard.
PassageStep(p) ==
    \/ Launch(p) \/ StartFresh(p)
    \/ Setup(p) \/ CreateWindow(p) \/ CreateWindowFails(p)
    \/ NewTrayIcon(p) \/ NewTrayIconFails(p)
    \/ OpenModal(p) \/ CloseModal(p) \/ ChooseQuit(p) \/ QuitReceived(p)
    \/ Remove(p) \/ Acknowledge(p)

\* Steps that move no process.
StillStep ==
    \/ \E p \in Proc : DeliverTaskbarCreated(p) \/ DeliverClose(p)
       \/ SignalQuit(p) \/ Reap(p)
    \/ FindWindow \/ PostClose \/ Wait \/ Copy
    \/ Crash \/ Restart \/ Broadcast
    \/ UNCHANGED lifeVars

\* Every step is of one of the three kinds.
LEMMA Steps ==
    [LifeNext]_lifeVars =>
        StillStep \/ \E p \in Proc : MutexStep(p) \/ PassageStep(p)
    BY DEF LifeNext, ThreadStep, UserStep, DeployStep, StillStep, MutexStep,
           PassageStep

\* Bad luck is never undone.
LEMMA UnluckyGrows == [LifeNext]_lifeVars => unlucky \subseteq unlucky'
    <1>1. ASSUME NEW p \in Proc, MutexStep(p) PROVE unlucky \subseteq unlucky'
        BY <1>1 DEF MutexStep, Acquire, AcquireFails, Refuse, Release, Exit, Kill,
                    Ends, BadLuck, history
    <1>2. ASSUME NEW p \in Proc, PassageStep(p) PROVE unlucky \subseteq unlucky'
        BY <1>2 DEF PassageStep, Launch, StartFresh, StartedBy, Setup, CreateWindow,
                    CreateWindowFails, NewTrayIcon, NewTrayIconFails, OpenModal,
                    CloseModal, ChooseQuit, QuitReceived, Remove, Acknowledge, BadLuck,
                    history
    <1>3. ASSUME StillStep PROVE unlucky \subseteq unlucky'
        BY <1>3 DEF StillStep, DeliverTaskbarCreated, DeliverClose, SignalQuit, Reap,
                    Readd, FindWindow, PostClose, Wait, Copy, Crash, Restart,
                    Broadcast, BadLuck, history, lifeVars
    <1> QED
        BY <1>1, <1>2, <1>3, Steps

\* A step that moves no process leaves the mutex alone, too.
LEMMA StillLeaves == StillStep => UNCHANGED <<stage, mutex>>
    BY DEF StillStep, DeliverTaskbarCreated, DeliverClose, SignalQuit, Reap,
           FindWindow, PostClose, Wait, Copy, Crash, Restart, Broadcast, lifeVars

\* A process that goes on stays on its side of the guard, mutex or not.
LEMMA PassageLeaves ==
    ASSUME NEW p \in Proc, PassageStep(p), stage \in [Proc -> Places]
    PROVE  /\ UNCHANGED mutex
           /\ \E place \in Places \ {"opened", "refused"} :
                 /\ stage' = [stage EXCEPT ![p] = place]
                 /\ place \in Guarded <=> stage[p] \in Guarded
           /\ stage[p] # "opened"
    BY DEF PassageStep, Launch, StartFresh, StartedBy, Setup, CreateWindow,
           CreateWindowFails, NewTrayIcon, NewTrayIconFails, OpenModal, CloseModal,
           ChooseQuit, QuitReceived, Remove, Acknowledge, Goto, At, Guarded, Places

LEMMA MutexInit == LifeInit => MutexInv /\ OneRunning
    BY DEF LifeInit, MutexInv, OneRunning, Guarded, Places

LEMMA MutexPreserved ==
    MutexInv /\ OneRunning /\ [LifeNext]_lifeVars => MutexInv' /\ OneRunning'
    <1> SUFFICES ASSUME MutexInv, OneRunning, [LifeNext]_lifeVars
                 PROVE  MutexInv' /\ OneRunning'
        OBVIOUS
    <1>1. \A p \in Proc : Lucky(p)' => Lucky(p)
        BY UnluckyGrows DEF Lucky
    <1>2. CASE StillStep
        BY <1>1, <1>2, StillLeaves DEF MutexInv, OneRunning, Lucky
    <1>3. ASSUME NEW p \in Proc, PassageStep(p) PROVE MutexInv' /\ OneRunning'
        <2>1. PICK place \in Places \ {"opened", "refused"} :
                  /\ stage' = [stage EXCEPT ![p] = place]
                  /\ place \in Guarded <=> stage[p] \in Guarded
            BY <1>3, PassageLeaves DEF MutexInv
        <2>2. \A q \in Proc : stage'[q] \in Guarded <=> stage[q] \in Guarded
            BY <2>1 DEF MutexInv
        <2>3. UNCHANGED mutex /\ stage[p] # "opened"
            BY <1>3, PassageLeaves DEF MutexInv
        <2>4. MutexInv'
            BY <1>1, <2>1, <2>2, <2>3 DEF MutexInv
        <2>5. OneRunning'
            BY <1>1, <2>2 DEF OneRunning, Lucky
        <2> QED
            BY <2>4, <2>5
    <1>4. ASSUME NEW p \in Proc, MutexStep(p) PROVE MutexInv' /\ OneRunning'
        <2>1. CASE Acquire(p)
            <3>1. CASE mutex = {}
                <4>1. \A q \in Proc : stage[q] \in Guarded => ~Lucky(q)
                    BY <3>1 DEF MutexInv
                <4>2. stage' = [stage EXCEPT ![p] = "setup"] /\ mutex' = {p}
                    BY <2>1, <3>1 DEF Acquire, Goto
                <4>3. MutexInv'
                    BY <1>1, <4>1, <4>2 DEF MutexInv, Places, Guarded
                <4>4. \A q \in Proc : stage'[q] \in Guarded /\ Lucky(q)' => q = p
                    BY <1>1, <4>1, <4>2 DEF MutexInv
                <4> QED
                    BY <4>3, <4>4 DEF OneRunning, Lucky
            <3>2. CASE mutex # {}
                <4>1. stage' = [stage EXCEPT ![p] = "opened"] /\ mutex' = mutex \cup {p}
                    BY <2>1, <3>2 DEF Acquire, Goto
                <4>2. \A q \in Proc : stage'[q] \in Guarded => stage[q] \in Guarded
                    BY <4>1 DEF MutexInv, Guarded
                <4> QED
                    BY <1>1, <4>1, <4>2 DEF MutexInv, OneRunning, Lucky, Places,
                                            Guarded
            <3> QED
                BY <3>1, <3>2
        <2>2. CASE AcquireFails(p)
            <3>1. /\ stage' = [stage EXCEPT ![p] = "setup"] /\ UNCHANGED mutex
                  /\ stage[p] = "guard" /\ ~Lucky(p)'
                BY <2>2 DEF AcquireFails, At, Goto, BadLuck, Lucky
            <3>2. \A q \in Proc : stage'[q] \in Guarded /\ Lucky(q)' => stage[q] \in Guarded /\ q # p
                BY <3>1 DEF MutexInv
            <3>3. MutexInv'
                BY <1>1, <3>1, <3>2 DEF MutexInv, Places, Guarded
            <3> QED
                BY <1>1, <3>2, <3>3 DEF OneRunning, Lucky
        <2>3. CASE Refuse(p) \/ Release(p) \/ Exit(p) \/ Kill(p)
            <3>1. PICK place \in {"refused", "exit", "gone", "killed"} :
                      stage' = [stage EXCEPT ![p] = place] /\ mutex' = mutex \ {p}
                BY <2>3 DEF Refuse, Release, Exit, Kill, Ends, Goto
            <3>2. \A q \in Proc : stage'[q] \in Guarded => stage[q] \in Guarded /\ q # p
                BY <3>1 DEF MutexInv, Guarded
            <3>3. MutexInv'
                BY <1>1, <3>1, <3>2 DEF MutexInv, Places, Guarded
            <3> QED
                BY <1>1, <3>2, <3>3 DEF OneRunning, Lucky
        <2> QED
            BY <1>4, <2>1, <2>2, <2>3 DEF MutexStep
    <1> QED
        BY <1>2, <1>3, <1>4, Steps

LEMMA MutexAlways == LifeSpec => [](MutexInv /\ OneRunning)
    BY MutexInit, MutexPreserved, PTL DEF LifeSpec

(***************************************************************************)
(* One instance at a time is past the guard, of those whose CreateMutexW   *)
(* worked (AcquireSingleInstance).                                         *)
(***************************************************************************)
THEOREM OneRunningAlways == LifeSpec => []OneRunning
    BY MutexAlways, PTL

-----------------------------------------------------------------------------
(***************************************************************************)
(* The icon.                                                               *)
(***************************************************************************)
LEMMA IconInit == LifeInit => IconInv
    BY DEF LifeInit, IconInv

LEMMA IconPreserved == MutexInv /\ IconInv /\ [LifeNext]_lifeVars => IconInv'
    <1> SUFFICES ASSUME MutexInv, IconInv, [LifeNext]_lifeVars PROVE IconInv'
        OBVIOUS
    <1> DEFINE Owned(p) == stage[p] \in {"run", "modal", "remove", "killed"}
               Stuck(p) == <<p, "NIM_DELETE">> \in unlucky
    <1>1. \A p : Stuck(p) => Stuck(p)'
        BY UnluckyGrows
    <1>2. ASSUME StillStep PROVE IconInv'
        <2>1. \A p \in Proc : Owned(p) => Owned(p)'
            BY <1>2, StillLeaves
        <2>2. \A p \in icons' : p \in icons
           \/ (p \in Proc /\ stage[p] \in {"run", "modal"})
            BY <1>2 DEF StillStep, DeliverTaskbarCreated, Receives, Pumping, At, Readd,
                        DeliverClose, SignalQuit, Reap, FindWindow, PostClose, Wait,
                        Copy, Crash, Restart, Broadcast, desktop, lifeVars
        <2> QED
            BY <1>1, <2>1, <2>2 DEF IconInv
    <1>3. ASSUME NEW p \in Proc, MutexStep(p) PROVE IconInv'
        <2>1. UNCHANGED icons
            BY <1>3 DEF MutexStep, Acquire, AcquireFails, Refuse, Release, Exit, Kill,
                        Ends, desktop
        <2>2. \A q \in Proc : Owned(q) => Owned(q)'
            BY <1>3 DEF MutexStep, Acquire, AcquireFails, Refuse, Release, Exit, Kill,
                        Ends, Goto, At, MutexInv
        <2> QED
            BY <1>1, <2>1, <2>2 DEF IconInv
    <1>4. ASSUME NEW p \in Proc, PassageStep(p) PROVE IconInv'
        <2>1. CASE Remove(p)
            <3>1. /\ stage' = [stage EXCEPT ![p] = "release"] /\ icons' \subseteq icons
                  /\ p \notin icons' \/ Stuck(p)'
                BY <2>1 DEF Remove, Goto, BadLuck
            <3> QED
                BY <1>1, <3>1 DEF IconInv, MutexInv
        <2>2. CASE NewTrayIcon(p)
            <3>1. stage' = [stage EXCEPT ![p] = "run"] /\ icons' = icons \cup {p}
                BY <2>2 DEF NewTrayIcon, Goto
            <3> QED
                BY <1>1, <3>1 DEF IconInv, MutexInv
        <2>3. CASE ~Remove(p) /\ ~NewTrayIcon(p)
            <3>1. UNCHANGED icons
                BY <1>4, <2>3 DEF PassageStep, Launch, StartFresh, StartedBy, Setup,
                                  CreateWindow, CreateWindowFails, NewTrayIconFails,
                                  OpenModal, CloseModal, ChooseQuit, QuitReceived,
                                  Acknowledge, desktop
            <3>2. \A q \in Proc : Owned(q) => Owned(q)'
                BY <1>4, <2>3 DEF PassageStep, Launch, StartFresh, StartedBy, Setup,
                                  CreateWindow, CreateWindowFails, NewTrayIconFails,
                                  OpenModal, CloseModal, ChooseQuit, QuitReceived,
                                  Acknowledge, Goto, At, MutexInv
            <3> QED
                BY <1>1, <3>1, <3>2 DEF IconInv
        <2> QED
            BY <2>1, <2>2, <2>3
    <1> QED
        BY <1>2, <1>3, <1>4, Steps

LEMMA IconSuffices == MutexInv /\ IconInv => NoGhostIcon
    BY DEF MutexInv, IconInv, NoGhostIcon, Alive, At

(***************************************************************************)
(* No way out of main leaves an icon without a process behind, but a kill  *)
(* or a failing NIM_DELETE (TrayIcon.Remove, onTaskbarRecreated).          *)
(***************************************************************************)
THEOREM NoGhostIconAlways == LifeSpec => []NoGhostIcon
    BY MutexAlways, IconInit, IconPreserved, IconSuffices, PTL DEF LifeSpec

-----------------------------------------------------------------------------
(***************************************************************************)
(* The deployment.                                                         *)
(***************************************************************************)
LEMMA DeployInit == LifeInit => DeployInv
    BY DEF LifeInit, DeployInv, NoProc

\* What a process does by itself is none of the script's business.
LEMMA ScriptLeft ==
    ASSUME NEW p \in Proc, MutexStep(p)
       \/ PassageStep(p), ~Launch(p), ~StartFresh(p)
    PROVE  UNCHANGED <<deploy, fresh, disturbed>>
    BY DEF MutexStep, Acquire, AcquireFails, Refuse, Release, Exit, Kill, Ends,
           PassageStep, Setup, CreateWindow, CreateWindowFails, NewTrayIcon,
           NewTrayIconFails, OpenModal, CloseModal, ChooseQuit, QuitReceived, Remove,
           Acknowledge, BadLuck, script, history

\* If only one process is alive and not past the guard yet, nothing keeps it out.
LEMMA NotRefused ==
    ASSUME MutexInv, NEW p \in Proc, Alive \subseteq {p},
    stage[p] \notin {"opened", "refused"},
           NEW q \in Proc, MutexStep(q)
    PROVE  stage'[p] \notin {"opened", "refused"}
    <1>1. CASE Acquire(q)
        <2>1. q = p /\ mutex = {}
            BY <1>1 DEF Acquire, At, Alive, MutexInv, Guarded
        <2> QED
            BY <1>1, <2>1 DEF Acquire, Goto, MutexInv
    <1>2. CASE Refuse(q)
        BY <1>2 DEF Refuse, Goto, At, Alive, MutexInv
    <1>3. CASE AcquireFails(q) \/ Release(q) \/ Exit(q) \/ Kill(q)
        BY <1>3 DEF AcquireFails, Release, Exit, Kill, Ends, Goto, MutexInv
    <1> QED
        BY <1>1, <1>2, <1>3 DEF MutexStep

LEMMA DeployPreserved == MutexInv /\ DeployInv /\ [LifeNext]_lifeVars => DeployInv'
    <1> SUFFICES ASSUME MutexInv, DeployInv, [LifeNext]_lifeVars PROVE DeployInv'
        OBVIOUS
    <1> USE DEF NoProc
    <1>1. ASSUME NEW p \in Proc, Launch(p) PROVE DeployInv'
        <2>1. /\ UNCHANGED <<deploy, fresh>> /\ disturbed' = (disturbed \/ deploy # "idle")
            BY <1>1 DEF Launch, script
        <2> QED
            BY <2>1 DEF DeployInv
    <1>2. ASSUME NEW p \in Proc, StartFresh(p) PROVE DeployInv'
        <2>1. /\ deploy = "start" /\ deploy' = "done" /\ fresh' = p /\ UNCHANGED disturbed
              /\ stage' = [stage EXCEPT ![p] = "guard"]
            BY <1>2 DEF StartFresh, StartedBy, Goto
        <2>2. ~disturbed => Alive' \subseteq {p}
            BY <2>1 DEF DeployInv, MutexInv, Alive
        <2> QED
            BY <2>1, <2>2 DEF DeployInv, MutexInv, Proc
    <1>3. ASSUME NEW p \in Proc, MutexStep(p)
       \/ PassageStep(p), ~Launch(p), ~StartFresh(p)
          PROVE  DeployInv'
        <2>1. UNCHANGED <<deploy, fresh, disturbed>>
            BY <1>3, ScriptLeft
        <2>2. Alive' \subseteq Alive
            BY <1>3 DEF MutexStep, Acquire, AcquireFails, Refuse, Release, Exit, Kill,
                        Ends, PassageStep, Setup, CreateWindow, CreateWindowFails,
                        NewTrayIcon, NewTrayIconFails, OpenModal, CloseModal,
                        ChooseQuit, QuitReceived, Remove, Acknowledge, Goto, At, Alive,
                        MutexInv
        <2>3. ~disturbed /\ fresh # NoProc => stage'[fresh] \notin {"opened",
        "refused"}
            <3> SUFFICES ASSUME ~disturbed, fresh # NoProc
                         PROVE  stage'[fresh] \notin {"opened", "refused"}
                OBVIOUS
            <3>1. fresh \in Proc /\ Alive \subseteq {fresh} /\ stage[fresh] \notin {"opened", "refused"}
                BY DEF DeployInv
            <3>2. CASE MutexStep(p)
                BY <3>1, <3>2, NotRefused
            <3>3. CASE PassageStep(p)
                BY <3>1, <3>3, PassageLeaves DEF MutexInv
            <3> QED
                BY <1>3, <3>2, <3>3
        <2> QED
            BY <2>1, <2>2, <2>3 DEF DeployInv
    <1>4. ASSUME StillStep PROVE DeployInv'
        <2>1. UNCHANGED stage /\ Alive' = Alive
            BY <1>4, StillLeaves DEF Alive
        <2>2. CASE FindWindow
            BY <2>1, <2>2 DEF FindWindow, DeployInv
        <2>3. CASE PostClose
            BY <2>1, <2>3 DEF PostClose, DeployInv, history
        <2>4. CASE Wait
            BY <2>1, <2>4 DEF Wait, DeployInv, history
        <2>5. CASE Copy
            BY <2>1, <2>5 DEF Copy, DeployInv, history
        <2>6. CASE UNCHANGED <<deploy, fresh, disturbed>>
            BY <2>1, <2>6 DEF DeployInv
        <2> QED
            BY <1>4, <2>2, <2>3, <2>4, <2>5, <2>6
               DEF StillStep, DeliverTaskbarCreated, DeliverClose,
                   SignalQuit, Reap, Readd, Crash,
                   Restart, Broadcast, BadLuck, script, history,
                   lifeVars
    <1> QED
        BY <1>1, <1>2, <1>3, <1>4, Steps

LEMMA DeploySuffices == DeployInv => HandoverClean
    BY DEF DeployInv, HandoverClean

(***************************************************************************)
(* deploy.ps1 neither copies over a running binary nor starts one that is  *)
(* refused, however many processes have come and gone before, unless it is *)
(* disturbed.                                                              *)
(***************************************************************************)
THEOREM HandoverCleanAlways == LifeSpec => []HandoverClean
    BY MutexAlways, DeployInit, DeployPreserved, DeploySuffices, PTL DEF LifeSpec
=============================================================================
