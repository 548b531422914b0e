---------------------------- MODULE FensterProofs ----------------------------
(***************************************************************************)
(* What holds of the program for every set of layouts, setups and          *)
(* combinations, and any number of events, failing saves and failing calls.*)
(***************************************************************************)
EXTENDS Fenster, NaturalsInduction, WellFoundedInduction, SequenceTheorems, TLAPS

-----------------------------------------------------------------------------
(***************************************************************************)
(* The store: what its operations do to a list of layouts, and that each   *)
(* rollback of a failed save gives back the very list it began with.       *)
(***************************************************************************)

(***************************************************************************)
(* A nonempty set of numbers has a least member: the form of induction the *)
(* provers can use.                                                        *)
(***************************************************************************)
Smaller == {p \in Nat \X Nat : p[1] < p[2]}

LEMMA SmallerIsWellFounded == IsWellFoundedOn(Smaller, Nat)
    BY NatLessThanWellFounded DEF OpToRel, Smaller

LEMMA LeastMember ==
    ASSUME NEW T, T \subseteq Nat, T # {}
    PROVE  \E n \in T : \A m \in T : n <= m
    <1>1. PICK n \in T : \A m \in T : ~(<<m, n>> \in Smaller)
        BY SmallerIsWellFounded, WFMin
    <1>2. ASSUME NEW m \in T PROVE n <= m
        <2>1. <<m, n>> \in Nat \X Nat /\ <<m, n>>[1] = m /\ <<m, n>>[2] = n
            OBVIOUS
        <2>2. ~(m < n)
            BY <1>1, <2>1 DEF Smaller
        <2> QED
            BY <2>2
    <1> QED
        BY <1>2

-----------------------------------------------------------------------------
\* The place of an id that occurs is the first one it occurs at.
LEMMA IndexOfId ==
    ASSUME NEW S, NEW ls \in Seq(S), NEW id \in Ids(ls)
    PROVE  /\ IndexOf(ls, id) \in 1 .. Len(ls)
           /\ ls[IndexOf(ls, id)].id = id
           /\ \A j \in 1 .. IndexOf(ls, id) - 1 : ls[j].id # id
    <1> DEFINE Found == {i \in 1 .. Len(ls) : ls[i].id = id}
    <1>1. Found # {} /\ Found \subseteq Nat
        BY DEF Ids
    <1>2. PICK i \in Found : \A j \in Found : i <= j
        BY <1>1, LeastMember
    <1>3. i \in DOMAIN ls /\ ls[i].id = id /\ \A j \in 1 .. i - 1 : ls[j].id # id
        BY <1>2
    <1> QED
        BY <1>3 DEF IndexOf

\* A place is the place of an id if the id is there and nowhere before.
LEMMA IsIndexOf ==
    ASSUME NEW S, NEW ls \in Seq(S), NEW i \in 1 .. Len(ls),
           \A j \in 1 .. i - 1 : ls[j].id # ls[i].id
    PROVE  IndexOf(ls, ls[i].id) = i
    <1> DEFINE id == ls[i].id
               k  == IndexOf(ls, id)
    <1>1. id \in Ids(ls)
        BY DEF Ids
    <1>2. k \in 1 .. Len(ls) /\ ls[k].id = id /\ \A j \in 1 .. k - 1 : ls[j].id # id
        BY <1>1, IndexOfId
    <1> QED
        BY <1>2

\* A layout is replaced by one with the same id: the place stays the first.
LEMMA ReplaceAtPlace ==
    ASSUME NEW S, NEW ls \in Seq(S), NEW id \in Ids(ls), NEW l \in S, l.id = id
    PROVE  /\ Replace(ls, id, l) \in Seq(S)
           /\ Len(Replace(ls, id, l)) = Len(ls)
           /\ \A j \in 1 .. Len(ls) : Replace(ls, id, l)[j].id = ls[j].id
           /\ Ids(Replace(ls, id, l)) = Ids(ls)
           /\ IndexOf(Replace(ls, id, l), id) = IndexOf(ls, id)
    <1> DEFINE new == Replace(ls, id, l)
               k   == IndexOf(ls, id)
    <1>1. k \in 1 .. Len(ls) /\ ls[k].id = id /\ \A j \in 1 .. k - 1 : ls[j].id # id
        BY IndexOfId
    <1>2. new \in Seq(S) /\ Len(new) = Len(ls)
          /\ \A j \in 1 .. Len(ls) : new[j] = IF j = k THEN l ELSE ls[j]
        BY <1>1, ExceptSeq DEF Replace
    <1>3. \A j \in 1 .. Len(ls) : new[j].id = ls[j].id
        BY <1>1, <1>2
    <1>4. Ids(new) = Ids(ls)
        BY <1>2, <1>3 DEF Ids
    <1>5. IndexOf(new, new[k].id) = k
        <2>1. k \in 1 .. Len(new) /\ \A j \in 1 .. k - 1 : new[j].id # new[k].id
            BY <1>1, <1>2, <1>3
        <2> HIDE DEF new, k
        <2> QED
            BY <1>2, <2>1, IsIndexOf
    <1> QED
        BY <1>1, <1>2, <1>3, <1>4, <1>5

\* What is read back is what was written.
LEMMA GetReplaced ==
    ASSUME NEW S, NEW ls \in Seq(S), NEW id \in Ids(ls), NEW l \in S, l.id = id
    PROVE  Get(Replace(ls, id, l), id) = l
    <1> DEFINE new == Replace(ls, id, l)
               k   == IndexOf(ls, id)
    <1>1. k \in 1 .. Len(ls) /\ IndexOf(new, id) = k
        BY IndexOfId, ReplaceAtPlace
    <1>2. new[k] = l
        BY <1>1, ExceptSeq DEF Replace
    <1> QED
        BY <1>1, <1>2 DEF Get

\* What is read is in the list, under the id it was asked for.
LEMMA GetById ==
    ASSUME NEW S, NEW ls \in Seq(S), NEW id \in Ids(ls)
    PROVE  Get(ls, id) \in S /\ Get(ls, id).id = id
    BY IndexOfId DEF Get

\* The checkbox of a layout is changed by replacing the layout.
LEMMA SetIncludeReplaces ==
    ASSUME NEW S, NEW ls \in Seq(S), NEW id \in Ids(ls), NEW t
    PROVE  SetInclude(ls, id, t) = Replace(ls, id, [Get(ls, id) EXCEPT !.ticked = t])
    BY DEF SetInclude, Replace, Get

(***************************************************************************)
(* The rollback of actionRename, actionHotkey and actionOverwrite: Replace *)
(* with the layout read before.                                            *)
(***************************************************************************)
THEOREM ReplaceUndone ==
    ASSUME NEW S, NEW ls \in Seq(S), NEW id \in Ids(ls), NEW l \in S, l.id = id
    PROVE  Replace(Replace(ls, id, l), id, Get(ls, id)) = ls
    <1> DEFINE new  == Replace(ls, id, l)
               back == Replace(new, id, Get(ls, id))
               k    == IndexOf(ls, id)
    <1>1. k \in 1 .. Len(ls)
        BY IndexOfId
    <1>2. new \in Seq(S) /\ Len(new) = Len(ls) /\ IndexOf(new, id) = k
        BY ReplaceAtPlace
    <1>3. \A j \in 1 .. Len(ls) : new[j] = IF j = k THEN l ELSE ls[j]
        BY <1>1, ExceptSeq DEF Replace
    <1>4. Get(ls, id) \in S /\ Get(ls, id) = ls[k]
        BY <1>1 DEF Get
    <1>5. back \in Seq(S) /\ Len(back) = Len(ls)
          /\ \A j \in 1 .. Len(ls) : back[j] = IF j = k THEN ls[k] ELSE new[j]
        <2>1. back = [new EXCEPT ![k] = ls[k]]
            BY <1>2, <1>4 DEF Replace
        <2> HIDE DEF back, new
        <2> QED
            BY <1>1, <1>2, <1>4, <2>1, ExceptSeq
    <1> QED
        BY <1>3, <1>5, SeqEqual

\* The rollback of actionToggleInclude: SetInclude with what was read before.
THEOREM IncludeUndone ==
    ASSUME NEW A, NEW B, NEW C, NEW D,
           NEW ls \in Seq([id : A, setup : B, hotkey : C, name : D, ticked : BOOLEAN]),
           NEW id \in Ids(ls), NEW t \in BOOLEAN
    PROVE  SetInclude(SetInclude(ls, id, t), id, Get(ls, id).ticked) = ls
    <1> DEFINE S   == [id : A, setup : B, hotkey : C, name : D, ticked : BOOLEAN]
               old == Get(ls, id)
               l   == [old EXCEPT !.ticked = t]
               new == Replace(ls, id, l)
    <1>1. ls \in Seq(S) /\ old \in S /\ old.id = id
        BY GetById
    <1>2. l \in S /\ l.id = id /\ [l EXCEPT !.ticked = old.ticked] = old
        BY <1>1
    <1> HIDE DEF S, l
    <1>3. SetInclude(ls, id, t) = new
        BY <1>1, SetIncludeReplaces DEF l
    <1>4. new \in Seq(S) /\ id \in Ids(new) /\ Get(new, id) = l
        BY <1>1, <1>2, ReplaceAtPlace, GetReplaced
    <1>5. SetInclude(new, id, old.ticked) = Replace(new, id, [l EXCEPT !.ticked = old.ticked])
        <2> HIDE DEF new
        <2> QED
            BY <1>4, SetIncludeReplaces
    <1>6. Replace(new, id, old) = ls
        BY <1>1, <1>2, ReplaceUndone
    <1> QED
        BY <1>2, <1>3, <1>5, <1>6

\* The rollback of actionSave: Delete what Add has appended.
THEOREM AddUndone ==
    ASSUME NEW S, NEW ls \in Seq(S), NEW l \in S, l.id \notin Ids(ls)
    PROVE  Delete(Add(ls, l), l.id) = ls
    <1> DEFINE new == Add(ls, l)
               n   == Len(ls) + 1
    <1>1. new \in Seq(S) /\ Len(new) = n /\ new[n] = l
          /\ \A j \in 1 .. Len(ls) : new[j] = ls[j]
        BY DEF Add
    <1>2. \A j \in 1 .. n - 1 : new[j].id # new[n].id
        BY <1>1 DEF Ids
    <1>3. IndexOf(new, l.id) = n
        BY <1>1, <1>2, IsIndexOf
    <1>4. SubSeq(new, 1, n - 1) = ls
        <2>1. Len(SubSeq(new, 1, n - 1)) = Len(ls) /\ SubSeq(new, 1, n - 1) \in Seq(S)
            BY <1>1
        <2> QED
            BY <1>1, <2>1, SeqEqual
    <1>5. SubSeq(new, n + 1, Len(new)) = <<>>
        BY <1>1, SubSeqEmpty
    <1>6. ls \o <<>> = ls
        BY ConcatEmptySeq
    <1> QED
        BY <1>3, <1>4, <1>5, <1>6 DEF Delete, RemoveAt

(***************************************************************************)
(* The rollback of actionDelete: what is left is deleted layout by layout, *)
(* each time the first one, until nothing is, and the old order is added.  *)
(***************************************************************************)
LEMMA DeleteFirst ==
    ASSUME NEW S, NEW ls \in Seq(S), NEW k \in 1 .. Len(ls)
    PROVE  Delete(SubSeq(ls, k, Len(ls)), ls[k].id) = SubSeq(ls, k + 1, Len(ls))
    <1> DEFINE rest == SubSeq(ls, k, Len(ls))
               tail == SubSeq(ls, k + 1, Len(ls))
    <1>1. rest \in Seq(S) /\ Len(rest) = Len(ls) - k + 1
          /\ \A j \in 1 .. Len(ls) - k + 1 : rest[j] = ls[k + j - 1]
        BY SubSeqProperties
    <1>2. tail \in Seq(S) /\ Len(tail) = Len(ls) - k
          /\ \A j \in 1 .. Len(ls) - k : tail[j] = ls[k + j]
        BY SubSeqProperties
    <1>3. rest[1] = ls[k] /\ 1 \in 1 .. Len(rest)
        BY <1>1
    <1>4. IndexOf(rest, ls[k].id) = 1
        <2>1. \A j \in 1 .. 1 - 1 : rest[j].id # rest[1].id
            OBVIOUS
        <2>2. IndexOf(rest, rest[1].id) = 1
            BY <1>1, <1>3, <2>1, IsIndexOf
        <2> QED
            BY <1>3, <2>2
    <1>5. SubSeq(rest, 1, 0) = <<>>
        BY SubSeqEmpty
    <1>6. SubSeq(rest, 2, Len(rest)) = tail
        <2> DEFINE t == SubSeq(rest, 2, Len(rest))
        <2>1. t \in Seq(S) /\ Len(t) = Len(rest) - 1
              /\ \A j \in 1 .. Len(rest) - 1 : t[j] = rest[j + 1]
            BY <1>1, SubSeqProperties
        <2> QED
            BY <1>1, <1>2, <2>1, SeqEqual
    <1>7. <<>> \o tail = tail
        BY <1>2, ConcatEmptySeq
    <1> QED
        BY <1>4, <1>5, <1>6, <1>7 DEF Delete, RemoveAt

LEMMA EmptiedIsEmpty ==
    ASSUME NEW S, NEW ls \in Seq(S)
    PROVE  Emptied(ls) = <<>>
    <1> DEFINE Step(f, k) == IF k = 0 THEN ls ELSE Delete(f[k - 1], ls[k].id)
               Fcn(f)     == f = [k \in 0 .. Len(ls) |-> Step(f, k)]
               tails      == [k \in 0 .. Len(ls) |-> SubSeq(ls, k + 1, Len(ls))]
               rest       == CHOOSE f : Fcn(f)
    <1>1. SubSeq(ls, 1, Len(ls)) = ls
        BY SubSeqFull
    <1>2. \A k \in 0 .. Len(ls) : tails[k] = Step(tails, k)
        <2> TAKE k \in 0 .. Len(ls)
        <2>1. CASE k = 0
            BY <1>1, <2>1
        <2>2. CASE k # 0
            <3>1. k \in 1 .. Len(ls) /\ k - 1 \in 0 .. Len(ls) /\ (k - 1) + 1 = k
                BY <2>2
            <3>2. tails[k - 1] = SubSeq(ls, k, Len(ls))
                BY <3>1
            <3>3. Delete(tails[k - 1], ls[k].id) = SubSeq(ls, k + 1, Len(ls))
                BY <3>1, <3>2, DeleteFirst
            <3> QED
                BY <2>2, <3>3
        <2> QED
            BY <2>1, <2>2
    <1>3. Fcn(tails)
        BY <1>2
    <1> HIDE DEF tails
    <1>4. Fcn(rest)
        BY <1>3
    <1>5. \A k \in 0 .. Len(ls) : rest[k] = Step(rest, k)
        BY <1>4
    <1> HIDE DEF rest
    <1> DEFINE Wrong == {k \in 0 .. Len(ls) : rest[k] # tails[k]}
    <1>6. ASSUME Wrong # {} PROVE FALSE
        <2>1. PICK k \in Wrong : \A j \in Wrong : k <= j
            <3>1. Wrong \subseteq Nat
                OBVIOUS
            <3> HIDE DEF Wrong
            <3> QED
                BY <1>6, <3>1, LeastMember
        <2>2. k # 0
            BY <1>2, <1>5, <2>1
        <2>3. k - 1 \in 0 .. Len(ls) /\ rest[k - 1] = tails[k - 1]
            BY <2>1, <2>2
        <2> QED
            BY <1>2, <1>5, <2>1, <2>2, <2>3
    <1>7. rest[Len(ls)] = <<>>
        <2>1. Len(ls) \in 0 .. Len(ls)
            OBVIOUS
        <2>2. SubSeq(ls, Len(ls) + 1, Len(ls)) = <<>>
            BY SubSeqEmpty
        <2> QED
            BY <1>6, <2>1, <2>2 DEF tails
    <1> QED
        BY <1>7 DEF Emptied, rest

(***************************************************************************)
(* The rollback of actionDelete: restoreOrder with the list as it was,     *)
(* whatever is left of it, and whichever ids repeat.                       *)
(***************************************************************************)
THEOREM DeleteUndone ==
    ASSUME NEW S, NEW ls \in Seq(S), NEW order \in Seq(S)
    PROVE  RestoreOrder(ls, order) = order
    BY EmptiedIsEmpty, ConcatEmptySeq DEF RestoreOrder

-----------------------------------------------------------------------------
(***************************************************************************)
(* No two layouts of a list have the same id, and no operation of the      *)
(* program makes it so: it only adds what is new to the list.              *)
(***************************************************************************)
DistinctIds(ls) == \A i, j \in DOMAIN ls : ls[i].id = ls[j].id => i = j

LEMMA ReplaceKeepsDistinct ==
    ASSUME NEW S, NEW ls \in Seq(S), DistinctIds(ls),
           NEW id \in Ids(ls), NEW l \in S, l.id = id
    PROVE  DistinctIds(Replace(ls, id, l))
    BY ReplaceAtPlace DEF DistinctIds

LEMMA AddKeepsDistinct ==
    ASSUME NEW S, NEW ls \in Seq(S), DistinctIds(ls), NEW l \in S, l.id \notin Ids(ls)
    PROVE  DistinctIds(Add(ls, l))
    <1>1. Add(ls, l) \in Seq(S) /\ Len(Add(ls, l)) = Len(ls) + 1
          /\ \A j \in 1 .. Len(ls) + 1 :
                Add(ls, l)[j] = IF j = Len(ls) + 1 THEN l ELSE ls[j]
        BY DEF Add
    <1>2. \A j \in 1 .. Len(ls) : ls[j].id # l.id
        BY DEF Ids
    <1>3. \A i, j \in 1 .. Len(ls) : ls[i].id = ls[j].id => i = j
        BY DEF DistinctIds
    <1> QED
        BY <1>1, <1>2, <1>3 DEF DistinctIds

LEMMA DeleteKeepsDistinct ==
    ASSUME NEW S, NEW ls \in Seq(S), NEW id \in Ids(ls)
    PROVE  /\ Delete(ls, id) \in Seq(S)
           /\ DistinctIds(ls) => DistinctIds(Delete(ls, id))
    <1> DEFINE k     == IndexOf(ls, id)
               front == SubSeq(ls, 1, k - 1)
               back  == SubSeq(ls, k + 1, Len(ls))
               At(j) == IF j < k THEN j ELSE j + 1
    <1>1. k \in 1 .. Len(ls)
        BY IndexOfId
    <1>2. front \in Seq(S) /\ Len(front) = k - 1
          /\ \A j \in 1 .. k - 1 : front[j] = ls[j]
        BY <1>1
    <1>3. back \in Seq(S) /\ Len(back) = Len(ls) - k
          /\ \A j \in 1 .. Len(ls) - k : back[j] = ls[k + j]
        BY <1>1
    <1> HIDE DEF front, back, k
    <1>4. Delete(ls, id) = front \o back
        BY DEF Delete, RemoveAt, front, back, k
    <1>5. front \o back \in Seq(S) /\ Len(front \o back) = Len(ls) - 1
          /\ \A j \in 1 .. Len(ls) - 1 : (front \o back)[j] = ls[At(j)]
        <2>1. front \o back \in Seq(S) /\ Len(front \o back) = Len(ls) - 1
              /\ \A j \in 1 .. Len(ls) - 1 : (front \o back)[j] =
                    IF j <= k - 1 THEN front[j] ELSE back[j - (k - 1)]
            <3>1. Len(front) + Len(back) = Len(ls) - 1 /\ Len(front) = k - 1
                BY <1>1, <1>2, <1>3
            <3> QED
                BY ONLY <1>2, <1>3, <3>1, ConcatProperties
        <2>2. ASSUME NEW j \in 1 .. Len(ls) - 1
              PROVE  (front \o back)[j] = ls[At(j)]
            <3>1. CASE j < k
                BY <1>1, <1>2, <2>1, <3>1
            <3>2. CASE ~(j < k)
                <4>1. j - (k - 1) \in 1 .. Len(ls) - k /\ k + (j - (k - 1)) = j + 1
                    BY <1>1, <3>2
                <4> QED
                    BY <1>1, <1>3, <2>1, <3>2, <4>1
            <3> QED
                BY <3>1, <3>2
        <2> QED
            BY <2>1, <2>2
    <1>6. \A j \in 1 .. Len(ls) - 1 : At(j) \in 1 .. Len(ls)
        BY <1>1
    <1>7. \A i, j \in 1 .. Len(ls) - 1 : At(i) = At(j) => i = j
        BY <1>1
    <1>8. ASSUME DistinctIds(ls) PROVE DistinctIds(front \o back)
        <2>1. \A i, j \in 1 .. Len(ls) : ls[i].id = ls[j].id => i = j
            BY <1>8 DEF DistinctIds
        <2>2. DOMAIN (front \o back) = 1 .. Len(ls) - 1
            BY <1>5
        <2>3. ASSUME NEW i \in 1 .. Len(ls) - 1, NEW j \in 1 .. Len(ls) - 1,
                     (front \o back)[i].id = (front \o back)[j].id
              PROVE  i = j
            <3>1. ls[At(i)].id = ls[At(j)].id
                BY <1>5, <2>3
            <3>2. At(i) = At(j)
                BY <1>6, <2>1, <3>1
            <3> QED
                BY <1>7, <3>2
        <2> QED
            BY <2>2, <2>3 DEF DistinctIds
    <1> QED
        BY <1>4, <1>5, <1>8

-----------------------------------------------------------------------------
(***************************************************************************)
(* The program.                                                            *)
(***************************************************************************)

\* The manager as its own module proves about it, with the callers' arguments.
M == INSTANCE HotkeyManagerProofs
        WITH Setup <- Setup \cup {NoSetup}, LayoutLists <- Seq(Layout)

LEMMA ManagerAssumptions == M!HotkeyTextAssumption /\ M!ManagerAssumption
    BY HotkeyTextAssumption, FensterAssumption
    DEF M!HotkeyTextAssumption, M!ManagerAssumption, Layout

-----------------------------------------------------------------------------
(***************************************************************************)
(* The inductive invariant: types, how the state of the thread hangs       *)
(* together, and the layout a dialog holds.                                *)
(***************************************************************************)
Dialogs == {"save", "rename", "hotkey", "delete"}

Frames == [at : Dialogs \cup {"menu"}, mons : Setup, l : Layout \cup {None},
           keys : Combo \cup {Zero}]

Types ==
    /\ up \in BOOLEAN
    /\ busy \in BOOLEAN
    /\ quit \in BOOLEAN
    /\ displayMsg \in BOOLEAN
    /\ then \in {"nothing", "start", "resume", "return", "reopen", "probed",
                 "assign", "finish", "exit"}
    /\ stack \in Seq(Frames)
    /\ mons \in Setup
    /\ memory \in File
    /\ disk \in File

\* What follows a call belongs to a handler that waits, or to none.
Control ==
    /\ Len(stack) <= 1
    /\ busy <=> stack # <<>>
    /\ then \in {"return", "reopen", "probed", "assign", "finish"} => stack # <<>>
    /\ then \in {"start", "exit"} => stack = <<>>
    /\ ~up => stack = <<>> /\ then = "nothing" /\ ~quit
    /\ alive => up
    /\ quit \/ then = "exit" => ~alive
    /\ FromHotkey(restored) => stack = <<>>
    /\ \A k \in DOMAIN stack :
          /\ stack[k].l = None <=> stack[k].at \in {"menu", "save"}
          /\ then \in {"probed", "assign"} => stack[k].at = "hotkey"

\* Until its action has written, a dialog holds the layout as the store has it.
IsCurrent(l) == l.id \in Ids(memory.layouts) /\ Get(memory.layouts, l.id) = l

Snapshots ==
    up /\ then \notin {"return", "reopen"} =>
        \A k \in DOMAIN stack : stack[k].l # None => IsCurrent(stack[k].l)

ThreadInv == M!TypeInv /\ Types /\ Control /\ Snapshots

-----------------------------------------------------------------------------
\* The stack holds one frame at the most.
LEMMA OneFrame ==
    ASSUME Types, Control, stack # <<>>
    PROVE  /\ Len(stack) = 1 /\ DOMAIN stack = {1}
           /\ Top = stack[1] /\ Top \in Frames
           /\ Below = <<>>
           /\ \A x : Append(Below, x) = <<x>>
    <1>1. Len(stack) = 1
        <2> DEFINE n == Len(stack)
        <2>1. n <= 1
            BY DEF Control
        <2>2. n \in Nat \ {0}
            BY EmptySeq DEF Types
        <2> HIDE DEF n
        <2>3. n = 1
            BY <2>1, <2>2
        <2> QED
            BY <2>3 DEF n
    <1>2. Below = <<>>
        BY <1>1, SubSeqEmpty DEF Below, Front
    <1>3. \A x : Append(<<>>, x) = <<x>>
        OBVIOUS
    <1> QED
        BY <1>1, <1>2, <1>3 DEF Types, Top

\* A dialog about a layout holds it.
LEMMA DialogLayout ==
    ASSUME ThreadInv, up, stack # <<>>, then \notin {"return", "reopen"},
           Top.at \in {"rename", "hotkey", "delete"}
    PROVE  Top.l \in Layout /\ IsCurrent(Top.l)
    BY OneFrame, FensterAssumption DEF ThreadInv, Control, Snapshots, Frames

LEMMA MemoryHasLayouts ==
    ASSUME Types
    PROVE  /\ memory.layouts \in Seq(Layout)
           /\ [memory EXCEPT !.layouts = memory.layouts] = memory
           /\ \A new \in Seq(Layout) :
                 /\ [memory EXCEPT !.layouts = new] \in File
                 /\ [memory EXCEPT !.layouts = new].layouts = new
                 /\ [memory EXCEPT !.layouts = new].minimizeOthers = memory.minimizeOthers
    BY DEF Types, File

LEMMA OptionWritten ==
    \A f \in File : \A on :
        /\ WithMinimizeOthers(f, on) \in File
        /\ WithMinimizeOthers(f, on).layouts = f.layouts
        /\ MinimizesOthers(WithMinimizeOthers(f, on)) <=> on
    BY DEF WithMinimizeOthers, MinimizesOthers, File

(***************************************************************************)
(* Every change of the layouts comes to this: a new list is saved, or the  *)
(* old one is in memory again, whatever the action calls to undo it.       *)
(***************************************************************************)
Edited ==
    \E new \in Seq(Layout), next \in {"return", "reopen"} :
        /\ up
        /\ stack # <<>>
        /\ DistinctIds(memory.layouts) => DistinctIds(new)
        /\ MutateLayouts(new, memory.layouts, next)

\* An action that replaces a layout by one with the same id.
LEMMA ReplacingEdits ==
    ASSUME Types, up, stack # <<>>, NEW id \in Ids(memory.layouts),
           NEW l \in Layout, l.id = id,
           MutateLayouts(Replace(memory.layouts, id, l),
                         Replace(Replace(memory.layouts, id, l), id, Get(memory.layouts, id)),
                         "return")
    PROVE  Edited
    <1> DEFINE new == Replace(memory.layouts, id, l)
    <1>1. memory.layouts \in Seq(Layout)
        BY MemoryHasLayouts
    <1>2. new \in Seq(Layout) /\ (DistinctIds(memory.layouts) => DistinctIds(new))
        BY <1>1, ReplaceAtPlace, ReplaceKeepsDistinct
    <1>3. Replace(new, id, Get(memory.layouts, id)) = memory.layouts
        BY <1>1, ReplaceUndone
    <1> QED
        BY <1>2, <1>3 DEF Edited

LEMMA OverwriteEdits ==
    ASSUME ThreadInv, NEW id, ChooseOverwrite(id)
    PROVE  Edited
    <1> DEFINE old == Get(memory.layouts, id)
               l   == [old EXCEPT !.setup = Top.mons, !.ticked = TRUE]
    <1>1. up /\ stack # <<>> /\ id \in Ids(memory.layouts)
        BY DEF ChooseOverwrite, UserAt, Waiting
    <1>2. old \in Layout /\ old.id = id
        BY <1>1, MemoryHasLayouts, GetById DEF ThreadInv
    <1>3. Top.mons \in Setup
        BY <1>1, OneFrame DEF ThreadInv, Frames
    <1>4. l \in Layout /\ l.id = id
        BY <1>2, <1>3 DEF Layout
    <1> QED
        BY <1>1, <1>4, ReplacingEdits DEF ChooseOverwrite, ThreadInv

LEMMA ToggleEdits ==
    ASSUME ThreadInv, NEW id, ChooseToggleInclude(id)
    PROVE  Edited
    <1> DEFINE ls  == memory.layouts
               old == Get(ls, id)
               t   == ~old.ticked
               new == SetInclude(ls, id, t)
               l   == [old EXCEPT !.ticked = t]
    <1>1. up /\ stack # <<>> /\ id \in Ids(ls) /\ ls \in Seq(Layout)
        BY MemoryHasLayouts DEF ChooseToggleInclude, UserAt, Waiting, ThreadInv
    <1>2. old \in Layout /\ old.id = id
        BY <1>1, GetById
    <1>3. t \in BOOLEAN
        OBVIOUS
    <1>4. MutateLayouts(new, SetInclude(new, id, old.ticked), "reopen")
        BY DEF ChooseToggleInclude
    <1> HIDE DEF t
    <1>5. l \in Layout /\ l.id = id
        BY <1>2, <1>3 DEF Layout
    <1>6. new = Replace(ls, id, l)
        BY <1>1, SetIncludeReplaces
    <1>7. new \in Seq(Layout) /\ (DistinctIds(ls) => DistinctIds(new))
        <2> HIDE DEF new, l
        <2> QED
            BY <1>1, <1>5, <1>6, ReplaceAtPlace, ReplaceKeepsDistinct
    <1>8. SetInclude(new, id, old.ticked) = ls
        BY <1>1, <1>3, IncludeUndone DEF Layout
    <1> HIDE DEF new
    <1> QED
        BY <1>1, <1>4, <1>7, <1>8 DEF Edited

LEMMA SaveEdits ==
    ASSUME ThreadInv, NEW id \in LayoutId, NEW name \in Name, ConfirmSave(id, name)
    PROVE  Edited
    <1> DEFINE ls  == memory.layouts
               l   == [id |-> id, setup |-> Top.mons, hotkey |-> Canonical[Zero],
                       name |-> name, ticked |-> TRUE]
               new == Add(ls, l)
    <1>1. up /\ stack # <<>> /\ id \notin Ids(ls) /\ ls \in Seq(Layout)
        BY MemoryHasLayouts DEF ConfirmSave, UserAt, Waiting, ThreadInv
    <1>2. Top.mons \in Setup
        BY <1>1, OneFrame DEF ThreadInv, Frames
    <1>3. l \in Layout /\ l.id = id
        BY <1>2, HotkeyTextAssumption DEF Layout
    <1>4. MutateLayouts(new, Delete(new, id), "return")
        BY DEF ConfirmSave
    <1> HIDE DEF l
    <1>5. new \in Seq(Layout) /\ (DistinctIds(ls) => DistinctIds(new))
        BY <1>1, <1>3, AddKeepsDistinct DEF Add
    <1>6. Delete(new, id) = ls
        BY <1>1, <1>3, AddUndone
    <1> QED
        BY <1>1, <1>4, <1>5, <1>6 DEF Edited

LEMMA RenameEdits ==
    ASSUME ThreadInv, NEW name \in Name, ConfirmRename(name)
    PROVE  Edited
    <1> DEFINE l == [Top.l EXCEPT !.name = name]
    <1>1. up /\ stack # <<>> /\ Top.at = "rename" /\ then = "nothing"
        BY DEF ConfirmRename, UserAt, Waiting
    <1>2. Top.l \in Layout /\ IsCurrent(Top.l)
        BY <1>1, DialogLayout
    <1>3. l \in Layout /\ l.id = Top.l.id
        BY <1>2 DEF Layout
    <1> QED
        BY <1>1, <1>2, <1>3, ReplacingEdits DEF ConfirmRename, ThreadInv, IsCurrent

LEMMA WriteHotkeyEdits ==
    ASSUME ThreadInv, NEW hk \in Combo \cup {Zero}, WriteHotkey(hk),
           up, stack # <<>>, Top.at = "hotkey", then \notin {"return", "reopen"}
    PROVE  Edited
    <1> DEFINE l == [Top.l EXCEPT !.hotkey = Canonical[hk]]
    <1>1. Top.l \in Layout /\ IsCurrent(Top.l)
        BY DialogLayout
    <1>2. l \in Layout /\ l.id = Top.l.id
        BY <1>1, HotkeyTextAssumption DEF Layout
    <1> QED
        BY <1>1, <1>2, ReplacingEdits DEF WriteHotkey, ThreadInv, IsCurrent

LEMMA DeleteEdits ==
    ASSUME ThreadInv, ConfirmDelete
    PROVE  Edited
    <1> DEFINE ls  == memory.layouts
               new == Delete(ls, Top.l.id)
    <1>1. up /\ stack # <<>> /\ Top.at = "delete" /\ then = "nothing" /\ ls \in Seq(Layout)
        BY MemoryHasLayouts DEF ConfirmDelete, UserAt, Waiting, ThreadInv
    <1>2. Top.l.id \in Ids(ls)
        BY <1>1, DialogLayout DEF IsCurrent
    <1>3. new \in Seq(Layout) /\ (DistinctIds(ls) => DistinctIds(new))
        BY <1>1, <1>2, DeleteKeepsDistinct
    <1>4. RestoreOrder(new, ls) = ls
        BY <1>1, <1>3, DeleteUndone
    <1> QED
        BY <1>1, <1>3, <1>4 DEF Edited, ConfirmDelete

-----------------------------------------------------------------------------
(***************************************************************************)
(* The steps, by what they come to.                                        *)
(***************************************************************************)
Ended == up /\ stack # <<>> /\ EndAction

Opened ==
    \E at \in Dialogs, l \in Layout \cup {None} :
        /\ l = None <=> at = "save"
        /\ l # None => IsCurrent(l)
        /\ OpenDialog(at, l)

HotkeyAsked ==
    /\ UserAt("hotkey")
    /\ \E hk \in Combo \cup {Zero} : HotkeyFails(hk) \/ HotkeyProbes(hk)

LEMMA DialogOpens ==
    ASSUME ThreadInv, NEW at \in {"rename", "hotkey", "delete"}, NEW id,
           ChooseDialog(at, id)
    PROVE  Opened
    <1> DEFINE l == Get(memory.layouts, id)
    <1>1. id \in Ids(memory.layouts) /\ OpenDialog(at, l)
        BY DEF ChooseDialog
    <1>2. l \in Layout /\ l.id = id
        BY <1>1, MemoryHasLayouts, GetById DEF ThreadInv
    <1>3. l # None /\ IsCurrent(l)
        BY <1>1, <1>2, FensterAssumption DEF IsCurrent
    <1> HIDE DEF l
    <1> QED
        BY <1>1, <1>2, <1>3 DEF Opened, Dialogs

LEMMA UserCases ==
    ASSUME ThreadInv, UserStep
    PROVE  \/ Edited \/ Ended \/ Opened \/ HotkeyAsked
           \/ TrayClick \/ Dismiss \/ ChooseMinimizeOthers \/ ChooseQuit
           \/ \E id \in LayoutId : ChooseRestore(id)
           \/ \E c \in Combo \cup {Zero} : CaptureKeys(c)
    <1>1. CASE ChooseSave
        BY <1>1 DEF ChooseSave, Opened, Dialogs
    <1>2. CASE ChooseOther \/ \E at \in {"save", "rename", "hotkey", "delete"} : Cancel(at)
        BY <1>2 DEF ChooseOther, Cancel, Ended, UserAt, Waiting
    <1>3. ASSUME NEW id \in LayoutId, NEW at \in {"rename", "hotkey", "delete"},
                 ChooseDialog(at, id)
          PROVE  Opened
        BY <1>3, DialogOpens
    <1>4. ASSUME NEW id \in LayoutId,
                 \/ ChooseToggleInclude(id) \/ ChooseOverwrite(id)
                 \/ \E name \in Name : ConfirmSave(id, name)
          PROVE  Edited
        BY <1>4, ToggleEdits, OverwriteEdits, SaveEdits
    <1>5. CASE (\E name \in Name : ConfirmRename(name)) \/ ConfirmDelete
        BY <1>5, RenameEdits, DeleteEdits
    <1>6. ASSUME NEW hk \in Combo \cup {Zero}, ConfirmHotkey(hk)
          PROVE  Edited \/ Ended \/ HotkeyAsked
        <2>1. up /\ stack # <<>> /\ Top.at = "hotkey" /\ then = "nothing" /\ UserAt("hotkey")
            BY <1>6 DEF ConfirmHotkey, UserAt, Waiting
        <2>2. CASE HotkeyDone(hk)
            BY <2>1, <2>2 DEF HotkeyDone, Ended
        <2>3. CASE HotkeyFails(hk) \/ HotkeyProbes(hk)
            BY <2>1, <2>3 DEF HotkeyAsked
        <2>4. CASE HotkeyWrites(hk)
            BY <2>1, <2>4, WriteHotkeyEdits DEF HotkeyWrites
        <2> QED
            BY <1>6, <2>2, <2>3, <2>4 DEF ConfirmHotkey
    <1> QED
        BY <1>1, <1>2, <1>3, <1>4, <1>5, <1>6 DEF UserStep

LEMMA ThreadCases ==
    ASSUME ThreadInv, ThreadStep
    PROVE  \/ Edited \/ Ended
           \/ ManagerStep \/ ProbeAnswers
           \/ Resume \/ Return \/ Reopen \/ Exit \/ FirstSync
           \/ DeliverDisplayChange \/ DeliverHotkey \/ DeliverClose
           \/ QuitLeavesMenu \/ QuitLeavesRun
    <1>1. CASE Assign
        <2>1. up /\ then = "assign" /\ stack # <<>>
            BY <1>1 DEF Assign, ThreadInv, Control
        <2>2. Top.at = "hotkey" /\ Top.keys \in Combo \cup {Zero}
            BY <2>1, OneFrame DEF ThreadInv, Control, Frames
        <2> QED
            BY <1>1, <2>1, <2>2, WriteHotkeyEdits DEF Assign
    <1>2. CASE Finish \/ QuitLeavesDialog
        BY <1>2 DEF Finish, QuitLeavesDialog, Ended, Waiting, ThreadInv, Control
    <1> QED
        BY <1>1, <1>2 DEF ThreadStep

-----------------------------------------------------------------------------
(***************************************************************************)
(* The state of the thread.                                                *)
(***************************************************************************)
LEMMA SyncKeeps ==
    ASSUME NEW ls, NEW next, SyncHotkeys(ls, next)
    PROVE  then' = next /\ alive' = alive
    BY DEF SyncHotkeys, HM!CallSync, HM!OtherCallFails, HM!windows

LEMMA NoHotkey == restored' = None => ~FromHotkey(restored)'
    BY DEF FromHotkey

\* A stack of one frame, and an empty one.
LEMMA OneFrameNext ==
    ASSUME NEW f \in Frames, stack' = <<f>>
    PROVE  /\ stack' \in Seq(Frames) /\ Len(stack)' = 1 /\ stack' # <<>>
           /\ DOMAIN stack' = {1} /\ stack'[1] = f
    OBVIOUS

LEMMA NoFrameNext ==
    ASSUME stack' = <<>>
    PROVE  stack' \in Seq(Frames) /\ Len(stack)' = 0 /\ DOMAIN stack' = {}
    OBVIOUS

\* Nothing hangs together with an empty stack.
LEMMA ControlAlone ==
    ASSUME stack' = <<>>, ~busy', then' \in {"nothing", "resume", "start", "exit"},
           ~up' => then' = "nothing" /\ ~quit', alive' => up', quit' \/ then' = "exit" => ~alive'
    PROVE  Control'
    <1>1. DOMAIN stack' = {} /\ Len(stack)' = 0
        BY NoFrameNext
    <1> QED
        BY <1>1 DEF Control

LEMMA ControlInit == Init => Types /\ Control
    <1> SUFFICES ASSUME Init PROVE Types /\ Control
        OBVIOUS
    <1>1. memory \in File /\ disk \in File
        BY FensterAssumption DEF Init
    <1>2. stack = <<>> /\ ~FromHotkey(restored)
        BY DEF Init, FromHotkey
    <1>3. DOMAIN stack = {} /\ Len(stack) = 0 /\ stack \in Seq(Frames)
        BY <1>2
    <1>4. Types
        BY <1>1, <1>3 DEF Init, Types
    <1>5. Control
        BY <1>2, <1>3 DEF Init, HM!Init, Control
    <1> QED
        BY <1>4, <1>5

\* The menu is shown by a handler that comes to wait, or gives up.
LEMMA MenuShows ==
    ASSUME Types, Control, up, NEW below, below = <<>>, ShowMenu(below)
    PROVE  (Types /\ Control)'
    <1> DEFINE f == Frame("menu", None)
    <1>1. f \in Frames /\ f.at = "menu" /\ f.l = None
        BY DEF Types, Frames, Frame
    <1> HIDE DEF f
    <1>2. UNCHANGED <<alive, up, quit, displayMsg, mons, memory, disk>>
          /\ then' = "nothing" /\ ~FromHotkey(restored)'
        BY NoHotkey DEF ShowMenu, HM!OtherCallFails, manager, mail, files
    <1>3. CASE stack' = <<f>> /\ busy' = TRUE
        <2>1. stack' \in Seq(Frames) /\ Len(stack)' = 1 /\ stack' # <<>>
              /\ DOMAIN stack' = {1} /\ stack'[1] = f
            BY <1>1, <1>3, OneFrameNext
        <2>2. Types'
            BY <1>2, <1>3, <2>1 DEF Types
        <2>3. Control'
            BY <1>1, <1>2, <1>3, <2>1 DEF Control
        <2> QED
            BY <2>2, <2>3
    <1>4. CASE stack' = <<>> /\ busy' = FALSE
        <2>1. Types'
            BY <1>2, <1>4, NoFrameNext DEF Types
        <2>2. Control'
            <3>1. (quit' \/ then' = "exit" => ~alive') /\ (alive' => up') /\ up'
                BY <1>2 DEF Control
            <3> QED
                BY <1>2, <1>4, <3>1, ControlAlone
        <2> QED
            BY <2>1, <2>2
    <1>5. Append(<<>>, f) = <<f>>
        OBVIOUS
    <1> QED
        BY <1>3, <1>4, <1>5 DEF ShowMenu, f

\* A handler goes on to the sync that ends it.
LEMMA ControlEnds ==
    ASSUME ThreadInv, Edited \/ Ended
    PROVE  (Types /\ Control)'
    <1> USE DEF ThreadInv
    <1> USE NoHotkey
    <1>1. CASE Edited
        <2>1. PICK new \in Seq(Layout), next \in {"return", "reopen"} :
                 up /\ stack # <<>> /\ MutateLayouts(new, memory.layouts, next)
            BY <1>1 DEF Edited
        <2>2. /\ then' \in {"return", "reopen"} /\ alive' = alive
              /\ memory' \in File /\ disk' \in File
              /\ restored' = None
              /\ UNCHANGED <<up, stack, busy, quit, icon, displayMsg, mons>>
            BY <2>1, SyncKeeps, MemoryHasLayouts DEF MutateLayouts, Mutate, mail, Types
        <2> QED
            BY <2>1, <2>2 DEF Types, Control
    <1>2. CASE Ended
        BY <1>2, SyncKeeps DEF Ended, EndAction, Types, Control, mail, files
    <1> QED
        BY <1>1, <1>2

LEMMA ControlUser ==
    ASSUME ThreadInv, UserStep
    PROVE  (Types /\ Control)'
    <1> USE DEF ThreadInv
    <1> USE NoHotkey
    <1>1. CASE Edited \/ Ended
        BY <1>1, ControlEnds
    <1>2. CASE ChooseMinimizeOthers
        <2>1. \A f \in File : \A on : WithMinimizeOthers(f, on) \in File
            BY OptionWritten
        <2>2. /\ then' \in {"return", "reopen"} /\ alive' = alive /\ up
              /\ memory' \in File /\ disk' \in File /\ stack # <<>>
              /\ restored' = None
              /\ UNCHANGED <<up, stack, busy, quit, icon, displayMsg, mons>>
            BY <1>2, <2>1, SyncKeeps
            DEF ChooseMinimizeOthers, Mutate, mail, Types, MinimizesOthers, UserAt, Waiting
        <2> QED
            BY <2>2 DEF Types, Control
    <1>4. CASE Opened
        <2>1. PICK at \in Dialogs, l \in Layout \cup {None} :
                 (l = None <=> at = "save") /\ OpenDialog(at, l)
            BY <1>4 DEF Opened
        <2> DEFINE f == [Top EXCEPT !.at = at, !.l = l]
        <2>2. up /\ then = "nothing" /\ stack # <<>>
            BY <2>1 DEF OpenDialog, UserAt, Waiting
        <2>3. f \in Frames /\ f.at = at /\ f.l = l
            BY <2>2, OneFrame DEF Frames
        <2> HIDE DEF f
        <2>4. stack' = <<f>>
            BY <2>1, <2>2, OneFrame DEF OpenDialog, f
        <2>5. UNCHANGED <<alive, up, busy, then, quit, displayMsg, mons, memory, disk>>
              /\ restored' = None
            BY <2>1 DEF OpenDialog, manager, mail, files
        <2>6. l = None <=> at \in {"menu", "save"}
            BY <2>1 DEF Dialogs
        <2> QED
            BY <2>2, <2>3, <2>4, <2>5, <2>6, OneFrameNext DEF Types, Control
    <1>5. CASE HotkeyAsked
        <2>1. up /\ then = "nothing" /\ stack # <<>> /\ stack[1].at = "hotkey" /\ DOMAIN stack = {1}
            BY <1>5, OneFrame DEF HotkeyAsked, UserAt, Waiting
        <2>2. UNCHANGED <<alive, up, stack, busy, quit, displayMsg, mons, memory, disk>>
              /\ restored' = None /\ then' \in {"probed", "finish"}
            BY <1>5 DEF HotkeyAsked, HotkeyFails, HotkeyProbes, HM!OtherCallFails, HM!CallProbe,
                        HM!windows, mail, files
        <2> QED
            BY <2>1, <2>2 DEF Types, Control
    <1>6. CASE TrayClick
        BY <1>6, MenuShows DEF TrayClick, Waiting, Control
    <1>7. CASE Dismiss \/ ChooseQuit
        <2>1. up /\ then = "nothing" /\ stack # <<>>
            BY <1>7 DEF Dismiss, ChooseQuit, UserAt, Waiting
        <2>2. stack' = <<>> /\ busy' = FALSE /\ restored' = None
              /\ UNCHANGED <<alive, up, then, quit, displayMsg, mons, memory, disk>>
            BY <1>7, <2>1, OneFrame DEF Dismiss, ChooseQuit, manager, mail, files
        <2>3. Types'
            BY <2>2, NoFrameNext DEF Types
        <2>4. Control'
            <3>1. (quit' \/ then' = "exit" => ~alive') /\ (alive' => up') /\ up'
                BY <2>1, <2>2 DEF Control
            <3> QED
                BY <2>1, <2>2, <3>1, ControlAlone
        <2> QED
            BY <2>3, <2>4
    <1>8. ASSUME NEW id \in LayoutId, ChooseRestore(id)
          PROVE  (Types /\ Control)'
        <2>1. up /\ then = "nothing" /\ stack # <<>>
            BY <1>8 DEF ChooseRestore, UserAt, Waiting
        <2>2. then' = "return"
              /\ UNCHANGED <<alive, up, stack, busy, quit, displayMsg, mons, memory, disk>>
            BY <1>8, SyncKeeps DEF ChooseRestore, mail, files
        <2>3. ~FromHotkey(restored)'
            BY <1>8 DEF ChooseRestore, Restore, FromHotkey
        <2> QED
            BY <2>1, <2>2, <2>3 DEF Types, Control
    <1>9. ASSUME NEW c \in Combo \cup {Zero}, CaptureKeys(c)
          PROVE  (Types /\ Control)'
        <2> DEFINE f == [Top EXCEPT !.keys = c]
        <2>1. up /\ then = "nothing" /\ stack # <<>>
            BY <1>9 DEF CaptureKeys, UserAt, Waiting
        <2>2. f \in Frames /\ f.at = stack[1].at /\ f.l = stack[1].l
            BY <2>1, OneFrame DEF Frames
        <2> HIDE DEF f
        <2>3. stack' = <<f>> /\ restored' = None
              /\ UNCHANGED <<alive, up, busy, then, quit, displayMsg, mons, memory, disk>>
            BY <1>9, <2>1, OneFrame DEF CaptureKeys, f, manager, mail, files
        <2>4. stack' \in Seq(Frames) /\ Len(stack)' = 1 /\ stack' # <<>>
              /\ DOMAIN stack' = {1} /\ stack'[1] = f
            BY <2>2, <2>3, OneFrameNext
        <2>5. Types'
            BY <2>3, <2>4 DEF Types
        <2>6. Control'
            BY <2>1, <2>2, <2>3, <2>4, OneFrame DEF Control
        <2> QED
            BY <2>5, <2>6
    <1> QED
        BY UserCases, <1>1, <1>2, <1>4, <1>5, <1>6, <1>7, <1>8, <1>9

LEMMA ManagerKeeps ==
    ASSUME HM!Step
    PROVE  UNCHANGED <<alive, layouts, fingerprint>>
    <1>1. ASSUME NEW id, NEW c,
                 \/ HM!RegisterSucceeds(id, c) \/ HM!RegisterFails(c)
                 \/ HM!UnregisterSucceeds(id) \/ HM!UnregisterFails(id)
          PROVE  UNCHANGED alive
        BY <1>1 DEF HM!RegisterSucceeds, HM!RegisterFails, HM!UnregisterSucceeds,
                    HM!UnregisterFails
    <1>2. CASE HM!RetryProbeRelease \/ \E id \in releasing : HM!Release(id)
        BY <1>1, <1>2 DEF HM!RetryProbeRelease, HM!Release, HM!windows
    <1>3. CASE HM!SelectActive \/ HM!SyncReturns \/ HM!ProbeReturns
        BY <1>3 DEF HM!SelectActive, HM!SyncReturns, HM!ProbeReturns, HM!windows
    <1>4. CASE \E i \in todo : HM!RegisterGranted(i) \/ HM!RegisterRefused(i)
        BY <1>1, <1>4 DEF HM!RegisterGranted, HM!RegisterRefused
    <1>5. CASE HM!ProbeRegister \/ HM!ProbeRelease
        BY <1>1, <1>5 DEF HM!ProbeRegister, HM!ProbeRelease, HM!locals
    <1> QED
        BY <1>2, <1>3, <1>4, <1>5 DEF HM!Step

LEMMA ControlThread ==
    ASSUME ThreadInv, ThreadStep
    PROVE  (Types /\ Control)'
    <1> USE DEF ThreadInv
    <1> USE NoHotkey
    <1>1. CASE Edited \/ Ended
        BY <1>1, ControlEnds
    <1>2. CASE ManagerStep
        <2>1. UNCHANGED <<alive, up, stack, busy, then, quit, displayMsg, mons, memory, disk>>
              /\ restored' = None
            BY <1>2, ManagerKeeps DEF ManagerStep, thread, mail, files
        <2> QED
            BY <2>1 DEF Types, Control
    <1>3. CASE ProbeAnswers
        <2>1. UNCHANGED <<alive, up, stack, busy, quit, displayMsg, mons, memory, disk>>
              /\ restored' = None /\ then = "probed" /\ then' \in {"assign", "finish"}
            BY <1>3 DEF ProbeAnswers, HM!ProbeReturns, HM!windows, mail, files
        <2> QED
            BY <2>1 DEF Types, Control
    <1>4. CASE Resume
        BY <1>4 DEF Resume, manager, mail, files, Types, Control
    <1>5. CASE Return \/ QuitLeavesMenu
        <2>1. up /\ stack # <<>>
            BY <1>5 DEF Return, QuitLeavesMenu, Waiting, Control
        <2>2. stack' = <<>> /\ ~busy' /\ then' = "nothing" /\ restored' = None
              /\ UNCHANGED <<alive, up, quit, displayMsg, mons, memory, disk>>
            BY <1>5, <2>1, OneFrame DEF Return, QuitLeavesMenu, Waiting, manager, mail, files
        <2>3. Types'
            BY <1>5, <2>2, NoFrameNext DEF Types, Return, QuitLeavesMenu
        <2>4. alive' => up' /\ ~quit'
            BY <2>2 DEF Control
        <2> QED
            BY <2>1, <2>2, <2>3, <2>4, ControlAlone
    <1>6. CASE Reopen
        BY <1>6, OneFrame, MenuShows DEF Reopen, Control
    <1>7. CASE Exit
        <2>1. stack' = <<>> /\ ~busy' /\ then' = "nothing" /\ ~alive' /\ quit' = FALSE
              /\ UNCHANGED <<busy, displayMsg, mons, memory, disk>> /\ up' = FALSE
            BY <1>7 DEF Exit, Control, HM!ProcessEnds, mail, files
        <2>2. Types'
            BY <2>1, NoFrameNext DEF Types
        <2> QED
            BY <2>1, <2>2, ControlAlone
    <1>8. CASE FirstSync
        <2>1. UNCHANGED <<alive, up, stack, busy, quit, displayMsg, mons, memory, disk>>
              /\ restored' = None /\ then' = "resume" /\ up
            BY <1>8, SyncKeeps DEF FirstSync, mail, files
        <2> QED
            BY <2>1 DEF Types, Control
    <1>9. CASE DeliverDisplayChange
        <2>1. UNCHANGED <<alive, up, stack, busy, quit, mons, memory, disk>>
              /\ restored' = None /\ then' = "resume" /\ up /\ displayMsg' = FALSE
            BY <1>9, SyncKeeps DEF DeliverDisplayChange, Waiting, files
        <2> QED
            BY <2>1 DEF Types, Control
    <1>10. CASE DeliverHotkey
        <2>1. UNCHANGED <<alive, up, stack, busy, then, quit, displayMsg, mons, memory, disk>>
            BY <1>10 DEF DeliverHotkey, manager, thread, files, HM!OtherCallFails
        <2>2. FromHotkey(restored)' => stack = <<>>
            BY <1>10 DEF DeliverHotkey, Control
        <2> QED
            BY <2>1, <2>2 DEF Types, Control
    <1>11. CASE DeliverClose
        <2>1. UNCHANGED <<up, stack, busy, then, mons, memory, disk>>
              /\ restored' = None /\ displayMsg' = FALSE /\ quit' = TRUE /\ alive' = FALSE
              /\ up
            BY <1>11 DEF DeliverClose, HM!DestroyWindow, files, Waiting
        <2> QED
            BY <2>1 DEF Types, Control
    <1>12. CASE QuitLeavesRun
        <2>1. UNCHANGED <<alive, up, stack, busy, quit, displayMsg, mons, memory, disk>>
              /\ restored' = None /\ then' = "exit" /\ stack = <<>> /\ up /\ quit
            BY <1>12 DEF QuitLeavesRun, HM!CallSync, HM!windows, mail, files, Waiting
        <2> QED
            BY <2>1 DEF Types, Control
    <1> QED
        BY ThreadCases, <1>1, <1>2, <1>3, <1>4, <1>5, <1>6, <1>7, <1>8, <1>9, <1>10,
           <1>11, <1>12

LEMMA ControlWorld ==
    ASSUME ThreadInv, WorldStep
    PROVE  (Types /\ Control)'
    <1> USE DEF ThreadInv
    <1> USE NoHotkey
    <1>1. ASSUME NEW f \in Setup, ChangeDisplay(f)
          PROVE  (Types /\ Control)'
        <2>1. UNCHANGED <<alive, up, stack, busy, then, quit, memory, disk>>
              /\ restored' = None /\ mons' \in Setup /\ displayMsg' = alive
            BY <1>1 DEF ChangeDisplay, manager, thread, files
        <2>2. displayMsg' \in BOOLEAN
            BY <2>1 DEF M!TypeInv, M!TypeOK, M!WindowsOK
        <2> QED
            BY <2>1, <2>2 DEF Types, Control
    <1>2. CASE SignalQuit \/ OtherApplication \/ \E r \in held : Press(r)
        <2>1. UNCHANGED <<alive, up, stack, busy, then, quit, displayMsg, mons, memory, disk>>
              /\ restored' = None
            BY <1>2 DEF SignalQuit, OtherApplication, Press, HM!ForeignRegister,
                        HM!ForeignUnregister, manager, thread, mail, files
        <2> QED
            BY <2>1 DEF Types, Control
    <1>3. CASE Kill
        <2>1. stack' = <<>> /\ busy' = FALSE /\ then' = "nothing" /\ ~alive' /\ quit' = FALSE
              /\ displayMsg' = FALSE /\ UNCHANGED <<mons, memory, disk>> /\ up' = FALSE
            BY <1>3 DEF Kill, HM!ProcessEnds, files
        <2>2. Types'
            BY <2>1, NoFrameNext DEF Types
        <2> QED
            BY <2>1, <2>2, ControlAlone
    <1>4. CASE Start
        <2>1. stack' = <<>> /\ then' = "start" /\ up' = TRUE /\ ~up /\ memory' = disk
              /\ UNCHANGED <<busy, quit, displayMsg, mons, disk>> /\ ~busy
            BY <1>4 DEF Start, Control, mail
        <2>2. Types'
            BY <2>1, NoFrameNext DEF Types
        <2>3. ~quit'
            BY <2>1 DEF Control
        <2> QED
            BY <2>1, <2>2, <2>3, ControlAlone
    <1> QED
        BY <1>1, <1>2, <1>3, <1>4 DEF WorldStep

-----------------------------------------------------------------------------
(***************************************************************************)
(* The layout a dialog holds.                                              *)
(***************************************************************************)
LEMMA SnapshotsKept ==
    ASSUME Snapshots, UNCHANGED <<stack, memory, up>>,
           then \in {"return", "reopen"} => then' \in {"return", "reopen"}
    PROVE  Snapshots'
    BY DEF Snapshots, IsCurrent

LEMMA SnapshotsWritten ==
    ASSUME then' \in {"return", "reopen"}
    PROVE  Snapshots'
    BY DEF Snapshots

LEMMA SnapshotsAlone ==
    ASSUME stack' = <<>>
    PROVE  Snapshots'
    BY NoFrameNext DEF Snapshots

LEMMA SnapshotOne ==
    ASSUME NEW f \in Frames, stack' = <<f>>, UNCHANGED memory,
           f.l # None => IsCurrent(f.l)
    PROVE  Snapshots'
    BY OneFrameNext DEF Snapshots, IsCurrent

LEMMA SnapshotsMenu ==
    ASSUME Types, NEW below, below = <<>>, ShowMenu(below)
    PROVE  Snapshots'
    <1> DEFINE f == Frame("menu", None)
    <1>1. f \in Frames /\ f.l = None
        BY DEF Types, Frames, Frame
    <1>2. stack' = Append(<<>>, f) \/ stack' = <<>>
        BY DEF ShowMenu
    <1> HIDE DEF f
    <1>3. Append(<<>>, f) = <<f>> /\ UNCHANGED memory
        BY DEF ShowMenu, files
    <1> QED
        BY <1>1, <1>2, <1>3, SnapshotsAlone, SnapshotOne

LEMMA SnapshotsUser ==
    ASSUME ThreadInv, UserStep
    PROVE  Snapshots'
    <1> USE DEF ThreadInv
    <1>1. CASE Edited \/ Ended \/ ChooseMinimizeOthers \/ \E id \in LayoutId : ChooseRestore(id)
        <2>1. then' \in {"return", "reopen"}
            BY <1>1, SyncKeeps DEF Edited, MutateLayouts, Mutate, Ended, EndAction,
               ChooseMinimizeOthers, ChooseRestore
        <2> QED
            BY <2>1, SnapshotsWritten
    <1>2. CASE Opened
        <2>1. PICK at \in Dialogs, l \in Layout \cup {None} :
                 (l # None => IsCurrent(l)) /\ OpenDialog(at, l)
            BY <1>2 DEF Opened
        <2> DEFINE f == [Top EXCEPT !.at = at, !.l = l]
        <2>2. stack # <<>>
            BY <2>1 DEF OpenDialog, UserAt
        <2>3. f \in Frames /\ f.l = l
            BY <2>2, OneFrame DEF Frames
        <2> HIDE DEF f
        <2>4. stack' = <<f>> /\ UNCHANGED memory
            BY <2>1, <2>2, OneFrame DEF OpenDialog, f, files
        <2> QED
            BY <2>1, <2>3, <2>4, SnapshotOne
    <1>3. CASE HotkeyAsked
        BY <1>3, SnapshotsKept DEF HotkeyAsked, HotkeyFails, HotkeyProbes, UserAt, Waiting, files
    <1>4. CASE TrayClick
        BY <1>4, SnapshotsMenu DEF TrayClick, Control
    <1>5. CASE Dismiss \/ ChooseQuit
        <2>1. stack' = <<>>
            BY <1>5, OneFrame DEF Dismiss, ChooseQuit, UserAt
        <2> QED
            BY <2>1, SnapshotsAlone
    <1>6. ASSUME NEW c \in Combo \cup {Zero}, CaptureKeys(c)
          PROVE  Snapshots'
        <2> DEFINE f == [Top EXCEPT !.keys = c]
        <2>1. up /\ then = "nothing" /\ stack # <<>>
            BY <1>6 DEF CaptureKeys, UserAt, Waiting
        <2>2. f \in Frames /\ f.l = stack[1].l
            BY <2>1, OneFrame DEF Frames
        <2>3. f.l # None => IsCurrent(f.l)
            BY <2>1, <2>2, OneFrame DEF Snapshots
        <2> HIDE DEF f
        <2>4. stack' = <<f>> /\ UNCHANGED memory
            BY <1>6, <2>1, OneFrame DEF CaptureKeys, f, files
        <2> QED
            BY <2>2, <2>3, <2>4, SnapshotOne
    <1> QED
        BY UserCases, <1>1, <1>2, <1>3, <1>4, <1>5, <1>6

LEMMA SnapshotsThread ==
    ASSUME ThreadInv, ThreadStep
    PROVE  Snapshots'
    <1> USE DEF ThreadInv
    <1>1. CASE Edited \/ Ended
        <2>1. then' \in {"return", "reopen"}
            BY <1>1, SyncKeeps DEF Edited, MutateLayouts, Mutate, Ended, EndAction
        <2> QED
            BY <2>1, SnapshotsWritten
    <1>2. CASE ManagerStep \/ DeliverHotkey \/ DeliverClose
        BY <1>2, SnapshotsKept DEF ManagerStep, DeliverHotkey, DeliverClose, thread, files
    <1>3. CASE ProbeAnswers \/ Resume
        BY <1>3, SnapshotsKept DEF ProbeAnswers, Resume, files
    <1>4. CASE FirstSync \/ DeliverDisplayChange \/ QuitLeavesRun
        <2>1. UNCHANGED <<stack, memory, up>> /\ then \notin {"return", "reopen"}
            BY <1>4 DEF FirstSync, DeliverDisplayChange, QuitLeavesRun, Waiting, files
        <2> QED
            BY <2>1, SnapshotsKept
    <1>5. CASE Return \/ QuitLeavesMenu \/ Exit
        <2>1. stack' = <<>>
            BY <1>5, OneFrame DEF Return, QuitLeavesMenu, Exit, Control
        <2> QED
            BY <2>1, SnapshotsAlone
    <1>6. CASE Reopen
        BY <1>6, OneFrame, SnapshotsMenu DEF Reopen, Control
    <1> QED
        BY ThreadCases, <1>1, <1>2, <1>3, <1>4, <1>5, <1>6

LEMMA SnapshotsWorld ==
    ASSUME ThreadInv, WorldStep
    PROVE  Snapshots'
    <1> USE DEF ThreadInv
    <1>1. CASE \/ SignalQuit \/ OtherApplication \/ \E r \in held : Press(r)
               \/ \E f \in Setup : ChangeDisplay(f)
        BY <1>1, SnapshotsKept DEF SignalQuit, OtherApplication, Press, ChangeDisplay, thread, files
    <1>2. CASE Kill \/ Start
        <2>1. stack' = <<>>
            BY <1>2 DEF Kill, Start, Control
        <2> QED
            BY <2>1, SnapshotsAlone
    <1> QED
        BY <1>1, <1>2 DEF WorldStep

-----------------------------------------------------------------------------
(***************************************************************************)
(* Every step of the program is a step of the manager, or leaves it alone: *)
(* the program calls it one call at a time, with arguments it is made for. *)
(***************************************************************************)
LEMMA WindowsIsTheSame ==
    ASSUME NEW id, NEW c
    PROVE  /\ HM!Taken(c) <=> M!Taken(c)
           /\ HM!RegisterSucceeds(id, c) <=> M!RegisterSucceeds(id, c)
           /\ HM!RegisterFails(c) <=> M!RegisterFails(c)
           /\ HM!UnregisterSucceeds(id) <=> M!UnregisterSucceeds(id)
           /\ HM!UnregisterFails(id) <=> M!UnregisterFails(id)
    BY DEF HM!UnregisterSucceeds, HM!UnregisterFails, HM!RegisterSucceeds, HM!RegisterFails,
           HM!HeldUnder, HM!Fault, HM!Taken,
           M!UnregisterSucceeds, M!UnregisterFails, M!RegisterSucceeds, M!RegisterFails,
           M!HeldUnder, M!Fault, M!Taken

LEMMA StepIsAStep == HM!Step => M!Step
    <1>1. HM!RetryProbeRelease => M!RetryProbeRelease
        BY WindowsIsTheSame DEF HM!RetryProbeRelease, HM!probeId, HM!windows,
           M!RetryProbeRelease, M!probeId, M!windows
    <1>2. \A id \in releasing : HM!Release(id) => M!Release(id)
        BY WindowsIsTheSame DEF HM!Release, HM!manager, M!Release, M!manager
    <1>3. HM!SelectActive => M!SelectActive
        BY DEF HM!SelectActive, HM!windows, HM!Active, HM!Bound, HM!probeId,
               M!SelectActive, M!windows, M!Active, M!Bound, M!probeId
    <1>4. \A i \in todo : HM!RegisterGranted(i) => M!RegisterGranted(i)
        BY WindowsIsTheSame DEF HM!RegisterGranted, HM!NextBinding, M!RegisterGranted, M!NextBinding
    <1>5. \A i \in todo : HM!RegisterRefused(i) => M!RegisterRefused(i)
        BY WindowsIsTheSame DEF HM!RegisterRefused, HM!NextBinding, M!RegisterRefused, M!NextBinding
    <1>6. HM!SyncReturns => M!SyncReturns
        BY DEF HM!SyncReturns, HM!manager, HM!windows, M!SyncReturns, M!manager, M!windows
    <1>7. HM!ProbeRegister => M!ProbeRegister
        BY WindowsIsTheSame DEF HM!ProbeRegister, HM!probeId, HM!manager, HM!locals,
           M!ProbeRegister, M!probeId, M!manager, M!locals
    <1>8. HM!ProbeRelease => M!ProbeRelease
        BY WindowsIsTheSame DEF HM!ProbeRelease, HM!probeId, HM!locals,
           M!ProbeRelease, M!probeId, M!locals
    <1>9. HM!ProbeReturns => M!ProbeReturns
        BY DEF HM!ProbeReturns, HM!manager, HM!windows, M!ProbeReturns, M!manager, M!windows
    <1> QED
        BY <1>1, <1>2, <1>3, <1>4, <1>5, <1>6, <1>7, <1>8, <1>9 DEF HM!Step, M!Step

LEMMA FailureIsAStep == HM!OtherCallFails => M!OtherCallFails
    BY DEF HM!OtherCallFails, HM!Fault, HM!manager, HM!locals,
           M!OtherCallFails, M!Fault, M!manager, M!locals

LEMMA CallIsAStep ==
    ASSUME NEW ls, NEW f, HM!CallSync(ls, f)
    PROVE  M!CallSync(ls, f)
    BY DEF HM!CallSync, HM!Idle, HM!manager, HM!windows, M!CallSync, M!Idle, M!manager, M!windows

LEMMA ProbeIsAStep ==
    ASSUME NEW c, HM!CallProbe(c)
    PROVE  M!CallProbe(c)
    BY DEF HM!CallProbe, HM!Idle, HM!manager, HM!windows, M!CallProbe, M!Idle, M!manager, M!windows

LEMMA OthersAreSteps ==
    /\ \A c : HM!ForeignRegister(c) => M!ForeignRegister(c)
    /\ \A c : HM!ForeignUnregister(c) => M!ForeignUnregister(c)
    /\ HM!DestroyWindow => M!DestroyWindow
    /\ HM!ProcessEnds => M!ProcessEnds
    /\ HM!ProcessStarts => M!ProcessStarts
    BY DEF HM!ForeignRegister, HM!ForeignUnregister, HM!DestroyWindow, HM!ProcessEnds,
           HM!ProcessStarts, HM!Taken, HM!Idle, HM!manager, HM!locals,
           M!ForeignRegister, M!ForeignUnregister, M!DestroyWindow, M!ProcessEnds,
           M!ProcessStarts, M!Taken, M!Idle, M!manager, M!locals

LEMMA ManagerUnchanged == UNCHANGED manager => UNCHANGED M!vars
    BY DEF manager, M!vars, M!manager, M!locals, M!windows

LEMMA SyncIsAStep ==
    ASSUME Types, NEW ls \in Seq(Layout), NEW next, SyncHotkeys(ls, next)
    PROVE  M!Next
    BY CallIsAStep, FailureIsAStep DEF SyncHotkeys, Types, M!Next

LEMMA ManagerUser ==
    ASSUME ThreadInv, UserStep
    PROVE  [M!Next]_(M!vars)
    <1> USE DEF ThreadInv
    <1>1. memory.layouts \in Seq(Layout)
        BY MemoryHasLayouts
    <1>2. CASE Edited
        <2>1. PICK new \in Seq(Layout), next \in {"return", "reopen"} :
                 MutateLayouts(new, memory.layouts, next)
            BY <1>2 DEF Edited
        <2>2. \E ls \in Seq(Layout) : \E n : SyncHotkeys(ls, n)
            BY <1>1, <2>1, MemoryHasLayouts DEF MutateLayouts, Mutate
        <2> QED
            BY <2>2, SyncIsAStep
    <1>3. CASE ChooseMinimizeOthers
        <2> DEFINE on     == MinimizesOthers(memory)
                   new    == WithMinimizeOthers(memory, ~on)
                   undone == WithMinimizeOthers(new, on)
        <2>1. new.layouts = memory.layouts /\ undone.layouts = memory.layouts
            BY OptionWritten DEF Types
        <2>2. Mutate(new, undone, "reopen")
            BY <1>3 DEF ChooseMinimizeOthers
        <2> HIDE DEF new, undone
        <2>3. \E n : SyncHotkeys(memory.layouts, n)
            BY <2>1, <2>2 DEF Mutate
        <2> QED
            BY <1>1, <2>3, SyncIsAStep
    <1>4. CASE Ended \/ \E id \in LayoutId : ChooseRestore(id)
        BY <1>1, <1>4, SyncIsAStep DEF Ended, EndAction, ChooseRestore
    <1>5. CASE \/ Opened \/ Dismiss \/ ChooseQuit
               \/ \E c \in Combo \cup {Zero} : CaptureKeys(c)
        BY <1>5, ManagerUnchanged DEF Opened, OpenDialog, Dismiss, ChooseQuit, CaptureKeys
    <1>6. CASE HotkeyAsked
        <2>1. PICK hk \in Combo \cup {Zero} : HotkeyFails(hk) \/ HotkeyProbes(hk)
            BY <1>6 DEF HotkeyAsked
        <2>2. M!OtherCallFails \/ (hk \in Combo /\ M!CallProbe(hk))
            BY <2>1, FailureIsAStep, ProbeIsAStep DEF HotkeyFails, HotkeyProbes
        <2> QED
            BY <2>2 DEF M!Next
    <1>7. CASE TrayClick
        BY <1>7, ManagerUnchanged, FailureIsAStep DEF TrayClick, ShowMenu, M!Next
    <1> QED
        BY UserCases, <1>2, <1>3, <1>4, <1>5, <1>6, <1>7

LEMMA ManagerThread ==
    ASSUME ThreadInv, ThreadStep
    PROVE  [M!Next]_(M!vars)
    <1> USE DEF ThreadInv
    <1>1. memory.layouts \in Seq(Layout)
        BY MemoryHasLayouts
    <1>2. CASE Edited
        <2>1. PICK new \in Seq(Layout), next \in {"return", "reopen"} :
                 MutateLayouts(new, memory.layouts, next)
            BY <1>2 DEF Edited
        <2>2. \E ls \in Seq(Layout) : \E n : SyncHotkeys(ls, n)
            BY <1>1, <2>1, MemoryHasLayouts DEF MutateLayouts, Mutate
        <2> QED
            BY <2>2, SyncIsAStep
    <1>3. CASE Ended \/ FirstSync \/ DeliverDisplayChange
        BY <1>1, <1>3, SyncIsAStep DEF Ended, EndAction, FirstSync, DeliverDisplayChange
    <1>4. CASE ManagerStep
        BY <1>4, StepIsAStep DEF ManagerStep, M!Next
    <1>5. CASE ProbeAnswers
        <2>1. HM!Step
            BY <1>5 DEF ProbeAnswers, HM!Step
        <2> QED
            BY <2>1, StepIsAStep DEF M!Next
    <1>6. CASE Resume \/ Return \/ QuitLeavesMenu
        BY <1>6, ManagerUnchanged DEF Resume, Return, QuitLeavesMenu
    <1>7. CASE Reopen
        BY <1>7, ManagerUnchanged, FailureIsAStep DEF Reopen, ShowMenu, M!Next
    <1>8. CASE Exit \/ DeliverClose
        BY <1>8, OthersAreSteps DEF Exit, DeliverClose, M!Next
    <1>9. CASE DeliverHotkey
        BY <1>9, ManagerUnchanged, FailureIsAStep DEF DeliverHotkey, M!Next
    <1>10. CASE QuitLeavesRun
        <2>1. M!CallSync(<<>>, NoSetup) /\ <<>> \in Seq(Layout)
            BY <1>10, CallIsAStep DEF QuitLeavesRun
        <2> QED
            BY <2>1 DEF M!Next
    <1> QED
        BY ThreadCases, <1>2, <1>3, <1>4, <1>5, <1>6, <1>7, <1>8, <1>9, <1>10

LEMMA ManagerWorld ==
    ASSUME WorldStep
    PROVE  [M!Next]_(M!vars)
    <1>1. CASE (\E f \in Setup : ChangeDisplay(f)) \/ SignalQuit \/ \E r \in held : Press(r)
        BY <1>1, ManagerUnchanged DEF ChangeDisplay, SignalQuit, Press
    <1>2. CASE OtherApplication
        BY <1>2, OthersAreSteps DEF OtherApplication, M!Next
    <1>3. CASE Kill \/ Start
        BY <1>3, OthersAreSteps DEF Kill, Start, M!Next
    <1> QED
        BY <1>1, <1>2, <1>3 DEF WorldStep

LEMMA ManagerNext == ThreadInv /\ [Next]_vars => [M!Next]_(M!vars)
    <1>1. UNCHANGED vars => UNCHANGED M!vars
        BY ManagerUnchanged DEF vars
    <1> QED
        BY <1>1, ManagerUser, ManagerThread, ManagerWorld DEF Next

LEMMA ManagerInit == Init => M!Init
    BY DEF Init, HM!Init, M!Init

-----------------------------------------------------------------------------
LEMMA ThreadInit == Init => ThreadInv
    <1>1. Init => Snapshots
        BY DEF Init, Snapshots
    <1> QED
        BY <1>1, ControlInit, ManagerInit, ManagerAssumptions, M!TypeInit DEF ThreadInv

LEMMA ThreadNext == ThreadInv /\ [Next]_vars => ThreadInv'
    <1> SUFFICES ASSUME ThreadInv, [Next]_vars
                 PROVE  ThreadInv'
        OBVIOUS
    <1>1. M!TypeInv'
        BY ManagerNext, ManagerAssumptions, M!TypeStep DEF ThreadInv
    <1>2. CASE Next
        <2>1. Types' /\ Control' /\ Snapshots'
            BY <1>2, ControlUser, ControlThread, ControlWorld,
               SnapshotsUser, SnapshotsThread, SnapshotsWorld DEF Next
        <2> QED
            BY <1>1, <2>1 DEF ThreadInv
    <1>3. CASE UNCHANGED vars
        <2>1. Types' /\ Control'
            BY <1>3 DEF ThreadInv, vars, manager, thread, mail, files, Types, Control, FromHotkey
        <2>2. Snapshots'
            BY <1>3, SnapshotsKept DEF ThreadInv, vars, thread, files
        <2> QED
            BY <1>1, <2>1, <2>2 DEF ThreadInv
    <1> QED
        BY <1>2, <1>3

LEMMA ThreadInvariant == Spec => []ThreadInv
    BY ThreadInit, ThreadNext, PTL DEF Spec

(***************************************************************************)
(* One handler at a time: no menu or dialog opens on top of another, and   *)
(* no hotkey moves windows behind one.                                     *)
(***************************************************************************)
THEOREM OneModalAlways == Spec => []OneModal
    <1>1. ThreadInv => OneModal
        BY DEF ThreadInv, Control, OneModal
    <1> QED
        BY ThreadInvariant, <1>1, PTL

(***************************************************************************)
(* A dialog that waits holds its layout as the store has it, and the       *)
(* monitors it will file it under are those of a setup.                    *)
(***************************************************************************)
THEOREM SnapshotIsCurrentAlways == Spec => []SnapshotIsCurrent
    <1>1. ThreadInv => SnapshotIsCurrent
        <2> SUFFICES ASSUME ThreadInv, Waiting, NEW k \in DOMAIN stack
                     PROVE  /\ stack[k].mons \in Setup
                            /\ stack[k].l # None => IsCurrent(stack[k].l)
            BY DEF SnapshotIsCurrent, IsCurrent
        <2>1. stack[k] \in Frames
            BY DEF ThreadInv, Types
        <2>2. stack[k].l # None => IsCurrent(stack[k].l)
            BY DEF ThreadInv, Snapshots, Waiting
        <2> QED
            BY <2>1, <2>2 DEF Frames
    <1> QED
        BY ThreadInvariant, <1>1, PTL

(***************************************************************************)
(* The program is one of the callers the manager is proved to work for:    *)
(* what holds of the manager holds in the program.                         *)
(***************************************************************************)
THEOREM CallsTheManager == Spec => M!Spec
    <1>1. M!Init /\ [][M!Next]_(M!vars) => M!Spec
        BY PTL DEF M!Spec
    <1> QED
        BY ThreadInvariant, ManagerInit, ManagerNext, <1>1, PTL DEF Spec

-----------------------------------------------------------------------------
(***************************************************************************)
(* The two copies of the store.                                            *)
(***************************************************************************)
LEMMA FilesChange ==
    ASSUME ThreadInv, Next
    PROVE  \/ Edited \/ ChooseMinimizeOthers \/ Start
           \/ UNCHANGED files /\ (up' => up)
    <1>1. CASE UserStep
        BY <1>1, UserCases DEF Ended, EndAction, Opened, OpenDialog, HotkeyAsked, HotkeyFails,
           HotkeyProbes, TrayClick, ShowMenu, Dismiss, ChooseQuit, ChooseRestore, CaptureKeys
    <1>2. CASE ThreadStep
        <2>1. CASE Ended \/ ManagerStep \/ ProbeAnswers \/ Resume \/ Return \/ Reopen \/ FirstSync
            BY <2>1 DEF Ended, EndAction, ManagerStep, ProbeAnswers, Resume, Return, Reopen,
               ShowMenu, FirstSync, thread
        <2>2. CASE \/ Exit \/ DeliverDisplayChange \/ DeliverHotkey \/ DeliverClose
                   \/ QuitLeavesMenu \/ QuitLeavesRun
            BY <2>2 DEF Exit, DeliverDisplayChange, DeliverHotkey, DeliverClose,
               QuitLeavesMenu, QuitLeavesRun, thread
        <2> QED
            BY <1>2, <2>1, <2>2, ThreadCases
    <1>3. CASE WorldStep
        BY <1>3 DEF WorldStep, ChangeDisplay, Press, SignalQuit, OtherApplication, Kill, thread
    <1> QED
        BY <1>1, <1>2, <1>3 DEF Next

LEMMA MemoryNext ==
    ASSUME ThreadInv, MemoryMatchesDisk, [Next]_vars
    PROVE  MemoryMatchesDisk'
    <1> USE DEF ThreadInv
    <1>1. CASE Edited
        <2>1. PICK new \in Seq(Layout), next \in {"return", "reopen"} :
                 up /\ MutateLayouts(new, memory.layouts, next)
            BY <1>1 DEF Edited
        <2>2. memory' = disk' \/ (UNCHANGED <<memory, disk>> /\ up)
            BY <2>1, MemoryHasLayouts DEF MutateLayouts, Mutate
        <2> QED
            BY <2>2 DEF MemoryMatchesDisk, MinimizesOthers
    <1>2. CASE ChooseMinimizeOthers
        <2> DEFINE on     == MinimizesOthers(memory)
                   new    == WithMinimizeOthers(memory, ~on)
                   undone == WithMinimizeOthers(new, on)
        <2>1. up /\ Mutate(new, undone, "reopen")
            BY <1>2 DEF ChooseMinimizeOthers, UserAt, Waiting
        <2>2. undone.layouts = memory.layouts /\ (MinimizesOthers(undone) <=> MinimizesOthers(memory))
            BY OptionWritten DEF Types
        <2> HIDE DEF new, undone
        <2>3. memory' = disk' \/ (memory' = undone /\ UNCHANGED disk)
            BY <2>1 DEF Mutate
        <2> QED
            BY <2>1, <2>2, <2>3 DEF MemoryMatchesDisk, MinimizesOthers
    <1>3. CASE Start
        BY <1>3 DEF Start, MemoryMatchesDisk, MinimizesOthers
    <1>4. CASE UNCHANGED files /\ (up' => up)
        BY <1>4 DEF files, MemoryMatchesDisk, MinimizesOthers
    <1>5. CASE UNCHANGED vars
        BY <1>5 DEF vars, thread, files, MemoryMatchesDisk, MinimizesOthers
    <1> QED
        BY <1>1, <1>2, <1>3, <1>4, <1>5, FilesChange

(***************************************************************************)
(* A failed save is undone exactly, in the middle of whatever other events *)
(* happen while the dialog before it is open.                              *)
(***************************************************************************)
THEOREM MemoryMatchesDiskAlways == Spec => []MemoryMatchesDisk
    <1>1. Init => MemoryMatchesDisk
        BY DEF Init, MemoryMatchesDisk
    <1>2. ThreadInv /\ MemoryMatchesDisk /\ [Next]_vars => MemoryMatchesDisk'
        BY MemoryNext
    <1> QED
        BY ThreadInvariant, <1>1, <1>2, PTL DEF Spec

-----------------------------------------------------------------------------
(***************************************************************************)
(* The ids of the layouts stay distinct if the file begins that way, and   *)
(* the last sync was for the setup and the layouts there are now, as long  *)
(* as the thread has heard of every change and no call has failed.         *)
(***************************************************************************)
Distinct == DistinctIds(memory.layouts) /\ DistinctIds(disk.layouts)

LEMMA DistinctNext ==
    ASSUME ThreadInv, Distinct, [Next]_vars
    PROVE  Distinct'
    <1> USE DEF ThreadInv
    <1>1. CASE Edited
        <2>1. PICK new \in Seq(Layout), next \in {"return", "reopen"} :
                 DistinctIds(new) /\ MutateLayouts(new, memory.layouts, next)
            BY <1>1 DEF Edited, Distinct
        <2>2. \/ memory'.layouts = new /\ disk'.layouts = new
              \/ UNCHANGED <<memory, disk>>
            BY <2>1, MemoryHasLayouts DEF MutateLayouts, Mutate
        <2> QED
            BY <2>1, <2>2 DEF Distinct
    <1>2. CASE ChooseMinimizeOthers
        <2> DEFINE on     == MinimizesOthers(memory)
                   new    == WithMinimizeOthers(memory, ~on)
                   undone == WithMinimizeOthers(new, on)
        <2>1. Mutate(new, undone, "reopen")
            BY <1>2 DEF ChooseMinimizeOthers
        <2>2. new.layouts = memory.layouts /\ undone.layouts = memory.layouts
            BY OptionWritten DEF Types
        <2> HIDE DEF new, undone
        <2>3. memory'.layouts = memory.layouts /\ disk'.layouts \in {memory.layouts, disk.layouts}
            BY <2>1, <2>2 DEF Mutate
        <2> QED
            BY <2>3 DEF Distinct
    <1>3. CASE Start
        BY <1>3 DEF Start, Distinct
    <1>4. CASE UNCHANGED files \/ UNCHANGED vars
        BY <1>4 DEF files, vars, Distinct
    <1> QED
        BY <1>1, <1>2, <1>3, <1>4, FilesChange

Follows ==
    up /\ alive /\ ~displayMsg /\ HM!NoFault /\ then # "start" =>
        fingerprint = mons /\ layouts = memory.layouts

LEMMA FailureShows ==
    ASSUME M!TypeInv, HM!OtherCallFails
    PROVE  ~HM!NoFault'
    BY DEF HM!OtherCallFails, HM!Fault, HM!NoFault, M!TypeInv, M!TypeOK, M!WindowsOK

LEMMA NoFaultBefore ==
    ASSUME ThreadInv, [Next]_vars, HM!NoFault'
    PROVE  HM!NoFault
    <1>1. M!Fault \/ UNCHANGED faults
        <2>1. M!Next \/ UNCHANGED M!vars
            BY ManagerNext
        <2>2. CASE M!Step
            BY <2>2 DEF M!Step, M!RetryProbeRelease, M!Release, M!SelectActive,
               M!RegisterGranted, M!RegisterRefused, M!SyncReturns, M!ProbeRegister,
               M!ProbeRelease, M!ProbeReturns, M!UnregisterSucceeds, M!UnregisterFails,
               M!RegisterSucceeds, M!RegisterFails, M!windows
        <2> QED
            BY <2>1, <2>2 DEF M!Next, M!CallSync, M!CallProbe, M!ForeignRegister,
               M!ForeignUnregister, M!DestroyWindow, M!ProcessEnds, M!ProcessStarts,
               M!OtherCallFails, M!vars, M!windows
    <1> QED
        BY <1>1, ManagerAssumptions, M!NoFaultKept DEF ThreadInv, M!NoFault, HM!NoFault

LEMMA FollowsSync ==
    ASSUME ThreadInv, NEW next, NEW ls, SyncHotkeys(ls, next), ls = memory'.layouts,
           UNCHANGED mons
    PROVE  Follows'
    BY FailureShows DEF ThreadInv, SyncHotkeys, HM!CallSync, Follows

LEMMA FollowsKept ==
    ASSUME ThreadInv, [Next]_vars, Follows,
           UNCHANGED <<mons, memory, layouts, fingerprint, alive, displayMsg, up>>,
           then = "start" => then' = "start"
    PROVE  Follows'
    BY NoFaultBefore DEF Follows

LEMMA FollowsUser ==
    ASSUME ThreadInv, Follows, UserStep
    PROVE  Follows'
    <1> USE DEF ThreadInv
    <1>1. [Next]_vars
        BY DEF Next
    <1>2. CASE Edited
        <2>1. PICK new \in Seq(Layout), next \in {"return", "reopen"} :
                 MutateLayouts(new, memory.layouts, next)
            BY <1>2 DEF Edited
        <2>2. UNCHANGED mons /\ \E n : SyncHotkeys(memory'.layouts, n)
            BY <2>1 DEF MutateLayouts, Mutate
        <2> QED
            BY <2>2, FollowsSync
    <1>3. CASE ChooseMinimizeOthers
        <2>1. UNCHANGED mons /\ \E n : SyncHotkeys(memory'.layouts, n)
            BY <1>3 DEF ChooseMinimizeOthers, Mutate
        <2> QED
            BY <2>1, FollowsSync
    <1>4. CASE Ended \/ \E id \in LayoutId : ChooseRestore(id)
        <2>1. UNCHANGED mons /\ \E n : SyncHotkeys(memory'.layouts, n)
            BY <1>4 DEF Ended, EndAction, ChooseRestore, files
        <2> QED
            BY <2>1, FollowsSync
    <1>5. CASE \/ Opened \/ Dismiss \/ ChooseQuit \/ HotkeyAsked \/ TrayClick
               \/ \E c \in Combo \cup {Zero} : CaptureKeys(c)
        <2>1. UNCHANGED <<mons, memory, layouts, fingerprint, alive, displayMsg, up>>
              /\ then = "nothing"
            BY <1>5 DEF Opened, OpenDialog, Dismiss, ChooseQuit, HotkeyAsked, HotkeyFails,
               HotkeyProbes, TrayClick, ShowMenu, CaptureKeys, UserAt, Waiting,
               HM!OtherCallFails, HM!CallProbe, HM!windows, HM!locals, manager, mail, files
        <2> QED
            BY <1>1, <2>1, FollowsKept
    <1> QED
        BY <1>2, <1>3, <1>4, <1>5, UserCases

LEMMA FollowsThread ==
    ASSUME ThreadInv, Follows, ThreadStep
    PROVE  Follows'
    <1> USE DEF ThreadInv
    <1>1. [Next]_vars
        BY DEF Next
    <1>2. CASE Edited
        <2>1. PICK new \in Seq(Layout), next \in {"return", "reopen"} :
                 MutateLayouts(new, memory.layouts, next)
            BY <1>2 DEF Edited
        <2>2. UNCHANGED mons /\ \E n : SyncHotkeys(memory'.layouts, n)
            BY <2>1 DEF MutateLayouts, Mutate
        <2> QED
            BY <2>2, FollowsSync
    <1>3. CASE Ended \/ FirstSync \/ DeliverDisplayChange
        <2>1. UNCHANGED mons /\ \E n : SyncHotkeys(memory'.layouts, n)
            BY <1>3 DEF Ended, EndAction, FirstSync, DeliverDisplayChange, files
        <2> QED
            BY <2>1, FollowsSync
    <1>4. CASE ManagerStep \/ DeliverHotkey \/ QuitLeavesMenu
        <2>1. UNCHANGED <<mons, memory, layouts, fingerprint, alive, displayMsg, up, then>>
            BY <1>4, ManagerKeeps DEF ManagerStep, DeliverHotkey, QuitLeavesMenu,
               HM!OtherCallFails, HM!locals, manager, thread, mail, files
        <2> QED
            BY <1>1, <2>1, FollowsKept
    <1>5. CASE ProbeAnswers \/ Resume \/ Return \/ Reopen
        <2>1. UNCHANGED <<mons, memory, layouts, fingerprint, alive, displayMsg, up>>
              /\ then # "start"
            BY <1>5 DEF ProbeAnswers, Resume, Return, Reopen, ShowMenu, HM!OtherCallFails,
               HM!ProbeReturns, HM!windows, HM!locals, manager, mail, files
        <2> QED
            BY <1>1, <2>1, FollowsKept
    <1>6. CASE Exit \/ DeliverClose \/ QuitLeavesRun
        <2>1. ~alive'
            BY <1>6 DEF Exit, DeliverClose, QuitLeavesRun, HM!ProcessEnds, HM!DestroyWindow,
               HM!CallSync, HM!windows, Control
        <2> QED
            BY <2>1 DEF Follows
    <1> QED
        BY <1>2, <1>3, <1>4, <1>5, <1>6, ThreadCases

LEMMA FollowsWorld ==
    ASSUME ThreadInv, Follows, WorldStep
    PROVE  Follows'
    <1>1. [Next]_vars
        BY DEF Next
    <1>2. CASE SignalQuit \/ OtherApplication \/ \E r \in held : Press(r)
        <2>1. UNCHANGED <<mons, memory, layouts, fingerprint, alive, displayMsg, up, then>>
            BY <1>2 DEF SignalQuit, OtherApplication, Press, HM!ForeignRegister,
               HM!ForeignUnregister, HM!locals, manager, thread, mail, files
        <2> QED
            BY <1>1, <2>1, FollowsKept
    <1>3. CASE \E f \in Setup : ChangeDisplay(f)
        BY <1>3 DEF ChangeDisplay, manager, Follows
    <1>4. CASE Kill \/ Start
        BY <1>4 DEF Kill, Start, Follows
    <1> QED
        BY <1>2, <1>3, <1>4 DEF WorldStep

FollowInv == ThreadInv /\ Distinct /\ Follows

LEMMA FollowNext == FollowInv /\ [Next]_vars => FollowInv'
    <1> SUFFICES ASSUME FollowInv, [Next]_vars
                 PROVE  FollowInv'
        OBVIOUS
    <1>1. ThreadInv' /\ Distinct'
        BY ThreadNext, DistinctNext DEF FollowInv
    <1>2. CASE Next
        BY <1>1, <1>2, FollowsUser, FollowsThread, FollowsWorld DEF FollowInv, Next
    <1>3. CASE UNCHANGED vars
        BY <1>1, <1>3, FollowsKept DEF FollowInv, vars, manager, thread, mail, files
    <1> QED
        BY <1>2, <1>3

LEMMA FollowState ==
    ASSUME FollowInv, M!RegisteredIsHeld, M!AllAccountedFor, M!HeldIsRegistered, M!Exclusive
    PROVE  HotkeysFollowSetup
    <1> SUFFICES ASSUME UpToDate
                 PROVE  /\ {r[1] : r \in held} = DOMAIN registered
                        /\ {<<registered[r[1]], r[2]>> : r \in held}
                              = {w \in Wanted : w[1] \notin unavailable}
                        /\ unavailable \subseteq {w[1] : w \in Wanted}
        BY DEF HotkeysFollowSetup
    <1> DEFINE ls == memory.layouts
               A  == Active(ls, mons)
    <1>1. pc = "idle" /\ M!NoFault /\ alive /\ fingerprint = mons /\ layouts = ls /\ DistinctIds(ls)
        BY DEF UpToDate, Waiting, HM!Idle, HM!NoFault, M!NoFault, FollowInv, Follows, Distinct
    <1>2. M!Synced /\ todo = {} /\ held \subseteq Nat \X Combo
        BY <1>1 DEF M!Synced, FollowInv, ThreadInv, M!TypeInv, M!LocalsOK, M!TypeOK, M!WindowsOK
    <1>3. M!Done = A
        BY <1>1, <1>2 DEF M!Done, M!Active, M!Bound, Active, Bound
    <1>4. Wanted = {<<ls[i].id, Parse[ls[i].hotkey]>> : i \in A}
        BY DEF Wanted
    <1>5. A \subseteq DOMAIN ls
        BY DEF Active
    <1>6. ASSUME NEW r \in held
          PROVE  /\ r[1] \in DOMAIN registered
                 /\ \E i \in A : registered[r[1]] = ls[i].id /\ r[2] = Parse[ls[i].hotkey]
        <2>1. r[1] # M!probeId
            BY <1>1 DEF M!HeldIsRegistered, M!HeldUnder
        <2> QED
            BY <1>1, <1>2, <1>3, <2>1 DEF M!HeldIsRegistered, M!HeldMatches
    <1>7. ASSUME NEW id \in DOMAIN registered
          PROVE  \E i \in A : /\ registered[id] = ls[i].id
                              /\ <<id, Parse[ls[i].hotkey]>> \in held
        BY <1>1, <1>2, <1>3 DEF M!RegisteredIsHeld
    <1>8. \A id \in DOMAIN registered : registered[id] \notin unavailable
        BY <1>1, <1>2 DEF M!Exclusive, M!DistinctIds, DistinctIds
    <1>9. {registered[id] : id \in DOMAIN registered} \cup unavailable = {ls[i].id : i \in A}
        BY <1>1, <1>2, <1>3 DEF M!AllAccountedFor
    <1> HIDE DEF A, ls
    <1>10. {r[1] : r \in held} = DOMAIN registered
        <2>1. ASSUME NEW id \in DOMAIN registered PROVE \E r \in held : r[1] = id
            BY <1>7
        <2> QED
            BY <1>6, <2>1
    <1>11. ASSUME NEW r \in held
           PROVE  <<registered[r[1]], r[2]>> \in {w \in Wanted : w[1] \notin unavailable}
        BY <1>4, <1>6, <1>8
    <1>12. ASSUME NEW w \in Wanted, w[1] \notin unavailable
           PROVE  \E r \in held : w = <<registered[r[1]], r[2]>>
        <2>1. PICK i \in A : w = <<ls[i].id, Parse[ls[i].hotkey]>>
            BY <1>4
        <2>2. PICK id \in DOMAIN registered : registered[id] = ls[i].id
            BY <1>9, <1>12, <2>1
        <2>3. PICK j \in A : /\ registered[id] = ls[j].id
                             /\ <<id, Parse[ls[j].hotkey]>> \in held
            BY <1>7
        <2>4. i = j
            BY <1>1, <1>5, <2>2, <2>3 DEF DistinctIds
        <2> QED
            BY <2>1, <2>2, <2>3, <2>4
    <1>13. unavailable \subseteq {w[1] : w \in Wanted}
        <2>1. ASSUME NEW id \in unavailable PROVE \E w \in Wanted : w[1] = id
            <3>1. PICK i \in A : id = ls[i].id
                BY <1>9
            <3> DEFINE w == <<ls[i].id, Parse[ls[i].hotkey]>>
            <3>2. w \in Wanted /\ w[1] = id
                BY <1>4, <3>1
            <3> QED
                BY <3>2
        <2> QED
            BY <2>1
    <1> QED
        BY <1>10, <1>11, <1>12, <1>13

(***************************************************************************)
(* Whenever the thread waits and has heard of every change, the            *)
(* combinations Windows has for it are those of the stored layouts of the  *)
(* setup in use, each under the id of its own layout, minus those marked   *)
(* unavailable.  That ids are distinct is what NewID is for; a file edited *)
(* by hand may break it, and then a mark does not say which of two layouts *)
(* it is about.                                                            *)
(***************************************************************************)
THEOREM HotkeysFollowSetupAlways ==
    ASSUME \A f \in InitialFiles : DistinctIds(f.layouts)
    PROVE  Spec => []HotkeysFollowSetup
    <1>1. Init => FollowInv
        BY ThreadInit DEF FollowInv, Distinct, Follows, Init
    <1>2. Spec => []FollowInv
        BY <1>1, FollowNext, PTL DEF Spec
    <1>3. M!Spec => [](M!RegisteredIsHeld /\ M!AllAccountedFor /\ M!HeldIsRegistered /\ M!Exclusive)
        BY ManagerAssumptions, M!RegisteredIsHeldAlways, M!AllAccountedForAlways,
           M!HeldIsRegisteredAlways, M!ExclusiveAlways, PTL
    <1> QED
        BY <1>2, <1>3, CallsTheManager, FollowState, PTL
=============================================================================
