-------------------------------- MODULE Store --------------------------------
(***************************************************************************)
(* The operations of internal/store/store.go on the list of layouts, and   *)
(* restoreOrder of cmd/fenster/main.go, which undoes a Delete with them.   *)
(* A layout is a record with at least the fields id and ticked (the        *)
(* Include checkbox of its window).                                        *)
(***************************************************************************)
EXTENDS Naturals, Sequences, SequencesExt

Ids(ls) == {ls[i].id : i \in DOMAIN ls}

\* The first layout with the id, which exists.
IndexOf(ls, id) ==
    CHOOSE i \in DOMAIN ls :
        ls[i].id = id /\ \A j \in 1 .. i - 1 : ls[j].id # id

Get(ls, id)             == ls[IndexOf(ls, id)]
Add(ls, l)              == Append(ls, l)
Replace(ls, id, l)      == [ls EXCEPT ![IndexOf(ls, id)] = l]
Delete(ls, id)          == RemoveAt(ls, IndexOf(ls, id))
SetInclude(ls, id, tck) == [ls EXCEPT ![IndexOf(ls, id)].ticked = tck]

\* Mutant of RestoreOrder: what was deleted is added back at the end.
RestorePresence(ls, order) ==
    ls \o SelectSeq(order, LAMBDA l : l.id \notin Ids(ls))

\* Every layout still there is deleted by its id, one after the other.
Emptied(ls) ==
    LET rest[k \in 0 .. Len(ls)] ==
            IF k = 0 THEN ls ELSE Delete(rest[k - 1], ls[k].id)
    IN  rest[Len(ls)]

\* Then the old ones are added.
RestoreOrder(ls, order) == Emptied(ls) \o order
=============================================================================
