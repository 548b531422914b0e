------------------------------ MODULE MCMatching ------------------------------
(***************************************************************************)
(* A small instance of Matching: an executable with three titles, the      *)
(* middle one similar to both others, and a second executable; up to three *)
(* entries and three windows, of which one kind is not eligible.           *)
(***************************************************************************)
EXTENDS Matching, TLC

CONSTANTS x, y, t1, t2, t3

MCSimilarity ==
    [p \in Title \X Title |->
        IF p[1] = p[2] THEN 10
        ELSE CASE {p[1], p[2]} = {t1, t2} -> 8
               [] {p[1], p[2]} = {t2, t3} -> 6
               [] {p[1], p[2]} = {t1, t3} -> 5]

UpTo3(S) == {<<>>} \cup {<<u>> : u \in S} \cup {<<u, v>> : u, v \in S}
                   \cup {<<u, v, w>> : u, v, w \in S}

MCEntries == {[exe |-> x, title |-> t] : t \in Title} \cup {[exe |-> y, title |-> t1]}

MCWindows == {[exe |-> e.exe, title |-> e.title, eligible |-> TRUE] : e \in MCEntries}
               \cup {[exe |-> x, title |-> t1, eligible |-> FALSE]}

MCEntryLists  == UpTo3(MCEntries)
MCWindowLists == UpTo3(MCWindows)
=============================================================================
