------------------------------- MODULE Matching -------------------------------
(***************************************************************************)
(* MatchEntries of internal/layout/match.go: which open window gets which  *)
(* entry of a saved layout.  Three passes go over the entries in the order *)
(* they were saved, each over what the passes before have left: the exact  *)
(* title, the most similar title, and any window of the executable.        *)
(*                                                                         *)
(* An executable stands for a path up to case (EqualFold).  Of the titles  *)
(* only two things matter: whether they are equal, and how similar they    *)
(* are once NormalizeTitle has stripped markers and the application's name *)
(* (module EditDistance).                                                  *)
(***************************************************************************)
EXTENDS Naturals, Sequences

CONSTANTS
    Exe, Title,
    Similarity,           \* how similar two normalized titles are
    SimilarityThreshold,
    EntryLists,           \* the lists of entries a layout may hold
    WindowLists           \* the lists of windows EnumWindows may return

Entry  == [exe : Exe, title : Title]
Window == [exe : Exe, title : Title, eligible : BOOLEAN]

ASSUME MatchingAssumption ==
    /\ Similarity \in [Title \X Title -> Nat]
    /\ SimilarityThreshold \in Nat
    /\ EntryLists \subseteq Seq(Entry)
    /\ WindowLists \subseteq Seq(Window)

VARIABLES
    entries, live,        \* the arguments
    candidates,           \* the eligible windows
    taken,                \* the candidates an entry has claimed
    matched,              \* the candidate of each entry, or 0
    pass,                 \* 0 collects the candidates, 1 to 3 match, 4 is the end
    at                    \* where the loop of the pass is

vars == <<entries, live, candidates, taken, matched, pass, at>>

\* Mutant of SameExe: a claimed window can be claimed again.
SameExeTaken(i, j) == candidates[j].exe = entries[i].exe

SameExe(i, j) == j \notin taken /\ candidates[j].exe = entries[i].exe

Score(i, j) == Similarity[<<entries[i].title, candidates[j].title>>]

\* Mutant of Resembles: any title will do.
ResemblesAtAll(i, j) == Score(i, j) >= 0

Resembles(i, j) == Score(i, j) >= SimilarityThreshold

\* What a pass asks of a window.
Suits(i, j) ==
    /\ SameExe(i, j)
    /\ pass = 1 => candidates[j].title = entries[i].title
    /\ pass = 2 => Resembles(i, j)

Choices(i) == {j \in DOMAIN candidates : Suits(i, j)}

\* Mutant of Precedes: ties go to the last window.
PrecedesLast(i, j, k) ==
    \/ pass = 2 /\ Score(i, j) > Score(i, k)
    \/ (pass = 2 => Score(i, j) = Score(i, k)) /\ j >= k

\* Pass 2 takes the best score, and every pass the first in enumeration order.
Precedes(i, j, k) ==
    \/ pass = 2 /\ Score(i, j) > Score(i, k)
    \/ (pass = 2 => Score(i, j) = Score(i, k)) /\ j <= k

IsPick(i, j) == j \in Choices(i) /\ \A k \in Choices(i) : Precedes(i, j, k)

-----------------------------------------------------------------------------
Init ==
    /\ entries \in EntryLists
    /\ live \in WindowLists
    /\ candidates = <<>>
    /\ taken = {}
    /\ matched = [i \in DOMAIN entries |-> 0]
    /\ pass = 0
    /\ at = 1

Collect ==
    /\ pass = 0
    /\ at <= Len(live)
    /\ candidates' = IF live[at].eligible THEN Append(candidates, live[at]) ELSE candidates
    /\ at' = at + 1
    /\ UNCHANGED <<entries, live, taken, matched, pass>>

NextPass ==
    /\ pass < 4
    /\ at > IF pass = 0 THEN Len(live) ELSE Len(entries)
    /\ pass' = pass + 1
    /\ at' = 1
    /\ UNCHANGED <<entries, live, candidates, taken, matched>>

\* The entry has a window already, or the pass has none for it.
Skip ==
    /\ pass \in 1 .. 3
    /\ at <= Len(entries)
    /\ matched[at] # 0 \/ Choices(at) = {}
    /\ at' = at + 1
    /\ UNCHANGED <<entries, live, candidates, taken, matched, pass>>

Claim(j) ==
    /\ pass \in 1 .. 3
    /\ at <= Len(entries)
    /\ matched[at] = 0
    /\ IsPick(at, j)
    /\ taken' = taken \cup {j}
    /\ matched' = [matched EXCEPT ![at] = j]
    /\ at' = at + 1
    /\ UNCHANGED <<entries, live, candidates, pass>>

Next ==
    \/ Collect
    \/ NextPass
    \/ Skip
    \/ \E j \in DOMAIN candidates : Claim(j)

Spec == Init /\ [][Next]_vars

-----------------------------------------------------------------------------
(***************************************************************************)
(* Type invariant.  Only eligible windows are candidates, so fenster's own *)
(* windows and the shell are neither placed nor minimized.                 *)
(***************************************************************************)
TypeOK ==
    /\ entries \in Seq(Entry)
    /\ live \in Seq(Window)
    /\ candidates \in Seq(Window)
    /\ \A j \in DOMAIN candidates : candidates[j].eligible
    /\ taken \subseteq DOMAIN candidates
    /\ matched \in [DOMAIN entries -> {0} \cup DOMAIN candidates]
    /\ pass \in 0 .. 4
    /\ at \in Nat \ {0}

(***************************************************************************)
(* "A live window is only ever claimed by one saved entry", and taken,     *)
(* which decides what is minimized, names exactly the claimed windows.     *)
(***************************************************************************)
OneToOne ==
    /\ taken = {matched[i] : i \in DOMAIN entries} \ {0}
    /\ \A i, k \in DOMAIN entries :
          i # k /\ matched[i] = matched[k] => matched[i] = 0

\* How good a window is for an entry: the pass that could choose it.
Quality(i, j) ==
    IF candidates[j].exe # entries[i].exe THEN 4
    ELSE IF candidates[j].title = entries[i].title THEN 1
    ELSE IF Score(i, j) >= SimilarityThreshold THEN 2
    ELSE 3

\* Whether the entry, or the window, has to make do with less than q.
EntryLacks(i, q)  == matched[i] = 0 \/ Quality(i, matched[i]) > q
WindowLacks(j, q) == \A k \in DOMAIN entries : matched[k] = j => Quality(k, j) > q

\* Both would be better off with each other, at quality q.
Blocks(i, j, q) == Quality(i, j) = q /\ EntryLacks(i, q) /\ WindowLacks(j, q)

(***************************************************************************)
(* The passes are greedy, and yet nothing is wasted: in the end no entry   *)
(* and window of one executable would both do better with each other.  In  *)
(* particular no entry is "nicht offen" while a window of its executable   *)
(* is minimized as extraneous, and no exact title is given away.           *)
(***************************************************************************)
Stable ==
    pass = 4 => \A i \in DOMAIN entries, j \in DOMAIN candidates, q \in 1 .. 3 :
                    ~Blocks(i, j, q)

(***************************************************************************)
(* A layout restored right after it was saved moves nothing: Capture makes *)
(* entry k of candidate k, and each gets that window back, also where      *)
(* windows share executable and title.                                     *)
(***************************************************************************)
Captured ==
    /\ Len(entries) = Len(candidates)
    /\ \A k \in DOMAIN entries :
          entries[k] = [exe |-> candidates[k].exe, title |-> candidates[k].title]

RoundTrip == pass = 4 /\ Captured => \A k \in DOMAIN entries : matched[k] = k

(***************************************************************************)
(* "Entry ordinal 0 claims the first free window, ordinal 1 the next":     *)
(* entries of one executable that found no title get their windows in the  *)
(* order they were saved in.                                               *)
(***************************************************************************)
OrderKept ==
    \A i, k \in DOMAIN entries :
        /\ i < k
        /\ matched[i] # 0 /\ matched[k] # 0
        /\ entries[i].exe = entries[k].exe
        /\ Quality(i, matched[i]) = 3 /\ Quality(k, matched[k]) = 3
        => matched[i] < matched[k]
=============================================================================
