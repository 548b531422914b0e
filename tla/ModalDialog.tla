----------------------------- MODULE ModalDialog -----------------------------
(***************************************************************************)
(* What a handler may rely on of a modal dialog: it ends once, with one of *)
(* the answers there are; and when the program has been told to quit it    *)
(* ends without one, and whoever waits outside is still told.              *)
(***************************************************************************)
CONSTANTS Answers, Cancelled, Pending

VARIABLES answer, quit

Init == answer = Pending /\ quit \in BOOLEAN

\* The user confirms or cancels.
Answer ==
    /\ answer = Pending
    /\ ~quit
    /\ answer' \in Answers \cup {Cancelled}
    /\ UNCHANGED quit

QuitArrives == quit' = TRUE /\ UNCHANGED answer

GiveUp ==
    /\ answer = Pending
    /\ quit
    /\ answer' = Cancelled
    /\ UNCHANGED quit

Next == Answer \/ QuitArrives \/ GiveUp

Safety == Init /\ [][Next]_<<answer, quit>>

Spec == Safety /\ WF_<<answer, quit>>(GiveUp)
==============================================================================
