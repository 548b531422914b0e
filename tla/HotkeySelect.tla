---------------------------- MODULE HotkeySelect ----------------------------
(***************************************************************************)
(* Which stored hotkeys should be live: Active and Conflict of             *)
(* internal/hotkey/select.go, over the text conversions of                 *)
(* internal/hotkey/hotkey.go.                                              *)
(*                                                                         *)
(* A layout is a record with at least the fields id, setup (the            *)
(* fingerprint of its monitor setup) and hotkey (the stored text).  The    *)
(* texts are the members of Text; what Parse makes of each is the function *)
(* Parse, and Canonical is the text the program writes for a combination.  *)
(***************************************************************************)
EXTENDS Naturals, Sequences

CONSTANTS
    Combo,        \* combinations RegisterHotKey can be asked for
    Zero,         \* the zero Hotkey: "no hotkey"
    Invalid,      \* what Parse returns instead of a Hotkey on an error
    Text,         \* the hotkey strings that may be stored in layouts.json
    Parse,        \* Text -> Combo, Zero or Invalid
    Canonical     \* Combo or Zero -> Text

(***************************************************************************)
(* A layout written by the program holds the canonical text of its         *)
(* combination, and parsing that text gives the combination back.  The     *)
(* converse is not assumed: a hand-edited file may spell a combination in  *)
(* any way Parse accepts.                                                  *)
(***************************************************************************)
ASSUME HotkeyTextAssumption ==
    /\ Zero \notin Combo
    /\ Invalid \notin Combo \cup {Zero}
    /\ Parse \in [Text -> Combo \cup {Zero, Invalid}]
    /\ Canonical \in [Combo \cup {Zero} -> Text]
    /\ \A c \in Combo \cup {Zero} : Parse[Canonical[c]] = c

-----------------------------------------------------------------------------
\* The layout at i is one of the setup f and stores a usable combination.
Bound(layouts, f, i) ==
    /\ layouts[i].setup = f
    /\ Parse[layouts[i].hotkey] \in Combo

\* Mutant of Active: a repeated combination is not skipped.
ActiveWithDuplicates(layouts, f) == {i \in DOMAIN layouts : Bound(layouts, f, i)}

(***************************************************************************)
(* Active returns bindings in store order; here it is the set of positions *)
(* it selects, and the combination and the layout are read off a position. *)
(* A combination that an earlier layout of the setup already has is        *)
(* skipped: the first in store order wins.                                 *)
(***************************************************************************)
Active(layouts, f) ==
    {i \in DOMAIN layouts :
        /\ Bound(layouts, f, i)
        /\ \A j \in 1 .. i - 1 :
              Bound(layouts, f, j) =>
                  Parse[layouts[j].hotkey] # Parse[layouts[i].hotkey]}

\* The layouts of setup f, other than exceptID, that already use hk.
Conflicts(layouts, f, hk, exceptID) ==
    IF hk = Zero THEN {}
    ELSE {i \in DOMAIN layouts :
             /\ layouts[i].id # exceptID
             /\ layouts[i].setup = f
             /\ Parse[layouts[i].hotkey] = hk}
=============================================================================
