--------------------------- MODULE MCHotkeyManager ---------------------------
(***************************************************************************)
(* Small instances of HotkeyManager: two monitor setups, two combinations, *)
(* and stored texts of every kind Parse tells apart: the canonical ones, a *)
(* hand-edited spelling of c1, one that does not parse, and none.          *)
(***************************************************************************)
EXTENDS HotkeyManager, TLC

CONSTANTS s1, s2, c1, c2, a, b, c

MCParse == [t \in Text |->
              CASE t \in {"c1", "C-1"} -> c1
                [] t = "c2"            -> c2
                [] t = "?"             -> Invalid
                [] t = ""              -> Zero]

MCCanonical == [k \in Combo \cup {Zero} |->
                  CASE k = c1 -> "c1" [] k = c2 -> "c2" [] k = Zero -> ""]

MCLayout == [id : LayoutId, setup : Setup, hotkey : Text]

L(id, f, t) == [id |-> id, setup |-> f, hotkey |-> t]

\* Every list of two layouts of the first setup, and lists that mix setups,
\* repeat a combination and are longer than the number of combinations.
MCLayoutLists ==
    {<<>>}
      \cup {<<L(a, s1, t), L(b, s1, u)>> : t, u \in Text}
      \cup {<<L(a, s1, t), L(b, s2, u), L(c, s1, "c1")>> : t, u \in {"C-1", "c2"}}

\* A few lists, enough for a release that fails.
MCShortLists ==
    {<<>>,
     <<L(a, s1, "c1"), L(b, s2, "c1")>>,
     <<L(a, s1, "C-1"), L(b, s1, "c1"), L(c, s1, "c2")>>}
=============================================================================
