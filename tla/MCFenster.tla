------------------------------ MODULE MCFenster ------------------------------
(***************************************************************************)
(* Small instances of Fenster: two monitor setups, two layouts, two        *)
(* combinations, of which c1 can also be spelled by hand as C-1.           *)
(***************************************************************************)
EXTENDS Fenster, TLC

CONSTANTS s1, s2, c1, c2, a, b, m, n

MCParse == [t \in Text |->
              CASE t \in {"c1", "C-1"} -> c1
                [] t = "c2"            -> c2
                [] t = "?"             -> Invalid
                [] t = ""              -> Zero]

MCCanonical == [k \in Combo \cup {Zero} |->
                  CASE k = c1 -> "c1" [] k = c2 -> "c2" [] k = Zero -> ""]

L(id, f, t) == [id |-> id, setup |-> f, hotkey |-> t, name |-> m, ticked |-> TRUE]
F(ls) == [layouts |-> ls, minimizeOthers |-> "absent"]

\* The same combination in both setups.
MCTwoSetups == {F(<<L(a, s1, "c1"), L(b, s2, "c1")>>)}

\* A combination spelled by hand.
MCByHand == {F(<<L(a, s2, "C-1")>>)}

\* Both of these: the second leaves room for one more layout.
MCStart == MCTwoSetups \cup MCByHand

\* The same number in the order of two setups, for different combinations.
MCTwoCombos == {F(<<L(a, s1, "c1"), L(b, s2, "c2")>>)}
=============================================================================
