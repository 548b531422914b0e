------------------------------- MODULE MCMenu --------------------------------
EXTENDS Menu

CONSTANTS l1, l2, k1, k2

\* The laptop; with a monitor to its right; with that one as the primary.
MCMonitor(x, w, primary, work) ==
    [x |-> x, y |-> 0, w |-> w, h |-> 1, scale |-> 100, primary |-> primary, work |-> work]

MCLaptop  == <<MCMonitor(0, 2, TRUE, "bottom")>>
MCDesk    == <<MCMonitor(0, 2, TRUE, "bottom"), MCMonitor(2, 3, FALSE, "bottom")>>
MCSwapped == <<MCMonitor(-2, 2, FALSE, "bottom"), MCMonitor(0, 3, TRUE, "bottom")>>

MCArrangements == {MCLaptop, MCDesk, MCSwapped}

\* The layouts were saved with the taskbar at the side, and with the monitors
\* listed the other way around.
MCSide    == <<MCMonitor(0, 2, TRUE, "side")>>
MCDeskToo == <<MCMonitor(2, 3, FALSE, "bottom"), MCMonitor(0, 2, TRUE, "bottom")>>

\* A name that reads like one with a hotkey.
MCForged == <<"name", [keys |-> k2, taken |-> FALSE]>>
MCNames == {<<"name">>, MCForged}

MCLiveLists == {<<"a">>}

MCLayout(id, ms, name, hotkey, windows) ==
    [id |-> id, name |-> name, setup |-> FingerprintOf(ms), monitors |-> ms,
     hotkey |-> hotkey, windows |-> windows]

MCBoth == <<[exe |-> "a", include |-> TRUE], [exe |-> "b", include |-> FALSE]>>

MCFirst  == MCLayout(l1, MCSide, MCForged, "k1", MCBoth)
MCSecond == MCLayout(l2, MCDeskToo, <<"name">>, "K1", <<>>)
MCInitialLayouts == {<<>>, <<MCFirst, MCSecond>>}

MCEntries == {NoValue, Entry(Exe, FALSE, TRUE), Entry(OtherExe, TRUE, FALSE)}

MCText == {"none", "k1", "K1", "k2"}
MCParse == [t \in MCText |-> CASE t = "none" -> Zero [] t \in {"k1", "K1"} -> k1
                               [] OTHER -> k2]
MCCanonical == [c \in {k1, k2, Zero} |->
                  CASE c = k1 -> "k1" [] c = k2 -> "k2" [] OTHER -> "none"]
==============================================================================
