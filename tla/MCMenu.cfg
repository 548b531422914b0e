SPECIFICATION Spec
CONSTANTS
    l1 = l1  l2 = l2  k1 = k1  k2 = k2
    LayoutId = {l1, l2}
    Combo = {k1, k2}
    Zero = Zero
    Invalid = Invalid
    Unknown = Unknown
    Exe = "fenster"
    OtherExe = "other"
    Text <- MCText
    Parse <- MCParse
    Canonical <- MCCanonical
    Entries <- MCEntries
    Arrangements <- MCArrangements
    Names <- MCNames
    LiveLists <- MCLiveLists
    InitialLayouts <- MCInitialLayouts
    MaxLayouts = 2
    MaxEdits = 1
    MaxEvents = 1
    MaxFaults = 1
INVARIANTS RowsAct Filed
PROPERTIES KeysAreLive TicksAreTrue
CHECK_DEADLOCK FALSE
