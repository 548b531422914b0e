CONSTANTS
    s1 = s1
    s2 = s2
    c1 = c1
    c2 = c2
    a = a
    b = b
    m = m
    n = n
    Combo = {c1}
    Zero = Zero
    Invalid = Invalid
    Text = {"c1", "C-1", "?", ""}
    Parse <- MCParse
    Canonical <- MCCanonical
    LayoutId = {a, b}
    Name = {m}
    Setup = {s1, s2}
    NoSetup = NoSetup
    None = None
    InitialFiles <- MCTwoSetups
    MaxLayouts = 2
    MaxPosted = 2
    MaxEdits = 1
    MaxChanges = 1
    MaxPresses = 1
    MaxOthers = 0
    MaxKills = 1
    MaxStarts = 1
    MaxSaveFails = 0
    MaxFaults = 0
SPECIFICATION FairSpec
CHECK_DEADLOCK FALSE
INVARIANT
    OneModal
PROPERTIES
    FollowsDisplay
    CloseEnds
