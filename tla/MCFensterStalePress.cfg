CONSTANTS
    s1 = s1
    s2 = s2
    c1 = c1
    c2 = c2
    a = a
    b = b
    m = m
    n = n
    Combo = {c1, c2}
    Zero = Zero
    Invalid = Invalid
    Text = {"c1", "C-1", "c2", "?", ""}
    Parse <- MCParse
    Canonical <- MCCanonical
    LayoutId = {a, b}
    Name = {m, n}
    Setup = {s1, s2}
    NoSetup = NoSetup
    None = None
    InitialFiles <- MCTwoCombos
    MaxLayouts = 2
    MaxPosted = 1
    MaxEdits = 0
    MaxChanges = 1
    MaxPresses = 1
    MaxOthers = 0
    MaxKills = 0
    MaxStarts = 0
    MaxSaveFails = 0
    MaxFaults = 0
SPECIFICATION Spec
CHECK_DEADLOCK FALSE
INVARIANT
    PressRestoresItsLayout
