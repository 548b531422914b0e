CONSTANTS
    s1 = s1
    s2 = s2
    c1 = c1
    c2 = c2
    a = a
    b = b
    c = c
    Combo = {c1, c2}
    Zero = Zero
    Invalid = Invalid
    Text = {"c1", "C-1", "c2", "?", ""}
    Parse <- MCParse
    Canonical <- MCCanonical
    LayoutId = {a, b, c}
    Layout <- MCLayout
    Setup = {s1, s2}
    LayoutLists <- MCLayoutLists
    MaxFaults = 2
SPECIFICATION Spec
INVARIANTS
    TypeOK
    HeldIsRegistered
    BalloonOnlyForNews
    RegisteredIsHeld
    AllAccountedFor
    ProbeNotForgotten
PROPERTY
    NeverBlocksItself
