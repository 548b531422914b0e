CONSTANTS
    r1 = r1
    r2 = r2
    r3 = r3
    Rune = {r1, r2, r3}
    MaxLen = 3
SPECIFICATION Spec
SYMMETRY MCSymmetry
CHECK_DEADLOCK FALSE
INVARIANTS
    ScoreIsSimilarity
