SPECIFICATION Spec
CONSTANTS
    ModifierKeys = {"control", "shift", "lwin", "rwin"}
    Keys <- MCKeys
    Taken <- MCTaken
    StoredTexts <- MCStoredTexts
    Pending = Pending
    Cancelled = Cancelled
    Cleared = Cleared
INVARIANTS PressedIsSaved ParseMeans
PROPERTY IsModalDialog
CHECK_DEADLOCK FALSE
