CONSTANTS
    x = x
    y = y
    t1 = t1
    t2 = t2
    t3 = t3
    Exe = {x, y}
    Title = {t1, t2, t3}
    Similarity <- MCSimilarity
    SimilarityThreshold = 6
    EntryLists <- MCEntryLists
    WindowLists <- MCWindowLists
SPECIFICATION Spec
CHECK_DEADLOCK FALSE
INVARIANTS
    OneToOne
    Stable
    RoundTrip
    OrderKept
