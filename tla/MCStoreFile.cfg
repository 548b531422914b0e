CONSTANTS
    e = e
    v1 = v1
    v2 = v2
    i1 = i1
    i2 = i2
    i3 = i3
    i4 = i4
    Content = {e, v1, v2}
    EmptyFile = e
    Corrupt = Corrupt
    Newer = Newer
    Incompatible = Incompatible
    Missing = Missing
    NoMemory = NoMemory
    Torn = Torn
    Inode = {i1, i2, i3, i4}
SPECIFICATION Spec
SYMMETRY MCSymmetry
INVARIANTS
    MemoryMatchesFile
PROPERTIES
    NewerUntouched
    ForeignKept
    Implements
