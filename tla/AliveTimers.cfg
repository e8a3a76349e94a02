SPECIFICATION AliveSpec
CONSTANTS
    s1 = s1
    s2 = s2
    Rows <- TwoRows
    Alive <- Periods
    Bound = 8
    MaxEdits = 2
INVARIANTS
    AliveInv
    SilenceIsNoticed
