CONSTANTS
    Items = {0, 1, 2, 3, 4, 5}
    Lists <- MCLists
    MaxRows = 4
    ScrollOff = 2
    Cycle = TRUE
    Reverse = FALSE
    Multis = {0, 1, 2}
    Positions <- MCPositions
    MaxGen = 1
    MaxPicks = 3
    MaxBatch = 2
SPECIFICATION Spec
INVARIANTS FrameIsArranged RepaintIsStable
PROPERTIES SelectionKept
