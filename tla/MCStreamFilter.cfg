CONSTANTS
    Consumers = {main}
    Main = main
    Specs <- MCSpecs
    Matching <- MCMatching
    WithAux = FALSE
    FirstIndex = 0
    ChunkSize = 2
    ArenaBytes = 8
    ColorRuns = 0
    NthRanges = 0
    MaxItems = 4
SPECIFICATION LiveSpec
INVARIANTS PrintedInOrder
PROPERTIES WakesAreNotLost
CHECK_DEADLOCK FALSE
