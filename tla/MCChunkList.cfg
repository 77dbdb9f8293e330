CONSTANTS
    Consumers = {c1}
    Specs <- MCSpecs
    WithAux = TRUE
    FirstIndex = 1
    ChunkSize = 2
    ArenaBytes = 4
    ColorRuns = 2
    NthRanges = 2
    MaxItems = 3
SPECIFICATION Spec
INVARIANTS NeverReallocates SnapshotIsPrefix PublishedIsSeen
PROPERTIES SealedNeverChanges ImplementsItemLog
CHECK_DEADLOCK FALSE
