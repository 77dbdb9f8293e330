CONSTANTS
    MaxItems = 1
    MaxGen = 2
    MaxEdits = 1
    MaxBatches = 1
    Sync = FALSE
    Hits = {0}
    Bindings <- MCBindings
    Batches <- MCBatches
SPECIFICATION Spec
INVARIANTS NothingUnsearched ListsLoadWhole
PROPERTIES AcceptSeesQuery
CHECK_DEADLOCK FALSE
