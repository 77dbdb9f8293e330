CONSTANTS
    MaxItems = 1
    MaxGen = 2
    MaxEdits = 1
    MaxBatches = 0
    Sync = FALSE
    Hits = {0}
    Bindings <- IdleBindings
    Batches <- NoKeys
SPECIFICATION LiveSpec
PROPERTIES ItemsAreSearched
CHECK_DEADLOCK FALSE
