SPECIFICATION LiveSpec
CONSTANTS
    Items = 2
    Endless = {2}
    Parts = 1
    CacheMax = 1
    PrefetchN = 1
    Started = TRUE
    Keys = {"move","window","quit"}
    MaxInputs = 2
    MishapSets = {{"spawn_fails"}, {"late_kill"}}
INVARIANTS PrefetchedIsWhole
PROPERTIES RequestIsAnswered CommandsEnd
CHECK_DEADLOCK FALSE
