SPECIFICATION Spec
CONSTANTS
    Items = 3
    Endless = {3}
    Parts = 2
    CacheMax = 1
    PrefetchN = 0
    Started = TRUE
    Keys = {"move","touch","toggle","preview","refresh","resize","result","quit"}
    MaxInputs = 3
    MishapSets = {{}, {"late_group", "closes_output"}}
INVARIANTS PaneIsCurrent CacheIsWhole
PROPERTIES SettledPane
CHECK_DEADLOCK FALSE
