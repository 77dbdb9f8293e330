CONSTANTS
    Lists <- MCLists
    MaxCount = 1
    Queries = {none, qa}
    EmptyQuery = none
    MergerCacheEntries = 1
    MaxRequests = 3
SPECIFICATION Spec
INVARIANTS AnswersItsRequest NothingIsDropped
PROPERTIES NewestIsShown StopEnds ImplementsLatestWins
CHECK_DEADLOCK FALSE
