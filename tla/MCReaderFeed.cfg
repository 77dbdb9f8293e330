SPECIFICATION LiveSpec
CONSTANTS
    Texts <- MCTexts
    HeaderLines = 1
    ReadZero = FALSE
    MaxRead = 2
    MaxGen = 2
INVARIANTS RecordsAsSent HeadersAreShown ReplacedIsGone
PROPERTIES ReloadEnds
CHECK_DEADLOCK FALSE
