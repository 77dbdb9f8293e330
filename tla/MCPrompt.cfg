SPECIFICATION LiveSpec
CONSTANTS
    MaxPending = 5
    Setups <- MCSetups
INVARIANTS KeysAreTyped BindingsAsWritten KillsCanBeYanked TriggersUnfold
PROPERTIES PendingIsDecided
CHECK_DEADLOCK FALSE
