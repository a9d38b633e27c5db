SPECIFICATION KeysSpec
CONSTANTS
    MaxCalls = 2
    MaxErrors = 2
    Nil = Nil
INVARIANT RecoveryTellsApart
