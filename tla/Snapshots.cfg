SPECIFICATION MCSpec
CONSTANTS
    None = None
    Commands <- MCCommands
    Starts <- MCStarts
    Configured <- MCConfigured
    Expiry <- MCExpiry
    MaxTime = 2
    MaxPids = 3
    MaxFaults = 2
    Candidates = {c1, c2}
    U53Max = 3
    MaxCrashes = 3
INVARIANTS RespawnsOnlyUnserved ChildHasItsSnapshots StaleAreStopped
PROPERTIES HandoffSettlesInTime EveryCommitFences
CHECK_DEADLOCK FALSE
