SPECIFICATION FairSpec
CONSTANTS
    MaxVersions = 2
    MaxFaults = 2
    None = None
INVARIANTS ExecutedOnce
PROPERTIES ImplementsOutcome Settles FenceHeals
CHECK_DEADLOCK FALSE
