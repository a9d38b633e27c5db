SPECIFICATION FairSpec
CONSTANTS
    v1 = v1
    v2 = v2
    v3 = v3
    None = None
    Versions = {v1, v2, v3}
    Deadlines <- MCDeadlines
    MaxTime = 1
    MaxGrants = 3
    MaxFaults = 1
CHECK_DEADLOCK FALSE
INVARIANTS RetiredHasProof
PROPERTIES ImplementsSuccession TrackedAfterRestart DrainsSettle
