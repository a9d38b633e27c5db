SPECIFICATION FairSpec
CONSTANTS
    i1 = i1
    i2 = i2
    i3 = i3
    n1 = n1
    n2 = n2
    Ids = {i1, i2, i3}
    Nonces = {n1, n2}
    Commands <- MCCommands
    MaxVersions = 2
    MaxTime = 1
    Lifespan = 1
    MaxFaults = 1
    None = None
INVARIANTS OneGrantAhead
PROPERTIES ImplementsAuthority PublishedAfterRestart
