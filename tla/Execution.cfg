SPECIFICATION MCSpec
CONSTANTS
    None = None
    Processes = {p1, p2}
    Threads = {t1, t2}
    Requests <- MCRequests
    Enabled = {"kv", "sql", "logging"}
    Generations = {1, 2}
    Envelope = 4
    KvDelta = 1
    Growths = {2}
    Ttl = 1
    Retention = 1
    MaxOps = 2
    MaxTime = 1
    MaxFaults = 1
    Sandboxes = {a, b}
    ProcPids = {p, q}
    VSizes = {small, large}
    MaxProcs = 3
    MaxMoves = 1
    Nobody = Nobody
SYMMETRY Symmetry
INVARIANTS PidfileIsAccounted OnceUnlessOvertaken AnswersAreTrue Accounted
CHECK_DEADLOCK FALSE
