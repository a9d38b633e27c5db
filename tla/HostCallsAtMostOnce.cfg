SPECIFICATION Spec
CONSTANTS
    None = None
    Processes = {p1, p2}
    Threads = {t1, t2}
    Requests <- MCRequests
    Enabled = {"kv", "sql", "logging"}
    Generations = {1, 2}
    Envelope = 4
    KvDelta = 1
    Growths = {2}
    Ttl = 1
    Retention = 1
    MaxOps = 2
    MaxTime = 1
    MaxFaults = 1
SYMMETRY Symmetry
INVARIANTS AtMostOnce
CHECK_DEADLOCK FALSE
