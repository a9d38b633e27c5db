SPECIFICATION RuntimeSpec
CONSTANTS
    Sandboxes = {a, b}
    ProcPids = {p, q}
    VSizes = {small, large}
    MaxProcs = 3
    MaxMoves = 1
    Nobody = Nobody
PROPERTIES StopsItsOwn
CHECK_DEADLOCK FALSE
