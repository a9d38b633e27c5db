SPECIFICATION FairWatchdog
CONSTANTS
    Celld = {c}
    Wasmd = {w}
    Pids = {p, q}
    MaxPass = 1
    MaxProcs = 2
    RingMax = 1
    QuickReuse = FALSE
    Nobody = Nobody
PROPERTIES EndsTheMeasured OverLimitEnds
