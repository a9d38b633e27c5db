SPECIFICATION FairSpec
CONSTANTS
    c1 = c1
    c2 = c2
    p1 = p1
    p2 = p2
    b1 = b1
    b2 = b2
    Contents = {c1, c2}
    Bindings = {p1, p2}
    Blobs = {b1, b2}
    Requests <- MCRequests
    MaxSeq = 2
    MaxTime = 3
    TTL = 2
    MaxFaults = 2
    OwnerOps = {"collect", "extend"}
    None = None
INVARIANTS TypeOK JournalNeverAhead VisibleHasWitnesses AckedStaysVisible OneInFlight
PROPERTIES NoLatePublication SequenceNeverReused ImplementsLedger Settles
