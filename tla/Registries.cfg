SPECIFICATION MCSpec
CONSTANTS
    a = a
    b = b
    p = p
    q = q
    services = services
    None = None
    Apps = {a, b}
    Pins = {p, q}
    Policies = {services}
    Requests <- MCRequests
    ReadFaults = FALSE
    MaxReseeds = 1
    MaxInstalls = 1
    MaxFaults = 2
    Nothing = Nothing
    Celld = Celld
    Handlers = {h1, h2}
    Hosts = {w, u, v}
    SystemHosts = {w}
    Applications = {k, l}
    Nil = Nil
    MaxCalls = 3
    MaxErrors = 3
SYMMETRY Symmetry
INVARIANTS Projected NeverBothKinds RegistryIsLawful AcknowledgedHolds ServedIsAudited TellsApart
PROPERTIES StartupConverges AdmittedIsAccepted LoneChangeIsExact
