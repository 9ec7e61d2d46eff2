\* A process spawned by the daemon itself.
SPECIFICATION FairSpec
CONSTANTS
    Services = {s1}
    Clients = {d}
    Resident = {d}
    Pids = {p1, p2}
    IPs = {1}
    Isolated = TRUE
    Ported = {s1}
    Reconciling = TRUE
    FaultKinds = {}
    MaxFaults = 0
    NoPid = NoPid
    NoService = NoService
PROPERTIES FailureEndsInFailed
CHECK_DEADLOCK FALSE
