\* One command line, two isolated services, one address, two instances, two failures.
SPECIFICATION Spec
CONSTANTS
    Services = {s1, s2}
    Clients = {k}
    Resident = {}
    Pids = {p1, p2}
    IPs = {1}
    Isolated = TRUE
    Ported = {}
    Reconciling = FALSE
    FaultKinds = {"spawn", "dns", "policy", "sql", "crash"}
    MaxFaults = 2
    NoPid = NoPid
    NoService = NoService
SYMMETRY Symmetry
INVARIANTS PidOwnership SingleInstance NoOrphan UniqueIPs DestroyLeavesNothing
PROPERTIES StableIp PromiseKept
CHECK_DEADLOCK FALSE
