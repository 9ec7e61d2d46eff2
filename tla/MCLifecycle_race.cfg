\* The API client, a command line and the loop at once, one process, a failing refresh.
SPECIFICATION Spec
CONSTANTS
    Services = {s1}
    Clients = {d, k}
    Resident = {d}
    Pids = {p1}
    IPs = {1}
    Isolated = TRUE
    Ported = {}
    Reconciling = TRUE
    FaultKinds = {"policy"}
    MaxFaults = 1
    NoPid = NoPid
    NoService = NoService
SYMMETRY PidSymmetry
INVARIANTS TypeOK RowsAgree FailureIsReal
PROPERTIES NeverResurrected
CHECK_DEADLOCK FALSE
