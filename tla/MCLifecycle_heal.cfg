\* The loop beside a command line: crashes of services are noticed.
SPECIFICATION FairSpec
CONSTANTS
    Services = {s1}
    Clients = {k}
    Resident = {}
    Pids = {p1, p2}
    IPs = {1}
    Isolated = FALSE
    Ported = {s1}
    Reconciling = TRUE
    FaultKinds = {"spawn", "sql", "crash"}
    MaxFaults = 1
    NoPid = NoPid
    NoService = NoService
INVARIANTS RowsAgree
PROPERTIES CrashIsNoticed Settles NeverResurrected
CHECK_DEADLOCK FALSE
