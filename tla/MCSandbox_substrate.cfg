\* A command line and the daemon on one service: one failure, one fork or one overlap.
SPECIFICATION Spec
CONSTANTS
    Services = {s1}
    Callers = {a, b}
    Resident = {b}
    Trees = {p1, p2}
    Servers = {v1, v2}
    FaultKinds = {"fork", "overlap", "build", "spawn", "mount", "dns", "packet", "policy", "crash"}
    MaxFaults = 1
    NoService = NoService
    NoTree = NoTree
    NoServer = NoServer
    Torn = Torn
INVARIANTS TypeOK Confined ExitIsPending KeepsItsNetwork SetupUndisturbed NothingLeft ServedInUse IdleStops
PROPERTIES StartServes
SYMMETRY PidSymmetry
CHECK_DEADLOCK FALSE
