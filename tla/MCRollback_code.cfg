\* Nothing fails: a rollback to a snapshot of the release before.
SPECIFICATION Spec
CONSTANTS
    r1 = r1
    r2 = r2
    data = data
    extra = extra
    Releases = {r1, r2}
    Volumes = {data, extra}
    Lists <- ListsOf
    Runtime = runtime
    NoRelease = NoRelease
    Isolated = FALSE
    FaultKinds = {}
    MaxFaults = 0
    MaxWrites = 0
    MaxSnapshots = 1
INVARIANTS CodeRolledBack
