\* An isolated service, whose processes may outlive a stop, a failed start and a
\* destroy; a release and its successor, which adds a volume; one failure or kill.
SPECIFICATION Spec
CONSTANTS
    r1 = r1
    r2 = r2
    data = data
    extra = extra
    Releases = {r1, r2}
    Volumes = {data}
    Lists <- AddsOne
    Runtime = runtime
    NoRelease = NoRelease
    Isolated = TRUE
    FaultKinds = {"stop", "copy", "remove", "start", "sql", "crash"}
    MaxFaults = 1
    MaxWrites = 1
    MaxSnapshots = 1
INVARIANTS TypeOK NothingLost  RolledBackIsNew 
PROPERTIES SnapshotsFrozen
