\* One request to each door, no failure.
SPECIFICATION Spec
CONSTANTS
    c1 = c1
    c2 = c2
    i1 = i1
    Control = {c1}
    Ingress = {i1}
    Workers = 1
    Fragile = {}
    Absent = Absent
    Complaint = Complaint
    MaxSlots = 3
    MaxRestarts = 0
CHECK_DEADLOCK FALSE
INVARIANTS HostReached
