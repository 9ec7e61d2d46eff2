\* Two requests to the control API and one to the proxy on two workers; the files of
\* one fail, and the daemon is restarted once. Every request is made at most once,
\* so the system may stop when all are done.
SPECIFICATION FairSpec
CONSTANTS
    c1 = c1
    c2 = c2
    i1 = i1
    Control = {c1, c2}
    Ingress = {i1}
    Workers = 2
    Fragile = {c2}
    Absent = Absent
    Complaint = Complaint
    MaxSlots = 3
    MaxRestarts = 1
CHECK_DEADLOCK FALSE
INVARIANTS TypeOK OwnAnswer ErrorHasCause
PROPERTIES IngressAnswered ControlAnswered
