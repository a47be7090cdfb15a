\* Two instances in Node processes of their own; m1 and the malformed m3 may
\* come in one batch, and m2 may turn out to be null.
SPECIFICATION Spec
CONSTANTS
    Procs = {p1, p2}
    Calls = {}
    Tries = 1
    LifecycleCalls = {}
    LateCalls = {}
    Host <- OwnHost
    Clients = {m1, m2, m3}
    PoolMax = 1
    Topics = {t1, t2}
    TopicOf <- SecondApart
    Malformed = {m3}
    Null = {m2}
    WaitToCommit = {t1}
    BatchMax = 2
    Faults = {"crash", "timeout", "delete", "handler"}
    MaxFaults = 1
    Visible = Visible
    Deleted = Deleted
    t1 = t1
    t2 = t2
    m2 = m2
INVARIANTS
    NothingLost
    RepeatedOnlyByFaults
PROPERTIES
    EveryMessageDeleted
CHECK_DEADLOCK FALSE
