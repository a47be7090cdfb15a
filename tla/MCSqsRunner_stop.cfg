\* One instance, paused, resumed and stopped, with three handlers for two
\* resources: a stray one, left by the malformed m3, and those of a batch; m4
\* may turn out to be null.
SPECIFICATION Spec
CONSTANTS
    Procs = {p1}
    Calls = {c1}
    Tries = 2
    LifecycleCalls = {"pause", "resume"}
    LateCalls = {}
    Host <- SharedHost
    Clients = {m1, m2, m3, m4}
    PoolMax = 2
    Topics = {t1}
    TopicOf <- OneTopic
    Malformed = {m3}
    Null = {m4}
    WaitToCommit = {t1}
    BatchMax = 3
    Faults = {}
    MaxFaults = 0
    Visible = Visible
    Deleted = Deleted
    t1 = t1
    t2 = t2
    m2 = m2
INVARIANTS
    ResourcesHeld
    NoHandlerAfterStop
PROPERTIES
    StopAlwaysReturns
CHECK_DEADLOCK FALSE
