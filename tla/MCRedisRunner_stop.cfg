\* One instance with two topics, stopped twice at any time, and paused and
\* resumed before and after that.
SPECIFICATION Spec
CONSTANTS
    Procs = {p1}
    Calls = {c1, c2}
    Tries = 2
    LifecycleCalls = {"pause"}
    LateCalls = {"pause", "resume"}
    Host <- SharedHost
    Clients = {m1, m2}
    PoolMax = 2
    Topics = {t1, t2}
    TopicOf <- SecondApart
    Malformed = {m2}
    Faults = {"receive", "timeout", "delete", "crash"}
    MaxFaults = 2
    Visible = Visible
    Deleted = Deleted
    t1 = t1
    t2 = t2
    m2 = m2
INVARIANTS
    DeletedForHandler
    GracefulTermination
PROPERTIES
    ForcedOnlyAfterWaiting
    StopAlwaysReturns
CHECK_DEADLOCK FALSE
