\* Two processes, one of which may crash; two revocations or evictions.
SPECIFICATION Spec
CONSTANTS
    Procs = {m1, m2}
    Calls = {}
    Tries = 1
    LifecycleCalls = {}
    LateCalls = {}
    Partitions = {p1}
    LogEnd = 2
    BatchSize = 2
    MaxLoops = 1
    MaxRebalances = 2
    MaxCrashes = 1
    Taskless = {}
    Unreachable = {}
    Flaky = {m1, m2}
    None = None
INVARIANTS
    TypeOK
    OffsetsCovered
PROPERTIES
    EveryMessageHandled
CHECK_DEADLOCK FALSE
