\* One process that is paused, resumed and stopped, twice by stop() at any time,
\* and may reconnect once or fail to connect.
SPECIFICATION Spec
CONSTANTS
    Procs = {m1}
    Calls = {c1, c2}
    Tries = 2
    LifecycleCalls = {"pause", "resume", "runnerStop"}
    LateCalls = {}
    Partitions = {p1}
    LogEnd = 1
    BatchSize = 1
    MaxLoops = 2
    MaxRebalances = 1
    MaxCrashes = 0
    Taskless = {m1}
    Unreachable = {m1}
    Flaky = {m1}
    None = None
INVARIANTS
    GracefulTermination
    StopLeavesTerminated
PROPERTIES
    NoBatchAfterStop
    StopAlwaysReturns
CHECK_DEADLOCK FALSE
