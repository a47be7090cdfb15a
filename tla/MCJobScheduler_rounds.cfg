\* Two pods, one of which is paused or told to terminate at any time, two
\* workers and a job, one-off or not, that is never late.
SPECIFICATION Spec
CONSTANTS
    Jobs = {check, safe}
    Check = check
    Safe = {safe}
    Risky = {}
    Custom = {}
    OneOff = {{}, {safe}}
    Failing = {safe}
    Late = {}
    Pods = {p1, p2}
    Workers = {w1, w2}
    EnqueueLimit = 2
    MaxRestarts = 1
    Terminating = {p1}
    Pausing = {p1}
    SlowBatches = TRUE
    Faults = {"fetch", "publish", "pod", "worker", "maintenance", "finish", "redelivery"}
    MaxFaults = 1
    MaxFailures = 3
    MaxSent = 2
    Gone = Gone
    NoJob = NoJob
    check = check
    safe = safe
    p1 = p1
    p2 = p2
    w1 = w1
    w2 = w2
INVARIANT SingleFlight
INVARIANT RestartsBounded
PROPERTY LifecycleImplemented
PROPERTY TerminateStops
CHECK_DEADLOCK FALSE
