\* Two pods that start one after the other, one worker, and a job in both
\* lists of restarts, which may be late or not and one-off or not.  One fault,
\* or call of the application, of any kind.
SPECIFICATION Spec
CONSTANTS
    Jobs = {check, check2, job}
    Checks = {check, check2}
    Safe = {job}
    Risky = {job}
    Custom = {}
    OneOff = {{}, {job}}
    Inline = {check, check2}
    Failing = {job}
    Late = {job}
    Pods = {p1, p2}
    Workers = {w1}
    Told = {p1}
    EnqueueLimit = 2
    MaxRestarts = 1
    Together = FALSE
    SlowBatches = FALSE
    Events = {"round", "publish", "pod", "finish", "statement", "worker", "redelivery", "maintenance", "pause", "terminate"}
    MaxEvents = 1
    MaxFailures = 2
    MaxSent = 1
    Gone = Gone
    NoJob = NoJob
    check = check
    check2 = check2
    job = job
    p1 = p1
    p2 = p2
    w1 = w1
INVARIANTS
    SingleFlight
    MaintenanceAlone
PROPERTIES
    StuckJobsRestart
    LifecycleImplemented
CHECK_DEADLOCK FALSE
