\* Two pods and a job that is in every list of restarts; it and 'check' may be
\* late at any time.
SPECIFICATION Spec
CONSTANTS
    Jobs = {check, job}
    Check = check
    Safe = {job}
    Risky = {job}
    Custom = {check, job}
    OneOff = {{}, {job}}
    Failing = {job}
    Late = {check, job}
    Pods = {p1, p2}
    Workers = {w1}
    EnqueueLimit = 1
    MaxRestarts = 0
    Terminating = {}
    Pausing = {}
    SlowBatches = FALSE
    Faults = {"publish", "pod", "worker", "redelivery", "maintenance", "finish"}
    MaxFaults = 1
    MaxFailures = 1
    MaxSent = 1
    Gone = Gone
    NoJob = NoJob
    check = check
    job = job
    p1 = p1
    p2 = p2
    w1 = w1
INVARIANT MaintenanceAlone
PROPERTY StuckJobsRestart
CHECK_DEADLOCK FALSE
