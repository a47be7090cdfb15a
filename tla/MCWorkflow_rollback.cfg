\* One workflow whose second step always fails.
SPECIFICATION SafeSpec
CONSTANTS
    N = 3
    Ids = {i1}
    Workers = {w1}
    Service <- OneService
    Void = {}
    FailingSteps = {2}
    FailingRollbacks = {}
    SendMayFail = TRUE
    RetryFailed = TRUE
    DeleteOnComplete = FALSE
    MaxRedeliveries = 0
    MaxAborts = 0
    NoId = NoId
    NoRow = NoRow
    NoWorker = NoWorker
    i1 = i1
    w1 = w1
INVARIANT RollbackComplete
CHECK_DEADLOCK FALSE
