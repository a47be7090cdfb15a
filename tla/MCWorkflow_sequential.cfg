\* Two workflows whose messages are handled one at a time.
SPECIFICATION SafeSpec
CONSTANTS
    N = 3
    Ids = {i1, i2}
    Workers = {w1}
    Service <- OneService
    Void = {}
    FailingSteps = {2, 3}
    FailingRollbacks = {2, 3}
    SendMayFail = TRUE
    RetryFailed = TRUE
    DeleteOnComplete = FALSE
    MaxRedeliveries = 3
    MaxAborts = 2
    NoId = NoId
    NoRow = NoRow
    NoWorker = NoWorker
    i1 = i1
    i2 = i2
    w1 = w1
INVARIANT ResultsKept
INVARIANT CompletedMeansDone
PROPERTY FailedOnlyGoesBack
CHECK_DEADLOCK FALSE
