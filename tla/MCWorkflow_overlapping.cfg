\* Three workers, two of them of the same service.
SPECIFICATION Spec
CONSTANTS
    N = 3
    Ids = {i1}
    Workers = {w1, w2, w3}
    Service <- TwoServices
    Void = {}
    FailingSteps = {2}
    FailingRollbacks = {}
    SendMayFail = TRUE
    RetryFailed = TRUE
    DeleteOnComplete = TRUE
    MaxRedeliveries = 1
    MaxAborts = 1
    NoId = NoId
    NoRow = NoRow
    NoWorker = NoWorker
    i1 = i1
    w1 = w1
    w2 = w2
    w3 = w3
INVARIANT NoStepSkipped
INVARIANT PublishedAfterExecution
INVARIANT RowTruthful
PROPERTY WorkflowSettles
CHECK_DEADLOCK FALSE
