\* Any engine, one middleware of any kind, one failing request, and a topic
\* with a dead letter queue that may be a FIFO one.
SPECIFICATION Spec
CONSTANTS
    Length = 1
    Natures = {"orderly", "wild", "absent"}
    Runs = {m1, m2}
    Engines = {"kafka", "sqs", "redis", "dummy"}
    Topics = {t}
    Fifo = {{}, {t}}
    WithDlq = {t}
    Setups <- Everyone
    Consumers = {runner}
    Topic <- OneTopic
    MaxFaults = 1
    Calls = {task, steveo}
    Direct = {steveo}
    Sends = {m1, m2}
    Plans <- BothOrOneEach
    task = task
    steveo = steveo
    m1 = m1
    m2 = m2
    runner = runner
    t = t
INVARIANTS
    DeliveredOnce
    SuccessMeansDelivered
    RedriveKept
PROPERTIES
    PublishSettles
CHECK_DEADLOCK FALSE
