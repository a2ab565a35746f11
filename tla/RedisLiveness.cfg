CONSTANTS
    j1 = j1
    j2 = j2
    w1 = w1
    w2 = w2
    p1 = p1
    p2 = p2
    Unset = Unset
    Garbage = Garbage
    NoKey = NoKey
    Jobs <- OneJob
    RetryJobs = {j1}
    JobLockFor <- NoLockFor
    Procs = {p1}
    MaxAttempts = 2
    LockTimeout = 1
    Backoff = 1
    MaxAge = 1
    MaxCounter = 2
    MaxRows = 1
    Workers = {w1, w2}
    ProcOf <- OneProcess
    Names <- OneName
    JobName <- SameName
    MaxDepth = 1
    MaxExecutions = 4
    Reapers = {}
    DispatchAts <- Delayed
    FaultKinds = {"crash", "refused", "connection"}
    MaxFaults = 0
    MayClose = {p1}
SPECIFICATION FairSpec
PROPERTIES
    EventuallySettled
    ShutdownDrains
INVARIANT
    WorkersRunUntilClosed
