CONSTANTS
    j1 = j1
    j2 = j2
    w1 = w1
    w2 = w2
    p1 = p1
    p2 = p2
    Unset = Unset
    Garbage = Garbage
    NoKey = NoKey
    Jobs <- OneJob
    RetryJobs = {j1}
    JobLockFor <- ShortLockFor
    Procs = {p1}
    MaxAttempts = 2
    LockTimeout = 2
    Backoff = 1
    MaxAge = 2
    MaxCounter = 3
    MaxRows = 1
    Workers = {w1}
    ProcOf <- OneProcess
    Names <- OneName
    JobName <- SameName
    MaxDepth = 1
    MaxExecutions = 4
    Reapers = {p1}
    DispatchAts <- Delayed
    FaultKinds = {"crash", "refused", "connection"}
    MaxFaults = 0
    MayClose = {}
SPECIFICATION Spec
INVARIANT
    MaxAttemptsBounds
