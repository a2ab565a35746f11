CONSTANTS
    j1 = j1
    j2 = j2
    w1 = w1
    w2 = w2
    p1 = p1
    p2 = p2
    Unset = Unset
    Garbage = Garbage
    NoKey = NoKey
    Jobs <- OneJob
    RetryJobs = {}
    JobLockFor <- NoLockFor
    Procs = {p1}
    MaxAttempts = 1
    LockTimeout = 1
    Backoff = 1
    MaxAge = 1
    MaxCounter = 3
    MaxRows = 1
    Workers = {w1}
    ProcOf <- OneProcess
    Names <- OneName
    JobName <- SameName
    MaxDepth = 1
    MaxExecutions = 3
    Reapers = {p1}
    DispatchAts <- Immediate
    FaultKinds = {"crash"}
    MaxFaults = 1
    MayClose = {p1}
SPECIFICATION FairSpec
PROPERTY
    EventuallySettled
