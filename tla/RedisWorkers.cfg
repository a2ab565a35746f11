CONSTANTS
    j1 = j1
    j2 = j2
    w1 = w1
    w2 = w2
    p1 = p1
    p2 = p2
    Unset = Unset
    Garbage = Garbage
    NoKey = NoKey
    Jobs <- AllJobs
    RetryJobs = {j1}
    JobLockFor <- NoLockFor
    Procs = {p1, p2}
    MaxAttempts = 1
    LockTimeout = 1
    Backoff = 1
    MaxAge = 1
    MaxCounter = 4
    MaxRows = 2
    Workers = {w1, w2}
    ProcOf <- TwoProcesses
    Names <- OneName
    JobName <- SameName
    MaxDepth = 0
    MaxExecutions = 3
    Reapers = {}
    DispatchAts <- Delayed
    FaultKinds = {"crash", "refused", "connection"}
    MaxFaults = 1
    MayClose = {}
SPECIFICATION Spec
INVARIANTS
    ClaimExclusive
    AttemptsCounted
    NeverLost
    OneOutcome
PROPERTIES ImplementsLifecycle
