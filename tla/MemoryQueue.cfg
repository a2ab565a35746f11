CONSTANTS
    j1 = j1  j2 = j2  j3 = j3  n1 = n1  n2 = n2  w1 = w1  w2 = w2
    None = None
    Jobs <- TheJobs
    Workers = {w1, w2}
    Names = {n1, n2}
    RetryJobs = {j1}
    InlineJobs = {j1, j3}
    JobName <- NameOf
    Parent <- ParentOf
    CtxWaiters = {j2}
    DispatchAts <- DispatchAtOf
    MaxAttempts = 1
    HighWaterMark = 2
SPECIFICATION FairSpec
INVARIANTS TypeOK DepthExact  RecordedOnce HandlerFound 
PROPERTIES EventuallySettled CloseReturns ImplementsLifecycle
CHECK_DEADLOCK FALSE
