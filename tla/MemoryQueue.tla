----------------------------- MODULE MemoryQueue ----------------------------
(***************************************************************************)
(* The memory backend of one process: clients and handlers dispatching     *)
(* jobs into the unbuffered channel q.Jobs, the worker goroutines, the     *)
(* detached goroutines that hold scheduled and retried jobs, the handler   *)
(* registry, Depth's counter, the failed-jobs cache, and Close.            *)
(*                                                                         *)
(* A job exists in one copy: phase says where it is.  Delays are left out: *)
(* a sleeping goroutine may wake at any time.                              *)
(***************************************************************************)
EXTENDS Integers, Sequences, FiniteSets

CONSTANTS
    Jobs, Workers, Names,
    RetryJobs,     \* jobs with Retry = true
    InlineJobs,    \* jobs with a Job.Handler
    JobName,       \* Job.Name of each job
    Parent,        \* the job whose handler dispatches this one, or None
    CtxWaiters,    \* jobs whose handler, if given a context, waits for its end
    DispatchAts,   \* DispatchAt of each job: any of "now", "future", "garbage"
    MaxAttempts, HighWaterMark,
    None

ASSUME MemoryAssumption ==
    /\ IsFiniteSet(Jobs) /\ IsFiniteSet(Workers)
    /\ RetryJobs \subseteq Jobs /\ InlineJobs \subseteq Jobs /\ CtxWaiters \subseteq Jobs
    /\ JobName \in [Jobs -> Names]
    /\ None \notin Jobs
    /\ Parent \in [Jobs -> Jobs \cup {None}]
    /\ \A i, j \in Jobs : Parent[i] = Parent[j] /\ Parent[i] # None => i = j
    /\ DispatchAts \in [Jobs -> SUBSET {"now", "future", "garbage"}]
    /\ MaxAttempts \in Nat \ {0} /\ HighWaterMark \in Nat \ {0}

VARIABLES
    phase,         \* where each job is
    retryCounter,  \* Job.RetryCounter
    wpc,           \* next step of each worker
    wjob,          \* job of each worker, or None
    whandler,      \* the handler a worker called
    registry,      \* q.handlers: the kind of handler registered for a name
    pendingCount,  \* what Depth returns
    failedJobs,    \* the failed-jobs cache, FailedJobs.data
    completedRows, failedRows,   \* rows of each job in jobs and failed_jobs
    executions,    \* history: handler invocations per job
    cancelled,     \* lifecycleCtx has ended
    closing,       \* progress of Close: "no", "cancelled", "draining", "returned"
    crashed        \* an unrecovered panic ended the process

jobVars == <<phase, retryCounter>>
workerVars == <<wpc, wjob, whandler>>
rowVars == <<failedJobs, completedRows, failedRows>>
closeVars == <<cancelled, closing>>
vars == <<jobVars, workerVars, registry, pendingCount, rowVars, executions, closeVars, crashed>>

Sending == {"sending", "detached"}     \* blocked in q.Jobs <- job
Outcomes == {"completed", "failed", "dropped"}
Phases == {"new", "rejected", "refused", "sleeping", "taken"} \cup Sending \cup Outcomes
Busy == {"admit", "invoke", "run", "dispatch", "finish"}
ChannelClosed == closing \in {"draining", "returned"}

Init ==
    /\ phase = [j \in Jobs |-> "new"]
    /\ retryCounter = [j \in Jobs |-> 0]
    /\ wpc = [w \in Workers |-> "idle"]
    /\ wjob = [w \in Workers |-> None]
    /\ whandler = [w \in Workers |-> "none"]
    /\ registry = [n \in Names |-> "none"]
    /\ pendingCount = 0
    /\ failedJobs = <<>>
    /\ completedRows = [j \in Jobs |-> 0]
    /\ failedRows = [j \in Jobs |-> 0]
    /\ executions = [j \in Jobs |-> 0]
    /\ cancelled = FALSE
    /\ closing = "no"
    /\ crashed = FALSE

-----------------------------------------------------------------------------
(* Dispatch *)

Reach(j, p) == phase' = [phase EXCEPT ![j] = p]

\* A client calls Dispatch or DispatchIn: pendingCount.Add(1) and the send; or
\* a detached goroutine for a future DispatchAt; or an error.
Dispatch(j, at) ==
    /\ phase[j] = "new"
    /\ \/ at = "now" /\ Reach(j, "sending") /\ pendingCount' = pendingCount + 1
       \/ at = "future" /\ Reach(j, "sleeping") /\ UNCHANGED pendingCount
       \/ at = "garbage" /\ Reach(j, "rejected") /\ UNCHANGED pendingCount
    /\ UNCHANGED <<retryCounter, workerVars, registry, rowVars, executions, closeVars, crashed>>

\* A handler calls Dispatch: its worker is blocked until the send is received.
HandlerDispatch(w, j) ==
    /\ wpc[w] = "run"
    /\ Parent[j] = wjob[w]
    /\ phase[j] = "new"
    /\ Reach(j, "sending")
    /\ pendingCount' = pendingCount + 1
    /\ wpc' = [wpc EXCEPT ![w] = "dispatch"]
    /\ UNCHANGED <<retryCounter, wjob, whandler, registry, rowVars, executions, closeVars, crashed>>

\* Mutant: the detached goroutine sends without counting.
WakeUncounted(j) ==
    /\ phase[j] = "sleeping"
    /\ Reach(j, "detached")
    /\ UNCHANGED <<pendingCount, retryCounter, workerVars, registry, rowVars, executions,
                   closeVars, crashed>>

\* The goroutine of a scheduled or retried job wakes: Add(1), then the send.
Wake(j) ==
    /\ phase[j] = "sleeping"
    /\ Reach(j, "detached")
    /\ pendingCount' = pendingCount + 1
    /\ UNCHANGED <<retryCounter, workerVars, registry, rowVars, executions, closeVars, crashed>>

\* The worker v whose handler is blocked in the send of j.
SentBy(v, j) == wpc[v] = "dispatch" /\ wjob[v] = Parent[j]

\* Sending on a closed channel panics: fatal in a detached goroutine, recovered
\* by runHandler in a handler, and left to its caller in a client.
SendPanics(j) ==
    /\ ChannelClosed
    /\ \/ /\ phase[j] = "detached"
          /\ crashed' = TRUE
          /\ UNCHANGED <<phase, wpc>>
       \/ /\ phase[j] = "sending"
          /\ Reach(j, "refused")
          /\ wpc' = [v \in Workers |-> IF SentBy(v, j) THEN "run" ELSE wpc[v]]
          /\ UNCHANGED crashed
    /\ UNCHANGED <<retryCounter, wjob, whandler, registry, pendingCount, rowVars, executions,
                   closeVars>>

-----------------------------------------------------------------------------
(* worker and runHandler *)

\* The rendezvous on the unbuffered channel releases the sender.
Receive(w, j) ==
    /\ wpc[w] = "idle"
    /\ phase[j] \in Sending
    /\ ~ChannelClosed
    /\ Reach(j, "taken")
    /\ wpc' = [v \in Workers |-> IF v = w THEN "admit"
                                 ELSE IF SentBy(v, j) THEN "run" ELSE wpc[v]]
    /\ wjob' = [wjob EXCEPT ![w] = j]
    /\ UNCHANGED <<retryCounter, whandler, registry, pendingCount, rowVars, executions,
                   closeVars, crashed>>

\* Mutant: every job is admitted.
AdmitAll(j) == TRUE

\* job.Handler # nil or hasRegisteredHandler
Runnable(j) == j \in InlineJobs \/ registry[JobName[j]] # "none"

Admit(w) ==
    /\ wpc[w] = "admit"
    /\ Runnable(wjob[w])
    /\ wpc' = [wpc EXCEPT ![w] = "invoke"]
    /\ UNCHANGED <<jobVars, wjob, whandler, registry, pendingCount, rowVars, executions,
                   closeVars, crashed>>

\* A job without a handler is skipped: no row, no cache entry, no error.
Drop(w) ==
    /\ wpc[w] = "admit"
    /\ ~Runnable(wjob[w])
    /\ Reach(wjob[w], "dropped")
    /\ wpc' = [wpc EXCEPT ![w] = "finish"]
    /\ UNCHANGED <<retryCounter, wjob, whandler, registry, pendingCount, rowVars, executions,
                   closeVars, crashed>>

\* The handler is looked up a second time; the registry comes first.
Chosen(j) ==
    IF registry[JobName[j]] # "none" THEN registry[JobName[j]]
    ELSE IF j \in InlineJobs THEN "inline" ELSE "nil"

Invoke(w) ==
    /\ wpc[w] = "invoke"
    /\ whandler' = [whandler EXCEPT ![w] = Chosen(wjob[w])]
    /\ executions' = [executions EXCEPT ![wjob[w]] = @ + 1]
    /\ wpc' = [wpc EXCEPT ![w] = "run"]
    /\ UNCHANGED <<jobVars, wjob, registry, pendingCount, rowVars, closeVars, crashed>>

\* A handler that waits for its context returns only once that has ended.
Returns(w) ==
    /\ wpc[w] = "run"
    /\ whandler[w] = "ctx" /\ wjob[w] \in CtxWaiters => cancelled

\* An insert may fail (or there is no database): that is logged and dropped.
MayInsert(rows, j) == {rows, [rows EXCEPT ![j] = @ + 1]}

\* addCompletedJob
HandlerOk(w) ==
    /\ Returns(w)
    /\ whandler[w] # "nil"
    /\ Reach(wjob[w], "completed")
    /\ completedRows' \in MayInsert(completedRows, wjob[w])
    /\ wpc' = [wpc EXCEPT ![w] = "finish"]
    /\ UNCHANGED <<retryCounter, wjob, whandler, registry, pendingCount, failedJobs, failedRows,
                   executions, closeVars, crashed>>

\* Mutant: the cache is reset one entry too late.
CacheOverfull(j) ==
    IF Len(failedJobs) > HighWaterMark THEN <<j>> ELSE Append(failedJobs, j)

\* Every failure enters the cache, which starts over at the high water mark.
Cached(j) ==
    IF Len(failedJobs) >= HighWaterMark THEN <<j>> ELSE Append(failedJobs, j)

\* Mutant: the limit is off by one.
MayRetryInclusive(j) == j \in RetryJobs /\ retryCounter[j] <= MaxAttempts

MayRetry(j) == j \in RetryJobs /\ retryCounter[j] < MaxAttempts

\* Mutants: the worker sends the retry itself; the retry falls through to the
\* permanent failure.
RetryBlocking(w) ==
    LET j == wjob[w] IN
    /\ MayRetry(j)
    /\ Reach(j, "sending")
    /\ retryCounter' = [retryCounter EXCEPT ![j] = @ + 1]
    /\ wpc' = [wpc EXCEPT ![w] = "dispatch"]
    /\ UNCHANGED failedRows
RetryRecorded(w) ==
    LET j == wjob[w] IN
    /\ MayRetry(j)
    /\ Reach(j, "sleeping")
    /\ retryCounter' = [retryCounter EXCEPT ![j] = @ + 1]
    /\ wpc' = [wpc EXCEPT ![w] = "finish"]
    /\ failedRows' \in MayInsert(failedRows, j)

\* A detached goroutine takes the retry over and sleeps.
Retry(w) ==
    LET j == wjob[w] IN
    /\ MayRetry(j)
    /\ Reach(j, "sleeping")
    /\ retryCounter' = [retryCounter EXCEPT ![j] = @ + 1]
    /\ wpc' = [wpc EXCEPT ![w] = "finish"]
    /\ UNCHANGED failedRows

Fail(w) ==
    LET j == wjob[w] IN
    /\ ~MayRetry(j)
    /\ Reach(j, "failed")
    /\ failedRows' \in MayInsert(failedRows, j)
    /\ wpc' = [wpc EXCEPT ![w] = "finish"]
    /\ UNCHANGED retryCounter

\* The handler returned an error or panicked: addFailedJob, under one mutex.
HandlerError(w) ==
    /\ Returns(w)
    /\ failedJobs' = Cached(wjob[w])
    /\ Retry(w) \/ Fail(w)
    /\ UNCHANGED <<wjob, whandler, registry, pendingCount, completedRows, executions,
                   closeVars, crashed>>

\* pendingCount.Add(-1), after the handler and whatever it led to.
Finish(w) ==
    /\ wpc[w] = "finish"
    /\ pendingCount' = pendingCount - 1
    /\ wpc' = [wpc EXCEPT ![w] = "idle"]
    /\ wjob' = [wjob EXCEPT ![w] = None]
    /\ whandler' = [whandler EXCEPT ![w] = "none"]
    /\ UNCHANGED <<jobVars, registry, rowVars, executions, closeVars, crashed>>

\* range over a closed channel ends.
WorkerExit(w) ==
    /\ wpc[w] = "idle"
    /\ ChannelClosed
    /\ wpc' = [wpc EXCEPT ![w] = "exited"]
    /\ UNCHANGED <<jobVars, wjob, whandler, registry, pendingCount, rowVars, executions,
                   closeVars, crashed>>

-----------------------------------------------------------------------------
\* RegisterHandler ("plain") and RegisterHandlerCtx ("ctx"); a name that has a
\* handler is refused.
RegisterHandler(name, kind) ==
    /\ registry[name] = "none"
    /\ registry' = [registry EXCEPT ![name] = kind]
    /\ UNCHANGED <<jobVars, workerVars, pendingCount, rowVars, executions, closeVars, crashed>>

\* Mutant: Close does not end the context.
CancelForgotten == UNCHANGED cancelled

CancelContext == cancelled' = TRUE

\* Close: end the context, close the channel, wait for the workers.
Close ==
    /\ \/ closing = "no" /\ closing' = "cancelled" /\ CancelContext
       \/ closing = "cancelled" /\ closing' = "draining" /\ UNCHANGED cancelled
       \/ /\ closing = "draining"
          /\ \A w \in Workers : wpc[w] = "exited"
          /\ closing' = "returned"
          /\ UNCHANGED cancelled
    /\ UNCHANGED <<jobVars, workerVars, registry, pendingCount, rowVars, executions, crashed>>

WorkerNext(w) ==
    \/ \E j \in Jobs : Receive(w, j) \/ HandlerDispatch(w, j)
    \/ Admit(w) \/ Drop(w) \/ Invoke(w) \/ HandlerOk(w) \/ HandlerError(w)
    \/ Finish(w) \/ WorkerExit(w)

Next ==
    /\ ~crashed
    /\ \/ \E j \in Jobs : Wake(j) \/ SendPanics(j) \/ \E at \in DispatchAts[j] : Dispatch(j, at)
       \/ \E w \in Workers : WorkerNext(w)
       \/ \E name \in Names, kind \in {"plain", "ctx"} : RegisterHandler(name, kind)
       \/ Close

Spec == Init /\ [][Next]_vars

\* Goroutines are scheduled, timers fire, a send meets a receive, handlers
\* return (those that wait for their context once it has ended), and a Close
\* that was begun goes on.
Fairness ==
    /\ \A j \in Jobs : WF_vars(~crashed /\ (Wake(j) \/ SendPanics(j)))
    /\ \A w \in Workers : WF_vars(~crashed /\ WorkerNext(w))
    /\ WF_vars(~crashed /\ closing # "no" /\ Close)

FairSpec == Spec /\ Fairness

-----------------------------------------------------------------------------
(* Properties. *)

TypeOK ==
    /\ phase \in [Jobs -> Phases]
    /\ retryCounter \in [Jobs -> Nat]
    /\ wpc \in [Workers -> {"idle", "exited"} \cup Busy]
    /\ wjob \in [Workers -> Jobs \cup {None}]
    /\ whandler \in [Workers -> {"none", "plain", "ctx", "inline", "nil"}]
    /\ registry \in [Names -> {"none", "plain", "ctx"}]
    /\ pendingCount \in Nat
    /\ failedJobs \in Seq(Jobs)
    /\ completedRows \in [Jobs -> Nat] /\ failedRows \in [Jobs -> Nat]
    /\ executions \in [Jobs -> Nat]
    /\ cancelled \in BOOLEAN /\ crashed \in BOOLEAN
    /\ closing \in {"no", "cancelled", "draining", "returned"}

\* Depth is exact: the counter is the number of sends begun and of jobs in the
\* hands of a worker, a retried job counting for both while its worker has not
\* finished; only a job refused by a closed channel stays counted.
DepthExact ==
    pendingCount = Cardinality({j \in Jobs : phase[j] \in Sending \cup {"refused"}})
                   + Cardinality({w \in Workers : wpc[w] \in Busy})

\* RetryCounter of a waiting job is the number of its runs, and a job runs at
\* most MaxAttempts + 1 times, once without Retry.
AttemptsBounded ==
    \A j \in Jobs :
        /\ phase[j] \in Sending \cup {"sleeping"} => executions[j] = retryCounter[j]
        /\ executions[j] <= (IF j \in RetryJobs THEN MaxAttempts + 1 ELSE 1)

\* A job leaves at most one row in the database, and that of its outcome.
RecordedOnce ==
    \A j \in Jobs :
        /\ completedRows[j] <= (IF phase[j] = "completed" THEN 1 ELSE 0)
        /\ failedRows[j] <= (IF phase[j] = "failed" THEN 1 ELSE 0)

\* The handler that admitted a job is still there when runHandler looks it up
\* again: no nil function is called, whatever is registered in between.
HandlerFound == \A w \in Workers : whandler[w] # "nil"

\* The failed-jobs cache never exceeds the high water mark, and a job that
\* failed for good is in it unless later failures have reset it.
CacheBounded ==
    /\ Len(failedJobs) <= HighWaterMark
    /\ (\E j \in Jobs : phase[j] = "failed") => failedJobs # <<>>

\* A taken job runs once its runs outnumber its counted retries; a send refused
\* by the closed channel has dropped its job.
JobStatus(j) ==
    IF phase[j] \in {"new", "rejected"} THEN "new"
    ELSE IF phase[j] \in Sending \cup {"sleeping"} THEN "pending"
    ELSE IF phase[j] = "refused" THEN "dropped"
    ELSE IF phase[j] = "taken"
         THEN IF executions[j] > retryCounter[j] THEN "running" ELSE "held"
    ELSE phase[j]

Lifecycle == INSTANCE JobLifecycle
    WITH status <- [j \in Jobs |-> JobStatus(j)], attempts <- executions

\* The backend implements the job lifecycle: one run per receive, a retry only
\* with attempts left, the permanent failure only without, and nothing after
\* an outcome, whatever is dispatched, registered and closed meanwhile.
ImplementsLifecycle == Lifecycle!Spec

\* A dispatched job is run to an outcome or dropped, unless the queue is
\* closed first or its handler waits for Close.
EventuallySettled ==
    \A j \in Jobs \ CtxWaiters :
        phase[j] \in Sending \cup {"sleeping"} ~> phase[j] \in Outcomes \/ closing # "no"

\* Close returns, unless the process is brought down first: handlers waiting
\* for the context are released, blocked senders panic, workers end.
CloseReturns == closing # "no" ~> closing = "returned" \/ crashed

\* Close waits for in-flight jobs to drain (docs): when it returns, a job that
\* a worker had begun to run has its outcome.
CloseDrains ==
    closing = "returned" => \A j \in Jobs : executions[j] > 0 => phase[j] \in Outcomes
=============================================================================
