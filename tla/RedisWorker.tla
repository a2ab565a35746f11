---------------------------- MODULE RedisWorker -----------------------------
(***************************************************************************)
(* One redis worker goroutine: cursorScanRedisDb and handleRedisJob.       *)
(* Every redis command is a step of its own, so other workers, reapers and *)
(* crashes fall between any two of them.                                   *)
(*                                                                         *)
(* cursorScanRedisDb calls itself at the end of every traversal of the     *)
(* keyspace, so "return" and "break" leave one frame only: depth[w] counts *)
(* the frames below the running one, and the worker ends when the          *)
(* outermost frame returns.                                                *)
(***************************************************************************)
EXTENDS RedisState

CONSTANTS
    Workers,       \* worker goroutines of all processes
    ProcOf,        \* the process of each worker
    Names,         \* job names
    JobName,       \* Job.Name of each job
    MaxDepth,      \* recursion depth is followed up to here
    MaxExecutions  \* handler runs of one job are counted up to here

ASSUME WorkersAssumption ==
    /\ ProcOf \in [Workers -> Procs]
    /\ JobName \in [Jobs -> Names]
    /\ MaxDepth \in Nat
    /\ MaxExecutions \in Nat /\ MaxExecutions > MaxAttempts + 1

VARIABLES
    wpc,           \* next step of each worker
    batch,         \* keys of the SCAN page not looked at yet
    wjob,          \* job of the key being processed, or Unset
    cachedJob,     \* the worker's copy of the job, or NoKey
    depth,         \* frames below the running one
    heldFor,       \* history: time since the worker's claim
    executions,    \* history: handler invocations per job
    handlers       \* the handler registry of each process: registered names

wvars == <<wpc, batch, wjob, cachedJob, depth, heldFor, executions, handlers>>

\* Steps at which the worker owns the locked key it renamed.
BeforeRun == {"stamp", "read", "gate", "activate", "lookup"}
AfterStart == {"run", "complete", "completeMove", "retry", "fail", "failMove"}
Holding == BeforeRun \cup AfterStart
WorkerSteps == {"scan", "sleep", "next", "failRow", "exited"} \cup Holding

Idle(w) ==
    /\ wjob' = [wjob EXCEPT ![w] = Unset]
    /\ cachedJob' = [cachedJob EXCEPT ![w] = NoKey]
    /\ heldFor' = [heldFor EXCEPT ![w] = 0]

\* Mutants: the frame count is not checked; the outermost frame loops on.
ReturnUnchecked(w) ==
    /\ wpc' = [wpc EXCEPT ![w] = "scan"]
    /\ depth' = [depth EXCEPT ![w] = @ - 1]
    /\ batch' = [batch EXCEPT ![w] = {}]
    /\ Idle(w)
    /\ UNCHANGED <<executions, handlers>>
ReturnToLoop(w) ==
    /\ wpc' = [wpc EXCEPT ![w] = "scan"]
    /\ depth' = [depth EXCEPT ![w] = IF @ = 0 THEN 0 ELSE @ - 1]
    /\ batch' = [batch EXCEPT ![w] = {}]
    /\ Idle(w)
    /\ UNCHANGED <<executions, handlers>>

\* return or break: control is back at the loop of the calling frame.
Return(w) ==
    /\ wpc' = [wpc EXCEPT ![w] = IF depth[w] = 0 THEN "exited" ELSE "scan"]
    /\ depth' = [depth EXCEPT ![w] = IF @ = 0 THEN 0 ELSE @ - 1]
    /\ batch' = [batch EXCEPT ![w] = {}]
    /\ Idle(w)
    /\ UNCHANGED <<executions, handlers>>

\* The end of one key: the loop goes on with the rest of the page.
NextKey(w) ==
    /\ wpc' = [wpc EXCEPT ![w] = "next"]
    /\ Idle(w)
    /\ UNCHANGED <<batch, depth, executions, handlers>>

Goto(w, step) ==
    /\ wpc' = [wpc EXCEPT ![w] = step]
    /\ UNCHANGED <<batch, wjob, cachedJob, depth, heldFor, executions, handlers>>

-----------------------------------------------------------------------------
(* cursorScanRedisDb *)

\* The loop test.  The sleep of ScanInterval seconds separates it from SCAN:
\* a Close in between (or one whose unsynchronised write the test missed) goes
\* unnoticed for one more page.
ScanBreak(w) ==
    /\ wpc[w] = "scan"
    /\ systemShutdown[ProcOf[w]]
    /\ Return(w)
    /\ UNCHANGED shared

ScanSleep(w) ==
    /\ wpc[w] = "scan"
    /\ ~systemShutdown[ProcOf[w]]
    /\ Goto(w, "sleep")
    /\ UNCHANGED shared

Scan(w) ==
    /\ wpc[w] = "sleep"
    /\ \E page \in ScanPages(pending) : batch' = [batch EXCEPT ![w] = page]
    /\ wpc' = [wpc EXCEPT ![w] = "next"]
    /\ UNCHANGED <<shared, wjob, cachedJob, depth, heldFor, executions, handlers>>

\* The page is done: scan on, or, at cursor 0, call itself.
PageDone(w) ==
    /\ wpc[w] = "next"
    /\ batch[w] = {}
    /\ wpc' = [wpc EXCEPT ![w] = "scan"]
    /\ \E frames \in {depth[w], depth[w] + 1} :
           /\ frames <= MaxDepth
           /\ depth' = [depth EXCEPT ![w] = frames]
    /\ UNCHANGED <<shared, batch, wjob, cachedJob, heldFor, executions, handlers>>

\* Mutant: the "no such key" reply is ignored.
ClaimUnchecked(w, j) ==
    /\ wpc[w] = "next"
    /\ j \in batch[w]
    /\ ~Exists(pending, j)
    /\ batch' = [batch EXCEPT ![w] = @ \ {j}]
    /\ wjob' = [wjob EXCEPT ![w] = j]
    /\ wpc' = [wpc EXCEPT ![w] = "stamp"]
    /\ UNCHANGED <<shared, cachedJob, depth, heldFor, executions, handlers>>

\* RENAME pending -> locked, the claim; "no such key" means another worker won.
ClaimLost(w, j) ==
    /\ wpc[w] = "next"
    /\ j \in batch[w]
    /\ ~Exists(pending, j)
    /\ batch' = [batch EXCEPT ![w] = @ \ {j}]
    /\ UNCHANGED <<shared, wpc, wjob, cachedJob, depth, heldFor, executions, handlers>>

Claim(w, j) ==
    /\ wpc[w] = "next"
    /\ j \in batch[w]
    /\ Exists(pending, j)
    /\ RenamePendingLocked(j)
    /\ batch' = [batch EXCEPT ![w] = @ \ {j}]
    /\ wjob' = [wjob EXCEPT ![w] = j]
    /\ wpc' = [wpc EXCEPT ![w] = "stamp"]
    /\ UNCHANGED <<failedRows, systemShutdown, cachedJob, depth, heldFor, executions, handlers>>

\* HSET locked LockedAt now: one field, so it creates the key if it is gone.
StampLock(w) ==
    /\ wpc[w] = "stamp"
    /\ LET j == wjob[w] IN HSetLocked(j, [Fields(locked[j]) EXCEPT !.LockedAt = 0])
    /\ Goto(w, "read")
    /\ UNCHANGED <<pending, completed, failed, failedRows, systemShutdown>>

\* HGETALL locked and the retry-after gate.
ReadUnparseable(w) ==
    /\ wpc[w] = "read"
    /\ Fields(locked[wjob[w]]).RetryAfter \notin Nat
    /\ Return(w)
    /\ UNCHANGED shared

ReadNotDue(w) ==
    /\ wpc[w] = "read"
    /\ Fields(locked[wjob[w]]).RetryAfter \in Nat \ {0}
    /\ Goto(w, "gate")
    /\ UNCHANGED shared

\* Mutant: a gate that does not parse counts as open.
ReadDueLenient(w) ==
    /\ wpc[w] = "read"
    /\ Fields(locked[wjob[w]]).RetryAfter \in {0, Unset}
    /\ cachedJob' = [cachedJob EXCEPT ![w] = locked[wjob[w]]]
    /\ wpc' = [wpc EXCEPT ![w] = "activate"]
    /\ UNCHANGED <<shared, batch, wjob, depth, heldFor, executions, handlers>>

ReadDue(w) ==
    /\ wpc[w] = "read"
    /\ Fields(locked[wjob[w]]).RetryAfter = 0
    /\ cachedJob' = [cachedJob EXCEPT ![w] = locked[wjob[w]]]
    /\ wpc' = [wpc EXCEPT ![w] = "activate"]
    /\ UNCHANGED <<shared, batch, wjob, depth, heldFor, executions, handlers>>

\* RENAME locked -> pending, giving back a job that is not due.
GiveBack(w) ==
    /\ wpc[w] = "gate"
    /\ Exists(locked, wjob[w])
    /\ RenameLockedPending(wjob[w])
    /\ NextKey(w)
    /\ UNCHANGED <<failedRows, systemShutdown>>

GiveBackMissing(w) ==
    /\ wpc[w] = "gate"
    /\ ~Exists(locked, wjob[w])
    /\ Return(w)
    /\ UNCHANGED shared

-----------------------------------------------------------------------------
(* handleRedisJob *)

\* HSET locked Status processing (Status itself is never read).
Activate(w) ==
    /\ wpc[w] = "activate"
    /\ LET j == cachedJob[w].ID IN HSetLocked(j, Fields(locked[j]))
    /\ Goto(w, "lookup")
    /\ UNCHANGED <<pending, completed, failed, failedRows, systemShutdown>>

Registered(w) == JobName[wjob[w]] \in handlers[ProcOf[w]]

StartHandler(w) ==
    /\ wpc[w] = "lookup"
    /\ Registered(w)
    /\ executions' = [executions EXCEPT ![wjob[w]] = IF @ < MaxExecutions THEN @ + 1 ELSE @]
    /\ wpc' = [wpc EXCEPT ![w] = "run"]
    /\ UNCHANGED <<shared, batch, wjob, cachedJob, depth, heldFor, handlers>>

\* No handler: Retry is cleared and the job goes the permanent-failure way.
NoHandler(w) ==
    /\ wpc[w] = "lookup"
    /\ ~Registered(w)
    /\ cachedJob' = [cachedJob EXCEPT ![w].Retry = FALSE]
    /\ wpc' = [wpc EXCEPT ![w] = "fail"]
    /\ UNCHANGED <<shared, batch, wjob, depth, heldFor, executions, handlers>>

HandlerOk(w) ==
    /\ wpc[w] = "run"
    /\ Goto(w, "complete")
    /\ UNCHANGED shared

\* Mutants: the limit is off by one; Retry is not looked at.
MayRetryInclusive(job) == job.Retry /\ job.RetryCounter <= MaxAttempts
MayRetryAlways(job) == job.RetryCounter < MaxAttempts

MayRetry(job) == job.Retry /\ job.RetryCounter < MaxAttempts

\* The handler returned an error or panicked (recovered).
HandlerError(w) ==
    /\ wpc[w] = "run"
    /\ Goto(w, IF MayRetry(cachedJob[w]) THEN "retry" ELSE "fail")
    /\ UNCHANGED shared

\* HSET locked, the whole job with its final Status.
WriteBack(w) ==
    /\ wpc[w] \in {"complete", "fail"}
    /\ HSetLocked(wjob[w], cachedJob[w])
    /\ Goto(w, IF wpc[w] = "complete" THEN "completeMove" ELSE "failMove")
    /\ UNCHANGED <<pending, completed, failed, failedRows, systemShutdown>>

\* RENAME locked -> completed
Complete(w) ==
    /\ wpc[w] = "completeMove"
    /\ Exists(locked, wjob[w])
    /\ RenameLockedCompleted(wjob[w])
    /\ NextKey(w)
    /\ UNCHANGED <<failedRows, systemShutdown>>

\* RENAME locked -> failed
Fail(w) ==
    /\ wpc[w] = "failMove"
    /\ Exists(locked, wjob[w])
    /\ RenameLockedFailed(wjob[w])
    /\ Goto(w, "failRow")
    /\ UNCHANGED <<failedRows, systemShutdown>>

\* "no such key" on either final RENAME: logged, the job is left as it is.
FinalMoveMissing(w) ==
    /\ wpc[w] \in {"completeMove", "failMove"}
    /\ ~Exists(locked, wjob[w])
    /\ NextKey(w)
    /\ UNCHANGED shared

RecordFailure(w) ==
    /\ wpc[w] = "failRow"
    /\ InsertFailedRow(wjob[w], cachedJob[w])
    /\ NextKey(w)
    /\ UNCHANGED <<keys, systemShutdown>>

\* Mutant: the gate is cleared.
RetryAfterCleared(job) == Unset

\* The gate of the next attempt, from the gate of this one.
NextRetryAfter(job) ==
    IF job.RetryAfter = Unset THEN Backoff ELSE job.RetryCounter * Backoff

\* Mutant: the attempt is not counted.
RetriedUncounted(job) == [job EXCEPT !.RetryAfter = NextRetryAfter(job)]

Retried(job) ==
    [job EXCEPT !.RetryAfter = NextRetryAfter(job), !.RetryCounter = @ + 1]

\* HSET pending, the whole job; the locked key is left behind.
Retry(w) ==
    /\ wpc[w] = "retry"
    /\ HSetPending(wjob[w], Retried(cachedJob[w]))
    /\ NextKey(w)
    /\ UNCHANGED <<locked, completed, failed, failedRows, systemShutdown>>

-----------------------------------------------------------------------------
(* Faults.  RedisQueue bounds how many occur. *)

\* The server refuses one command: nothing is written and the code takes the
\* error path of that command.
CommandRefused(w) ==
    /\ \/ wpc[w] \in {"sleep", "read", "gate"} /\ Return(w)
       \/ wpc[w] = "stamp" /\ Goto(w, "read")
       \/ wpc[w] \in {"activate", "complete", "completeMove", "retry", "fail", "failMove"}
          /\ NextKey(w)
       \/ wpc[w] = "next" /\ \E j \in batch[w] : batch' = [batch EXCEPT ![w] = @ \ {j}]
          /\ UNCHANGED <<wpc, wjob, cachedJob, depth, heldFor, executions, handlers>>
    /\ UNCHANGED shared

\* The connection breaks.  It is the worker's only one, so every later
\* command fails too and frame after frame returns, without another effect on
\* redis: the worker ends.  Breaking after a step stands for a lost reply; a
\* break around the handler, which uses no connection, shows at the step after.
ConnectionLost(w) ==
    /\ wpc[w] \notin {"lookup", "run", "failRow", "exited"}
    /\ wpc' = [wpc EXCEPT ![w] = "exited"]
    /\ depth' = [depth EXCEPT ![w] = 0]
    /\ batch' = [batch EXCEPT ![w] = {}]
    /\ Idle(w)
    /\ UNCHANGED <<shared, executions, handlers>>

-----------------------------------------------------------------------------
WorkerStep(w) ==
    \/ ScanBreak(w) \/ ScanSleep(w) \/ Scan(w) \/ PageDone(w)
    \/ \E j \in Jobs : ClaimLost(w, j) \/ Claim(w, j)
    \/ StampLock(w)
    \/ ReadUnparseable(w) \/ ReadNotDue(w) \/ ReadDue(w)
    \/ GiveBack(w) \/ GiveBackMissing(w)
    \/ Activate(w) \/ StartHandler(w) \/ NoHandler(w)
    \/ HandlerOk(w) \/ HandlerError(w) \/ WriteBack(w)
    \/ Complete(w) \/ Fail(w) \/ FinalMoveMissing(w) \/ RecordFailure(w) \/ Retry(w)
=============================================================================
