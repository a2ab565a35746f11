----------------------------- MODULE RedisQueue -----------------------------
(***************************************************************************)
(* The redis backend as a whole: clients dispatching jobs, the workers and *)
(* the reapers of all processes, process crashes and restarts, Close, and  *)
(* the passage of time.                                                    *)
(*                                                                         *)
(* Reapers = {} is the system while no lock reaches its timeout: a reaper  *)
(* that finds only recent locks writes nothing.                            *)
(***************************************************************************)
EXTENDS RedisWorker, Reaper

CONSTANTS
    DispatchAts,   \* DispatchAt of a new job: time to go (0: none), or Garbage
    FaultKinds,    \* the faults that may occur
    MaxFaults,     \* how many of them
    MayClose       \* processes on which Close may be called

ASSUME QueueAssumption ==
    /\ DispatchAts \subseteq Nat \cup {Garbage}
    /\ FaultKinds \subseteq {"crash", "refused", "connection"}
    /\ MaxFaults \in Nat
    /\ MayClose \subseteq Procs

VARIABLES
    dispatched,    \* jobs whose Dispatch returned an id
    faults         \* faults so far

vars == <<shared, wvars, rvars, dispatched, faults>>

Init ==
    /\ pending = [j \in Jobs |-> NoKey]
    /\ locked = [j \in Jobs |-> NoKey]
    /\ completed = {}
    /\ failed = {}
    /\ failedRows = [j \in Jobs |-> 0]
    /\ systemShutdown = [p \in Procs |-> FALSE]
    /\ wpc = [w \in Workers |-> "scan"]
    /\ batch = [w \in Workers |-> {}]
    /\ wjob = [w \in Workers |-> Unset]
    /\ cachedJob = [w \in Workers |-> NoKey]
    /\ depth = [w \in Workers |-> 0]
    /\ heldFor = [w \in Workers |-> 0]
    /\ executions = [j \in Jobs |-> 0]
    /\ handlers = [p \in Procs |-> {}]
    /\ ReaperInit
    /\ dispatched = {}
    /\ faults = 0

-----------------------------------------------------------------------------
NewJob(j, at) ==
    [ID |-> j, Retry |-> j \in RetryJobs, RetryCounter |-> 0, LockFor |-> JobLockFor[j],
     ReservedAt |-> 0, LockedAt |-> Unset, RetryAfter |-> at]

\* HSET pending, the whole job.  DispatchAt is copied to RetryAfter unparsed.
Dispatch(j, at) ==
    /\ j \notin dispatched
    /\ HSetPending(j, NewJob(j, at))
    /\ dispatched' = dispatched \cup {j}
    /\ UNCHANGED <<locked, completed, failed, failedRows, systemShutdown, wvars, rvars, faults>>

\* The application registers its handlers after Listen has started workers.
RegisterHandler(p, name) ==
    /\ name \notin handlers[p]
    /\ handlers' = [handlers EXCEPT ![p] = @ \cup {name}]
    /\ UNCHANGED <<shared, wpc, batch, wjob, cachedJob, depth, heldFor, executions,
                   rvars, dispatched, faults>>

\* Close writes the flag and then only waits, for the goroutines or a timeout.
Close(p) ==
    /\ p \in MayClose
    /\ ~systemShutdown[p]
    /\ systemShutdown' = [systemShutdown EXCEPT ![p] = TRUE]
    /\ UNCHANGED <<keys, failedRows, wvars, rvars, dispatched, faults>>

Fault(kind) ==
    /\ kind \in FaultKinds
    /\ faults < MaxFaults
    /\ faults' = faults + 1

\* The process is killed at any point and started again.
Crash(p) ==
    /\ Fault("crash")
    /\ LET Mine(w) == ProcOf[w] = p
       IN  /\ wpc' = [w \in Workers |-> IF Mine(w) THEN "scan" ELSE wpc[w]]
           /\ batch' = [w \in Workers |-> IF Mine(w) THEN {} ELSE batch[w]]
           /\ wjob' = [w \in Workers |-> IF Mine(w) THEN Unset ELSE wjob[w]]
           /\ cachedJob' = [w \in Workers |-> IF Mine(w) THEN NoKey ELSE cachedJob[w]]
           /\ depth' = [w \in Workers |-> IF Mine(w) THEN 0 ELSE depth[w]]
           /\ heldFor' = [w \in Workers |-> IF Mine(w) THEN 0 ELSE heldFor[w]]
    /\ handlers' = [handlers EXCEPT ![p] = {}]
    /\ systemShutdown' = [systemShutdown EXCEPT ![p] = FALSE]
    /\ rpc' = [r \in Reapers |-> IF r = p THEN "wait" ELSE rpc[r]]
    /\ rbatch' = [r \in Reapers |-> IF r = p THEN {} ELSE rbatch[r]]
    /\ rjob' = [r \in Reapers |-> IF r = p THEN Unset ELSE rjob[r]]
    /\ rsnap' = [r \in Reapers |-> IF r = p THEN NoKey ELSE rsnap[r]]
    /\ UNCHANGED <<keys, failedRows, executions, dispatched>>

WorkerFault(w) ==
    /\ \/ Fault("refused") /\ CommandRefused(w)
       \/ Fault("connection") /\ ConnectionLost(w)
    /\ UNCHANGED <<rvars, dispatched>>

ReaperFault(p) ==
    /\ Fault("refused")
    /\ ReaperError(p)
    /\ UNCHANGED <<wvars, dispatched>>

\* A unit of time passes: every copy of a job gets older.
Tick ==
    /\ pending' = [j \in Jobs |-> Aged(pending[j])]
    /\ locked' = [j \in Jobs |-> Aged(locked[j])]
    /\ cachedJob' = [w \in Workers |-> Aged(cachedJob[w])]
    /\ rsnap' = [p \in Reapers |-> Aged(rsnap[p])]
    /\ heldFor' = [w \in Workers |-> IF wpc[w] \in Holding THEN Older(heldFor[w]) ELSE 0]
    /\ UNCHANGED <<completed, failed, failedRows, systemShutdown, wpc, batch, wjob, depth,
                   executions, handlers, rpc, rbatch, rjob, dispatched, faults>>

WorkerNext(w) == WorkerStep(w) /\ UNCHANGED <<rvars, dispatched, faults>>
ReaperNext(p) == ReaperStep(p) /\ UNCHANGED <<wvars, dispatched, faults>>

Next ==
    \/ \E j \in Jobs, at \in DispatchAts : Dispatch(j, at)
    \/ \E p \in Procs : Crash(p) \/ Close(p) \/ \E name \in Names : RegisterHandler(p, name)
    \/ \E w \in Workers : WorkerNext(w) \/ WorkerFault(w)
    \/ \E p \in Reapers : ReaperNext(p) \/ ReaperFault(p)
    \/ Tick

Spec == Init /\ [][Next]_vars

-----------------------------------------------------------------------------
(* Properties. *)

TypeOK ==
    /\ pending \in [Jobs -> JobHash \cup {NoKey}]
    /\ locked \in [Jobs -> JobHash \cup {NoKey}]
    /\ completed \subseteq Jobs
    /\ failed \subseteq Jobs
    /\ failedRows \in [Jobs -> 0 .. MaxRows]
    /\ systemShutdown \in [Procs -> BOOLEAN]
    /\ wpc \in [Workers -> WorkerSteps]
    /\ batch \in [Workers -> SUBSET Jobs]
    /\ wjob \in [Workers -> Jobs \cup {Unset}]
    /\ cachedJob \in [Workers -> JobHash \cup {NoKey}]
    /\ depth \in [Workers -> 0 .. MaxDepth]
    /\ heldFor \in [Workers -> 0 .. MaxAge]
    /\ executions \in [Jobs -> 0 .. MaxExecutions]
    /\ handlers \in [Procs -> SUBSET Names]
    /\ rpc \in [Reapers -> ReaperSteps]
    /\ rbatch \in [Reapers -> SUBSET Jobs]
    /\ rjob \in [Reapers -> Jobs \cup {Unset}]
    /\ rsnap \in [Reapers -> JobHash \cup {NoKey}]
    /\ dispatched \subseteq Jobs
    /\ faults \in 0 .. MaxFaults

Holds(w, j) == wpc[w] \in Holding /\ wjob[w] = j

\* The jobs whose claims no reaper hands out again.
Protected(j) == Reapers = {} \/ j \notin RetryJobs

\* The claim of a protected job is exclusive: RENAME pending -> locked gives
\* it to one worker, and while that worker goes on no pending copy exists that
\* a second worker could claim, whatever the reapers, crashes and refused
\* commands do in between.
ClaimExclusive ==
    \A j \in Jobs : Protected(j) =>
        \A w \in Workers : Holds(w, j) =>
            /\ ~Exists(pending, j)
            /\ \A v \in Workers : Holds(v, j) => v = w

\* A job with Retry = false runs at most once, on any number of workers and
\* processes, with reapers, crashes, restarts and failing commands.
AtMostOnce == \A j \in Jobs \ RetryJobs : executions[j] <= 1

\* RetryCounter of a pending job is the number of its runs while no lock
\* expires: no run goes uncounted and none is counted twice.
AttemptsCounted ==
    Reapers = {} =>
        \A j \in Jobs : Exists(pending, j) => executions[j] = pending[j].RetryCounter

\* A handler only ever runs with the job of the claimed key, never with the
\* blank Job that HGETALL of a vanished or partly written key yields.
RunsWholeJob ==
    \A w \in Workers :
        wpc[w] \in {"activate", "lookup", "failRow"} \cup AfterStart =>
            cachedJob[w] # NoKey /\ cachedJob[w].ID = wjob[w]

Settled(j) == j \in completed \cup failed

\* While no lock expires, a dispatched job always has a key, whatever crashes
\* and refused commands interrupt.
NeverLost ==
    Reapers = {} =>
        \A j \in dispatched : Settled(j) \/ Exists(pending, j) \/ Exists(locked, j)

\* While no lock expires, an outcome is single and final: a job is not both
\* completed and failed, is not pending or held any more, and has at most one
\* failed_jobs row, which only a failed job has.
OneOutcome ==
    Reapers = {} =>
        \A j \in Jobs :
            /\ Settled(j) => ~Exists(pending, j) /\ \A w \in Workers : ~Holds(w, j)
            /\ ~(j \in completed /\ j \in failed)
            /\ failedRows[j] <= (IF j \in failed THEN 1 ELSE 0)

\* Workers go on until the queue is closed, as long as no lock expires, no
\* command fails and every gate parses: no return of the scanner is reached by
\* a plain sequence of claims, retries and gates.
WorkersRunUntilClosed ==
    Reapers = {} /\ faults = 0 /\ Garbage \notin DispatchAts =>
        \A w \in Workers : wpc[w] = "exited" => systemShutdown[ProcOf[w]]

\* The keys that exist say where a job is; the run of a claim has started when
\* the runs outnumber those the locked hash has counted.
JobStatus(j) ==
    IF j \in completed THEN "completed"
    ELSE IF j \in failed THEN "failed"
    ELSE IF Exists(pending, j) THEN "pending"
    ELSE IF ~Exists(locked, j) THEN "new"
    ELSE IF executions[j] > locked[j].RetryCounter THEN "running" ELSE "held"

Lifecycle == INSTANCE JobLifecycle
    WITH status <- [j \in Jobs |-> JobStatus(j)], attempts <- executions

\* The backend implements the job lifecycle while no lock expires (instances
\* with Reapers = {}): one run per claim, a retry only with attempts left, the
\* permanent failure only without, and nothing after an outcome.
ImplementsLifecycle == Lifecycle!Spec

-----------------------------------------------------------------------------
(* Liveness.  Goroutines are scheduled, handlers return and time passes; the
   application registers its handlers; a full SCAN iteration returns every key
   that stays in place, so a job cannot be left out of every page for ever. *)

Fairness ==
    /\ WF_vars(Tick)
    /\ \A p \in Procs, name \in Names : WF_vars(RegisterHandler(p, name))
    /\ \A w \in Workers :
           /\ WF_vars(WorkerNext(w))
           /\ \A j \in Jobs : SF_vars(WorkerNext(w) /\ wpc[w] = "sleep" /\ j \in batch'[w])
    /\ \A p \in Reapers :
           /\ WF_vars(ReaperNext(p))
           /\ \A j \in Jobs : SF_vars(ReaperNext(p) /\ rpc[p] = "wait" /\ j \in rbatch'[p])

FairSpec == Spec /\ Fairness

\* Every dispatched job ends as completed or failed, unless a queue is closed.
EventuallySettled ==
    \A j \in Jobs :
        j \in dispatched ~> (Settled(j) \/ \E p \in Procs : systemShutdown[p])

\* After Close every worker of the process unwinds its frames and ends.
ShutdownDrains ==
    \A w \in Workers : systemShutdown[ProcOf[w]] ~> (wpc[w] = "exited")

-----------------------------------------------------------------------------
(* What the documentation and the comments say, and the code does not do: the
   runs that check these expect a counterexample. *)

\* MaxAttempts bounds the retries of a job (docs), reapers or not.
MaxAttemptsBounds == \A j \in Jobs : executions[j] <= MaxAttempts + 1

\* A lock is reaped only after it has been held for its timeout (LockTimeout):
\* the reaper never picks the lock of a worker that claimed it more recently.
ReapsOnlyStaleLocks ==
    [][\A p \in Reapers, w \in Workers, j \in Jobs :
          rjob'[p] = j /\ rjob[p] # j /\ Holds(w, j) =>
              heldFor[w] >= (IF JobLockFor[j] > 0 THEN JobLockFor[j] ELSE LockTimeout)]_vars

\* A job survives the loss of workers and processes: until it is settled, it
\* is in redis or in the hands of a worker.
JobsSurvive ==
    \A j \in dispatched :
        Settled(j) \/ Exists(pending, j) \/ Exists(locked, j) \/ \E w \in Workers : Holds(w, j)

=============================================================================
