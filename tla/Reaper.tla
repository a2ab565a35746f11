------------------------------- MODULE Reaper -------------------------------
(***************************************************************************)
(* The reaper goroutine of a process: reapStaleLocks, runReaperTick and    *)
(* requeueExpiredLock.  It shares no lock with the workers or with the     *)
(* reapers of other processes; each redis command is a step.               *)
(***************************************************************************)
EXTENDS RedisState

CONSTANT Reapers   \* processes whose reaper may find an expired lock

ASSUME ReapersAssumption == Reapers \subseteq Procs

VARIABLES
    rpc,           \* next step of each reaper
    rbatch,        \* keys of the SCAN page not looked at yet
    rjob,          \* job of the expired key, or Unset
    rsnap          \* the reaper's copy of that job, or NoKey

rvars == <<rpc, rbatch, rjob, rsnap>>

ReaperSteps == {"wait", "next", "exists", "del", "requeue", "requeueMove",
                "permafail", "permafailMove", "permafailRow", "exited"}

ReaperInit ==
    /\ rpc = [p \in Reapers |-> "wait"]
    /\ rbatch = [p \in Reapers |-> {}]
    /\ rjob = [p \in Reapers |-> Unset]
    /\ rsnap = [p \in Reapers |-> NoKey]

RGoto(p, step) ==
    /\ rpc' = [rpc EXCEPT ![p] = step]
    /\ UNCHANGED <<rbatch, rjob, rsnap>>

RNextKey(p) ==
    /\ rpc' = [rpc EXCEPT ![p] = "next"]
    /\ rjob' = [rjob EXCEPT ![p] = Unset]
    /\ rsnap' = [rsnap EXCEPT ![p] = NoKey]
    /\ UNCHANGED rbatch

-----------------------------------------------------------------------------
(* reapStaleLocks and the loop of runReaperTick.  Ticks and the pages of one
   tick differ only in the waiting between them, so a page is a round. *)

ReaperStop(p) ==
    /\ rpc[p] = "wait"
    /\ systemShutdown[p]
    /\ RGoto(p, "exited")
    /\ UNCHANGED shared

ReaperScan(p) ==
    /\ rpc[p] = "wait"
    /\ ~systemShutdown[p]
    /\ \E page \in ScanPages(locked) : rbatch' = [rbatch EXCEPT ![p] = page]
    /\ rpc' = [rpc EXCEPT ![p] = "next"]
    /\ UNCHANGED <<shared, rjob, rsnap>>

ReaperPageDone(p) ==
    /\ rpc[p] = "next"
    /\ rbatch[p] = {}
    /\ RGoto(p, "wait")
    /\ UNCHANGED shared

\* Mutant: no fallback to ReservedAt.
LockAgeOnly(job) == job.LockedAt

\* The start of the lock: LockedAt, or ReservedAt when LockedAt is empty.
LockAge(job) == IF job.LockedAt = Unset THEN job.ReservedAt ELSE job.LockedAt
Timeout(job) == IF job.LockFor > 0 THEN job.LockFor ELSE LockTimeout
Expired(job) == LockAge(job) # Unset /\ LockAge(job) >= Timeout(job)

\* HGETALL locked and the age test.
SkipRecent(p, j) ==
    /\ rpc[p] = "next"
    /\ j \in rbatch[p]
    /\ ~Expired(Fields(locked[j]))
    /\ rbatch' = [rbatch EXCEPT ![p] = @ \ {j}]
    /\ UNCHANGED <<shared, rpc, rjob, rsnap>>

FindExpired(p, j) ==
    /\ rpc[p] = "next"
    /\ j \in rbatch[p]
    /\ Expired(Fields(locked[j]))
    /\ rbatch' = [rbatch EXCEPT ![p] = @ \ {j}]
    /\ rjob' = [rjob EXCEPT ![p] = j]
    /\ rsnap' = [rsnap EXCEPT ![p] = locked[j]]
    /\ rpc' = [rpc EXCEPT ![p] = "exists"]
    /\ UNCHANGED shared

\* Mutant: Retry is not looked at.
ReapMayRetryAlways(job) == job.RetryCounter + 1 < MaxAttempts

\* RetryCounter is increased before it is compared.
ReapMayRetry(job) == job.Retry /\ job.RetryCounter + 1 < MaxAttempts

\* EXISTS pending
CheckPending(p) ==
    /\ rpc[p] = "exists"
    /\ RGoto(p, IF Exists(pending, rjob[p]) THEN "del"
                ELSE IF ReapMayRetry(rsnap[p]) THEN "requeue" ELSE "permafail")
    /\ UNCHANGED shared

\* DEL locked
DeleteLeaked(p) ==
    /\ rpc[p] = "del"
    /\ Del(rjob[p])
    /\ RNextKey(p)
    /\ UNCHANGED <<pending, completed, failed, failedRows, systemShutdown>>

-----------------------------------------------------------------------------
(* requeueExpiredLock *)

\* HSET locked, the whole job
PrepareRequeue(p) ==
    /\ rpc[p] = "requeue"
    /\ rsnap[p].RetryCounter < MaxCounter
    /\ LET n == rsnap[p].RetryCounter + 1
       IN  HSetLocked(rjob[p], [rsnap[p] EXCEPT !.RetryCounter = n,
                                                !.RetryAfter = n * Backoff,
                                                !.LockedAt = Unset])
    /\ RGoto(p, "requeueMove")
    /\ UNCHANGED <<pending, completed, failed, failedRows, systemShutdown>>

\* RENAME locked -> pending; "no such key" is benign
Requeue(p) ==
    /\ rpc[p] = "requeueMove"
    /\ IF Exists(locked, rjob[p]) THEN RenameLockedPending(rjob[p]) ELSE UNCHANGED keys
    /\ RNextKey(p)
    /\ UNCHANGED <<failedRows, systemShutdown>>

\* HSET locked, the whole job
PreparePermafail(p) ==
    /\ rpc[p] = "permafail"
    /\ rsnap[p].RetryCounter < MaxCounter
    /\ HSetLocked(rjob[p], [rsnap[p] EXCEPT !.RetryCounter = @ + 1, !.LockedAt = Unset])
    /\ RGoto(p, "permafailMove")
    /\ UNCHANGED <<pending, completed, failed, failedRows, systemShutdown>>

\* RENAME locked -> failed; "no such key" ends the job without a row
Permafail(p) ==
    /\ rpc[p] = "permafailMove"
    /\ Exists(locked, rjob[p])
    /\ RenameLockedFailed(rjob[p])
    /\ RGoto(p, "permafailRow")
    /\ UNCHANGED <<failedRows, systemShutdown>>

PermafailMissing(p) ==
    /\ rpc[p] = "permafailMove"
    /\ ~Exists(locked, rjob[p])
    /\ RNextKey(p)
    /\ UNCHANGED shared

RecordPermafail(p) ==
    /\ rpc[p] = "permafailRow"
    /\ InsertFailedRow(rjob[p], rsnap[p])
    /\ RNextKey(p)
    /\ UNCHANGED <<keys, systemShutdown>>

-----------------------------------------------------------------------------
\* A command fails: the key is skipped, or the scan of this round given up.
\* The connection is replaced at the next tick.
ReaperError(p) ==
    /\ \/ /\ rpc[p] = "next"
          /\ \E j \in rbatch[p] : rbatch' = [rbatch EXCEPT ![p] = @ \ {j}]
          /\ UNCHANGED <<rpc, rjob, rsnap>>
       \/ /\ rpc[p] \in {"exists", "del", "requeue", "requeueMove", "permafail", "permafailMove"}
          /\ RNextKey(p)
    /\ UNCHANGED shared

ReaperStep(p) ==
    \/ ReaperStop(p) \/ ReaperScan(p) \/ ReaperPageDone(p)
    \/ \E j \in Jobs : SkipRecent(p, j) \/ FindExpired(p, j)
    \/ CheckPending(p) \/ DeleteLeaked(p)
    \/ PrepareRequeue(p) \/ Requeue(p)
    \/ PreparePermafail(p) \/ Permafail(p) \/ PermafailMissing(p) \/ RecordPermafail(p)
=============================================================================
