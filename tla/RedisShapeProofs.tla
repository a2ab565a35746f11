-------------------------- MODULE RedisShapeProofs --------------------------
(***************************************************************************)
(* Types and shape of the redis backend, for every set of jobs, workers,   *)
(* processes and reapers and every bound: what a hash, and the copies of   *)
(* it in workers and reapers, may hold.  Retry is only ever set in a hash  *)
(* of a job dispatched with it, and a gate only in a hash that names its   *)
(* job, so a partly written hash never passes for a job.                   *)
(***************************************************************************)
EXTENDS RedisQueue, TLAPS

\* What a hash of job j may hold.
HashOf(hash, j) ==
    hash # NoKey =>
        /\ hash.Retry => j \in RetryJobs /\ hash.ID = j
        /\ hash.RetryAfter # Unset => hash.ID = j

KeyShape == \A j \in Jobs : HashOf(pending[j], j) /\ HashOf(locked[j], j)

\* The steps at which a worker uses its copy of the job.
CachedSteps == {"activate", "lookup", "failRow"} \cup AfterStart
WorkerShape ==
    \A w \in Workers :
        /\ wpc[w] \in Holding \cup {"failRow"} => wjob[w] \in Jobs
        /\ wpc[w] \in CachedSteps =>
              /\ cachedJob[w] \in JobHash
              /\ cachedJob[w].ID = wjob[w]
              /\ HashOf(cachedJob[w], wjob[w])
        /\ wpc[w] = "retry" => cachedJob[w].Retry

\* The steps at which a reaper uses its copy of the job.
ReapSteps == ReaperSteps \ {"wait", "next", "exited"}
ReaperShape ==
    \A p \in Reapers :
        /\ rpc[p] \in ReapSteps =>
              rjob[p] \in Jobs /\ rsnap[p] \in JobHash /\ HashOf(rsnap[p], rjob[p])
        /\ rpc[p] \in {"requeue", "requeueMove"} => rsnap[p].Retry

Shape == KeyShape /\ WorkerShape /\ ReaperShape

\* The passage of time (Tick) keeps a hash a hash, and every field but the
\* three times as it is.
LEMMA AgedType ==
    ASSUME NEW h \in JobHash \cup {NoKey}
    PROVE  /\ Aged(h) \in JobHash \cup {NoKey}
           /\ Aged(h) = NoKey <=> h = NoKey
           /\ h # NoKey => /\ Aged(h).ID = h.ID
                           /\ Aged(h).Retry = h.Retry
                           /\ Aged(h).RetryCounter = h.RetryCounter
                           /\ Aged(h).RetryAfter = Unset <=> h.RetryAfter = Unset
<1>1. CASE h = NoKey
  BY <1>1, NoKeyAssumption DEF Aged
<1>2. CASE h \in JobHash
  <2>1. Older(h.ReservedAt) \in Ages /\ Older(h.LockedAt) \in Ages
    BY <1>2, BoundsAssumption, ValuesAssumption DEF Older, Ages, JobHash
  <2>2. /\ Nearer(h.RetryAfter) \in Nat \cup {Unset, Garbage}
        /\ Nearer(h.RetryAfter) = Unset <=> h.RetryAfter = Unset
    BY <1>2, ValuesAssumption DEF Nearer, JobHash
  <2>3. Aged(h) = [h EXCEPT !.ReservedAt = Older(h.ReservedAt), !.LockedAt = Older(h.LockedAt),
                            !.RetryAfter = Nearer(h.RetryAfter)]
    BY <1>2, NoKeyAssumption DEF Aged
  <2>4. Aged(h) \in JobHash
    BY <1>2, <2>1, <2>2, <2>3, Zenon DEF JobHash
  <2> QED BY <1>2, <2>2, <2>3, <2>4, NoKeyAssumption, Zenon DEF JobHash
<1> QED BY <1>1, <1>2

\* What HGETALL reads is a job, also with LockedAt written by the claim.
LEMMA FieldsType ==
    ASSUME NEW h \in JobHash \cup {NoKey}
    PROVE  Fields(h) \in JobHash /\ [Fields(h) EXCEPT !.LockedAt = 0] \in JobHash
<1>1. ZeroJob \in JobHash
  BY DEF ZeroJob, JobHash, Ages
<1>2. Fields(h) \in JobHash
  BY <1>1 DEF Fields
<1>3. 0 \in Ages
  BY BoundsAssumption DEF Ages
<1> QED BY <1>2, <1>3 DEF JobHash

\* A return of cursorScanRedisDb keeps the types: the frame count stays within
\* its range.
LEMMA ReturnType ==
    ASSUME TypeOK, NEW w \in Workers, Return(w)
    PROVE  /\ wpc' \in [Workers -> WorkerSteps]
           /\ batch' \in [Workers -> SUBSET Jobs]
           /\ wjob' \in [Workers -> Jobs \cup {Unset}]
           /\ cachedJob' \in [Workers -> JobHash \cup {NoKey}]
           /\ depth' \in [Workers -> 0 .. MaxDepth]
           /\ heldFor' \in [Workers -> 0 .. MaxAge]
           /\ UNCHANGED <<executions, handlers>>
<1>1. depth' \in [Workers -> 0 .. MaxDepth]
  <2>1. depth[w] \in 0 .. MaxDepth
    BY DEF TypeOK
  <2>2. (IF depth[w] = 0 THEN 0 ELSE depth[w] - 1) \in 0 .. MaxDepth
    BY <2>1, WorkersAssumption
  <2> QED BY <2>2 DEF TypeOK, Return
<1> QED BY <1>1, BoundsAssumption DEF TypeOK, Return, Idle, WorkerSteps

\* The state before the first Dispatch is well formed.
LEMMA InitInv == Init => TypeOK /\ Shape
<1> SUFFICES ASSUME Init PROVE TypeOK /\ Shape
  OBVIOUS
<1>1. TypeOK
  BY JobsAssumption, BoundsAssumption, ValuesAssumption, WorkersAssumption, QueueAssumption
  DEF Init, ReaperInit, TypeOK, WorkerSteps, ReaperSteps
<1>2. Shape
  BY DEF Init, ReaperInit, Shape, KeyShape, WorkerShape, ReaperShape, HashOf, Holding,
         BeforeRun, AfterStart, CachedSteps, ReapSteps, ReaperSteps
<1> QED BY <1>1, <1>2

\* Every step of workers, reapers, clients and faults keeps the types.
LEMMA TypeStep == TypeOK /\ Shape /\ [Next]_vars => TypeOK'
<1> SUFFICES ASSUME TypeOK, Shape, [Next]_vars PROVE TypeOK'
  OBVIOUS
<1> USE JobsAssumption, BoundsAssumption, ValuesAssumption, WorkersAssumption, QueueAssumption,
        ReapersAssumption
<1>1. CASE UNCHANGED vars
  BY <1>1 DEF TypeOK, vars, shared, keys, wvars, rvars
<1>2. ASSUME NEW j \in Jobs, NEW at \in DispatchAts, Dispatch(j, at) PROVE TypeOK'
  <2>1. NewJob(j, at) \in JobHash
    BY DEF NewJob, JobHash, Ages
  <2> QED BY <1>2, <2>1 DEF TypeOK, Dispatch, HSetPending, wvars, rvars
<1>3. ASSUME NEW p \in Procs, Crash(p) PROVE TypeOK'
  BY <1>3 DEF TypeOK, Crash, Fault, keys, WorkerSteps, ReaperSteps
<1>4. ASSUME NEW p \in Procs, Close(p) PROVE TypeOK'
  BY <1>4 DEF TypeOK, Close, keys, wvars, rvars
<1>5. ASSUME NEW p \in Procs, NEW name \in Names, RegisterHandler(p, name) PROVE TypeOK'
  BY <1>5 DEF TypeOK, RegisterHandler, shared, keys, rvars
<1>6. ASSUME Tick PROVE TypeOK'
  BY <1>6, AgedType DEF TypeOK, Tick, Older
<1>7. ASSUME NEW w \in Workers, WorkerNext(w) PROVE TypeOK'
  <2> USE DEF TypeOK, rvars, shared, keys
  <2> UNCHANGED <<rvars, dispatched, faults>> /\ WorkerStep(w)
    BY <1>7 DEF WorkerNext
  <2>1. CASE ScanBreak(w)
    BY <2>1, ReturnType DEF ScanBreak
  <2>2. CASE ScanSleep(w)
    BY <2>2 DEF ScanSleep, Goto, WorkerSteps
  <2>3. CASE Scan(w)
    BY <2>3 DEF Scan, ScanPages, WorkerSteps
  <2>4. CASE PageDone(w)
    BY <2>4 DEF PageDone, WorkerSteps
  <2>5. ASSUME NEW j \in Jobs, ClaimLost(w, j) PROVE TypeOK'
    BY <2>5 DEF ClaimLost
  <2>6. ASSUME NEW j \in Jobs, Claim(w, j) PROVE TypeOK'
    BY <2>6 DEF Claim, RenamePendingLocked, WorkerSteps, Holding, BeforeRun
  <2>7. CASE StampLock(w)
    <3>1. wjob[w] \in Jobs
      BY <2>7 DEF StampLock, Shape, WorkerShape, Holding, BeforeRun
    <3>2. [Fields(locked[wjob[w]]) EXCEPT !.LockedAt = 0] \in JobHash
      BY <3>1, FieldsType
    <3> QED BY <2>7, <3>1, <3>2 DEF StampLock, HSetLocked, Goto, WorkerSteps, Holding, BeforeRun
  <2>8. CASE ReadUnparseable(w)
    BY <2>8, ReturnType DEF ReadUnparseable
  <2>9. CASE ReadNotDue(w)
    BY <2>9 DEF ReadNotDue, Goto, WorkerSteps, Holding, BeforeRun
  <2>10. CASE ReadDue(w)
    <3>1. wjob[w] \in Jobs
      BY <2>10 DEF ReadDue, Shape, WorkerShape, Holding, BeforeRun
    <3> QED BY <2>10, <3>1 DEF ReadDue, WorkerSteps, Holding, BeforeRun
  <2>11. CASE GiveBack(w)
    BY <2>11 DEF GiveBack, RenameLockedPending, NextKey, Idle, WorkerSteps,
                 Shape, WorkerShape, Holding, BeforeRun
  <2>12. CASE GiveBackMissing(w)
    BY <2>12, ReturnType DEF GiveBackMissing
  <2>13. CASE Activate(w)
    <3>1. cachedJob[w].ID \in Jobs
      BY <2>13 DEF Activate, Shape, WorkerShape, Holding, BeforeRun, CachedSteps
    <3>2. Fields(locked[cachedJob[w].ID]) \in JobHash
      BY <3>1, FieldsType, Zenon
    <3> QED BY <2>13, <3>1, <3>2 DEF Activate, HSetLocked, Goto, WorkerSteps, Holding, BeforeRun
  <2>14. CASE StartHandler(w)
    <3>1. wjob[w] \in Jobs
      BY <2>14 DEF StartHandler, Shape, WorkerShape, Holding, BeforeRun
    <3>2. executions' \in [Jobs -> 0 .. MaxExecutions]
      BY <2>14, <3>1 DEF StartHandler
    <3> QED BY <2>14, <3>2 DEF StartHandler, WorkerSteps, Holding, AfterStart
  <2>15. CASE NoHandler(w)
    <3>1. cachedJob[w] \in JobHash
      BY <2>15 DEF NoHandler, Shape, WorkerShape, CachedSteps
    <3>2. [cachedJob[w] EXCEPT !.Retry = FALSE] \in JobHash
      BY <3>1, Zenon DEF JobHash
    <3> QED BY <2>15, <3>2 DEF NoHandler, WorkerSteps, Holding, AfterStart
  <2>16. CASE HandlerOk(w)
    BY <2>16 DEF HandlerOk, Goto, WorkerSteps, Holding, AfterStart
  <2>17. CASE HandlerError(w)
    BY <2>17 DEF HandlerError, Goto, WorkerSteps, Holding, AfterStart
  <2>18. CASE WriteBack(w)
    BY <2>18 DEF WriteBack, HSetLocked, Goto, WorkerSteps, Holding, AfterStart,
                 Shape, WorkerShape, CachedSteps
  <2>19. CASE Complete(w)
    BY <2>19 DEF Complete, RenameLockedCompleted, NextKey, Idle, WorkerSteps,
                 Shape, WorkerShape, Holding, AfterStart
  <2>20. CASE Fail(w)
    BY <2>20 DEF Fail, RenameLockedFailed, Goto, WorkerSteps,
                 Shape, WorkerShape, Holding, AfterStart
  <2>21. CASE FinalMoveMissing(w)
    BY <2>21 DEF FinalMoveMissing, NextKey, Idle, WorkerSteps
  <2>22. CASE RecordFailure(w)
    BY <2>22 DEF RecordFailure, InsertFailedRow, NextKey, Idle, WorkerSteps
  <2>23. CASE Retry(w)
    <3>1. wjob[w] \in Jobs /\ cachedJob[w] \in JobHash
      BY <2>23 DEF Retry, Shape, WorkerShape, Holding, AfterStart, CachedSteps
    <3>2. NextRetryAfter(cachedJob[w]) \in Nat /\ cachedJob[w].RetryCounter + 1 \in Nat
      BY <3>1 DEF NextRetryAfter, JobHash
    <3>3. Retried(cachedJob[w]) \in JobHash
      BY <3>1, <3>2, Zenon DEF Retried, JobHash
    <3> QED BY <2>23, <3>1, <3>3 DEF Retry, HSetPending, NextKey, Idle, WorkerSteps
  <2> QED
    BY <2>1, <2>2, <2>3, <2>4, <2>5, <2>6, <2>7, <2>8, <2>9, <2>10, <2>11, <2>12, <2>13, <2>14,
       <2>15, <2>16, <2>17, <2>18, <2>19, <2>20, <2>21, <2>22, <2>23, Zenon DEF WorkerStep
<1>8. ASSUME NEW w \in Workers, WorkerFault(w) PROVE TypeOK'
  <2> USE DEF TypeOK, rvars, shared, keys
  <2>1. faults' \in 0 .. MaxFaults /\ UNCHANGED <<rvars, dispatched, shared>>
    BY <1>8 DEF WorkerFault, Fault, CommandRefused, ConnectionLost
  <2>2. CASE ConnectionLost(w)
    BY <2>1, <2>2 DEF ConnectionLost, Idle, WorkerSteps
  <2>3. CASE Return(w)
    BY <2>1, <2>3, ReturnType
  <2>4. CASE NextKey(w)
    BY <2>1, <2>4 DEF NextKey, Idle, WorkerSteps
  <2>5. CASE Goto(w, "read")
    BY <2>1, <2>5 DEF Goto, WorkerSteps, Holding, BeforeRun
  <2>6. ASSUME NEW j \in batch[w], batch' = [batch EXCEPT ![w] = @ \ {j}],
               UNCHANGED <<wpc, wjob, cachedJob, depth, heldFor, executions, handlers>>
        PROVE  TypeOK'
    BY <2>1, <2>6
  <2> QED
    BY <1>8, <2>2, <2>3, <2>4, <2>5, <2>6 DEF WorkerFault, CommandRefused
<1>9. ASSUME NEW p \in Reapers, ReaperNext(p) PROVE TypeOK'
  <2> USE DEF TypeOK, wvars, shared, keys, ReaperSteps
  <2> UNCHANGED <<wvars, dispatched, faults>> /\ ReaperStep(p)
    BY <1>9 DEF ReaperNext
  <2>1. CASE ReaperStop(p)
    BY <2>1 DEF ReaperStop, RGoto
  <2>2. CASE ReaperScan(p)
    BY <2>2 DEF ReaperScan, ScanPages
  <2>3. CASE ReaperPageDone(p)
    BY <2>3 DEF ReaperPageDone, RGoto
  <2>4. ASSUME NEW j \in Jobs, SkipRecent(p, j) PROVE TypeOK'
    BY <2>4 DEF SkipRecent
  <2>5. ASSUME NEW j \in Jobs, FindExpired(p, j) PROVE TypeOK'
    BY <2>5 DEF FindExpired
  <2>6. CASE CheckPending(p)
    BY <2>6 DEF CheckPending, RGoto
  <2>7. CASE DeleteLeaked(p)
    BY <2>7, Zenon DEF DeleteLeaked, Del, RNextKey
  <2>8. CASE PrepareRequeue(p)
    <3>1. rjob[p] \in Jobs /\ rsnap[p] \in JobHash
      BY <2>8 DEF PrepareRequeue, Shape, ReaperShape, ReapSteps
    <3> DEFINE n == rsnap[p].RetryCounter + 1
    <3>2. n \in Nat /\ n * Backoff \in Nat
      BY <3>1 DEF JobHash
    <3>3. [rsnap[p] EXCEPT !.RetryCounter = n, !.RetryAfter = n * Backoff, !.LockedAt = Unset]
             \in JobHash
      BY <3>1, <3>2, Zenon DEF JobHash, Ages
    <3> QED BY <2>8, <3>1, <3>3 DEF PrepareRequeue, HSetLocked, RGoto
  <2>9. CASE Requeue(p)
    <3>1. rjob[p] \in Jobs
      BY <2>9 DEF Requeue, Shape, ReaperShape, ReapSteps
    <3>2. /\ pending' \in [Jobs -> JobHash \cup {NoKey}]
          /\ locked' \in [Jobs -> JobHash \cup {NoKey}]
          /\ UNCHANGED <<completed, failed, failedRows, systemShutdown>>
      BY <2>9, <3>1 DEF Requeue, RenameLockedPending
    <3> QED BY <2>9, <3>2 DEF Requeue, RNextKey
  <2>10. CASE PreparePermafail(p)
    <3>1. rjob[p] \in Jobs /\ rsnap[p] \in JobHash
      BY <2>10 DEF PreparePermafail, Shape, ReaperShape, ReapSteps
    <3>2. rsnap[p].RetryCounter + 1 \in Nat
      BY <3>1 DEF JobHash
    <3>3. [rsnap[p] EXCEPT !.RetryCounter = @ + 1, !.LockedAt = Unset] \in JobHash
      BY <3>1, <3>2, Zenon DEF JobHash, Ages
    <3> QED BY <2>10, <3>1, <3>3 DEF PreparePermafail, HSetLocked, RGoto
  <2>11. CASE Permafail(p)
    BY <2>11 DEF Permafail, RenameLockedFailed, RGoto, Shape, ReaperShape, ReapSteps
  <2>12. CASE PermafailMissing(p)
    BY <2>12 DEF PermafailMissing, RNextKey
  <2>13. CASE RecordPermafail(p)
    BY <2>13 DEF RecordPermafail, InsertFailedRow, RNextKey
  <2> QED
    BY <2>1, <2>2, <2>3, <2>4, <2>5, <2>6, <2>7, <2>8, <2>9, <2>10, <2>11, <2>12, <2>13, Zenon
    DEF ReaperStep
<1>10. ASSUME NEW p \in Reapers, ReaperFault(p) PROVE TypeOK'
  <2> USE DEF TypeOK, wvars, shared, keys
  <2>1. faults' \in 0 .. MaxFaults /\ UNCHANGED <<wvars, dispatched, shared>>
    BY <1>10 DEF ReaperFault, Fault, ReaperError
  <2>2. CASE RNextKey(p)
    BY <2>1, <2>2 DEF RNextKey, ReaperSteps
  <2>3. ASSUME NEW j \in rbatch[p], rbatch' = [rbatch EXCEPT ![p] = @ \ {j}],
               UNCHANGED <<rpc, rjob, rsnap>>
        PROVE  TypeOK'
    BY <2>1, <2>3
  <2> QED
    BY <1>10, <2>2, <2>3 DEF ReaperFault, ReaperError
<1> QED
  BY <1>1, <1>2, <1>3, <1>4, <1>5, <1>6, <1>7, <1>8, <1>9, <1>10 DEF Next

-----------------------------------------------------------------------------
\* Steps that write neither pending nor locked keep the shape of the hashes.
LEMMA KeyKept == KeyShape /\ UNCHANGED <<pending, locked>> => KeyShape'
BY DEF KeyShape

\* HSET of a well-formed hash on a locked key keeps the shape of the hashes.
LEMMA LockedWritten ==
    ASSUME TypeOK, KeyShape, NEW j \in Jobs, NEW h, HashOf(h, j), HSetLocked(j, h), UNCHANGED pending
    PROVE  KeyShape'
BY DEF TypeOK, KeyShape, HSetLocked

\* So does HSET on a pending key (Dispatch and the retry of handleRedisJob),
LEMMA PendingWritten ==
    ASSUME TypeOK, KeyShape, NEW j \in Jobs, NEW h, HashOf(h, j), HSetPending(j, h), UNCHANGED locked
    PROVE  KeyShape'
BY DEF TypeOK, KeyShape, HSetPending

\* so does removing a locked key (DEL, RENAME to completed or failed),
LEMMA LockedDropped ==
    ASSUME TypeOK, KeyShape, NEW j \in Jobs, locked' = [locked EXCEPT ![j] = NoKey], UNCHANGED pending
    PROVE  KeyShape'
BY DEF TypeOK, KeyShape, HashOf

\* and so does RENAME between pending and locked.
LEMMA Renamed ==
    ASSUME TypeOK, KeyShape, NEW j \in Jobs, RenamePendingLocked(j) \/ RenameLockedPending(j)
    PROVE  KeyShape'
<1>1. HashOf(NoKey, j)
  BY DEF HashOf
<1> QED BY <1>1 DEF TypeOK, KeyShape, RenamePendingLocked, RenameLockedPending

\* Steps that leave the workers alone keep the shape of their copies.
LEMMA WorkerKept == WorkerShape /\ UNCHANGED <<wpc, wjob, cachedJob>> => WorkerShape'
BY DEF WorkerShape

\* So does a worker that lets go of its job,
LEMMA WorkerIdle ==
    ASSUME TypeOK, WorkerShape, NEW w \in Workers, NEW step \in {"scan", "sleep", "next", "exited"},
           wpc' = [wpc EXCEPT ![w] = step],
           NEW k, wjob' = [wjob EXCEPT ![w] = k], NEW h, cachedJob' = [cachedJob EXCEPT ![w] = h]
    PROVE  WorkerShape'
BY DEF TypeOK, WorkerShape, Holding, BeforeRun, AfterStart, CachedSteps

\* as does a return from cursorScanRedisDb or going on with the next key,
LEMMA WorkerReturns ==
    ASSUME TypeOK, WorkerShape, NEW w \in Workers, Return(w) \/ NextKey(w)
    PROVE  WorkerShape'
<1>1. CASE Return(w)
  <2>1. PICK step \in {"scan", "exited"} : wpc' = [wpc EXCEPT ![w] = step]
    BY <1>1, Zenon DEF Return
  <2> QED BY <1>1, <2>1, WorkerIdle, Zenon DEF Return, Idle
<1>2. CASE NextKey(w)
  BY <1>2, WorkerIdle, Zenon DEF NextKey, Idle
<1> QED BY <1>1, <1>2

\* and one that goes on to a step at which its copy is used as before.
LEMMA WorkerMoves ==
    ASSUME TypeOK, WorkerShape, NEW w \in Workers, NEW step \in WorkerSteps,
           step \in Holding \cup {"failRow"} => wpc[w] \in Holding \cup {"failRow"},
           step \in CachedSteps => wpc[w] \in CachedSteps,
           step = "retry" => cachedJob[w].Retry,
           wpc' = [wpc EXCEPT ![w] = step], UNCHANGED <<wjob, cachedJob>>
    PROVE  WorkerShape'
BY DEF TypeOK, WorkerShape

\* Steps that leave the reapers alone keep the shape of their copies.
LEMMA ReaperKept == ReaperShape /\ UNCHANGED <<rpc, rjob, rsnap>> => ReaperShape'
BY DEF ReaperShape

\* So does a reaper that is done with a key,
LEMMA ReaperIdle ==
    ASSUME TypeOK, ReaperShape, NEW p \in Reapers, RNextKey(p)
    PROVE  ReaperShape'
BY DEF TypeOK, ReaperShape, RNextKey, ReapSteps

\* and one that goes on to a step at which its copy is used as before.
LEMMA ReaperMoves ==
    ASSUME TypeOK, ReaperShape, NEW p \in Reapers, NEW step \in ReaperSteps, RGoto(p, step),
           step \in ReapSteps => rpc[p] \in ReapSteps,
           step \in {"requeue", "requeueMove"} => rsnap[p].Retry
    PROVE  ReaperShape'
BY DEF TypeOK, ReaperShape, RGoto

\* Every step keeps hashes and copies well formed.
LEMMA ShapeStep == TypeOK /\ Shape /\ [Next]_vars => Shape'
<1> SUFFICES ASSUME TypeOK, KeyShape, WorkerShape, ReaperShape, [Next]_vars
             PROVE  KeyShape' /\ WorkerShape' /\ ReaperShape'
  BY DEF Shape
<1> USE DEF shared, keys, wvars, rvars
<1>1. CASE UNCHANGED vars
  BY <1>1, KeyKept, WorkerKept, ReaperKept DEF vars
<1>2. ASSUME NEW j \in Jobs, NEW at \in DispatchAts, Dispatch(j, at)
      PROVE  KeyShape' /\ WorkerShape' /\ ReaperShape'
  <2>1. HashOf(NewJob(j, at), j)
    BY Zenon DEF HashOf, NewJob
  <2> QED BY <1>2, <2>1, PendingWritten, WorkerKept, ReaperKept DEF Dispatch
<1>3. ASSUME NEW p \in Procs, Crash(p) PROVE KeyShape' /\ WorkerShape' /\ ReaperShape'
  <2>1. KeyShape'
    BY <1>3, KeyKept DEF Crash
  <2>2. WorkerShape'
    BY <1>3 DEF Crash, TypeOK, WorkerShape, Holding, BeforeRun, AfterStart, CachedSteps
  <2>3. ReaperShape'
    BY <1>3 DEF Crash, TypeOK, ReaperShape, ReapSteps
  <2> QED BY <2>1, <2>2, <2>3
<1>4. ASSUME NEW p \in Procs, Close(p) PROVE KeyShape' /\ WorkerShape' /\ ReaperShape'
  BY <1>4, KeyKept, WorkerKept, ReaperKept DEF Close
<1>5. ASSUME NEW p \in Procs, NEW name \in Names, RegisterHandler(p, name)
      PROVE  KeyShape' /\ WorkerShape' /\ ReaperShape'
  BY <1>5, KeyKept, WorkerKept, ReaperKept DEF RegisterHandler
<1>6. ASSUME Tick PROVE KeyShape' /\ WorkerShape' /\ ReaperShape'
  <2>1. ASSUME NEW h \in JobHash \cup {NoKey}, NEW j, HashOf(h, j) PROVE HashOf(Aged(h), j)
    BY <2>1, AgedType DEF HashOf
  <2>2. KeyShape'
    BY <1>6, <2>1 DEF Tick, TypeOK, KeyShape
  <2>3. ASSUME NEW w \in Workers, wpc[w] \in CachedSteps
        PROVE  /\ cachedJob'[w] \in JobHash
               /\ cachedJob'[w].ID = wjob[w]
               /\ cachedJob'[w].Retry = cachedJob[w].Retry
               /\ HashOf(cachedJob'[w], wjob[w])
    <3>1. cachedJob[w] \in JobHash /\ cachedJob[w].ID = wjob[w] /\ HashOf(cachedJob[w], wjob[w])
      BY <2>3 DEF WorkerShape
    <3>2. cachedJob'[w] = Aged(cachedJob[w])
      BY <1>6 DEF Tick
    <3> QED BY <3>1, <3>2, <2>1, AgedType, NoKeyAssumption
  <2>4. WorkerShape'
    BY <1>6, <2>3 DEF Tick, WorkerShape, CachedSteps, AfterStart
  <2>5. ASSUME NEW p \in Reapers, rpc[p] \in ReapSteps
        PROVE  /\ rsnap'[p] \in JobHash
               /\ rsnap'[p].Retry = rsnap[p].Retry
               /\ HashOf(rsnap'[p], rjob[p])
    <3>1. rsnap[p] \in JobHash /\ HashOf(rsnap[p], rjob[p])
      BY <2>5 DEF ReaperShape
    <3>2. rsnap'[p] = Aged(rsnap[p])
      BY <1>6 DEF Tick
    <3> QED BY <3>1, <3>2, <2>1, AgedType, NoKeyAssumption
  <2>6. ReaperShape'
    BY <1>6, <2>5 DEF Tick, ReaperShape, ReapSteps, ReaperSteps
  <2> QED BY <2>2, <2>4, <2>6
<1>7. ASSUME NEW w \in Workers, WorkerNext(w) PROVE KeyShape' /\ WorkerShape' /\ ReaperShape'
  <2> SUFFICES KeyShape' /\ WorkerShape'
    BY <1>7, ReaperKept DEF WorkerNext
  <2> USE DEF WorkerSteps, Holding, BeforeRun, AfterStart, CachedSteps
  <2>1. CASE ScanBreak(w)
    BY <2>1, KeyKept, WorkerReturns DEF ScanBreak
  <2>2. CASE ScanSleep(w)
    BY <2>2, KeyKept, WorkerMoves, Zenon DEF ScanSleep, Goto
  <2>3. CASE Scan(w)
    BY <2>3, KeyKept, WorkerMoves, Zenon DEF Scan
  <2>4. CASE PageDone(w)
    BY <2>4, KeyKept, WorkerMoves, Zenon DEF PageDone
  <2>5. ASSUME NEW j \in Jobs, ClaimLost(w, j) PROVE KeyShape' /\ WorkerShape'
    BY <2>5, KeyKept, WorkerKept DEF ClaimLost
  <2>6. ASSUME NEW j \in Jobs, Claim(w, j) PROVE KeyShape' /\ WorkerShape'
    <3>1. KeyShape'
      BY <2>6, Renamed DEF Claim
    <3>2. WorkerShape'
      BY <2>6 DEF Claim, TypeOK, WorkerShape
    <3> QED BY <3>1, <3>2
  <2>7. CASE StampLock(w)
    <3> DEFINE j == wjob[w]
               h == [Fields(locked[j]) EXCEPT !.LockedAt = 0]
    <3>1. j \in Jobs
      BY <2>7 DEF StampLock, WorkerShape
    <3>2. HashOf(Fields(locked[j]), j)
      BY <3>1 DEF KeyShape, HashOf, Fields, ZeroJob
    <3>3. Fields(locked[j]) \in JobHash
      BY <3>1, FieldsType, Zenon DEF TypeOK
    <3>4. HashOf(h, j)
      BY <3>2, <3>3, NoKeyAssumption DEF HashOf, JobHash
    <3>5. KeyShape'
      BY <2>7, <3>1, <3>4, LockedWritten DEF StampLock
    <3> QED BY <2>7, <3>5, WorkerMoves, Zenon DEF StampLock, Goto
  <2>8. CASE ReadUnparseable(w)
    BY <2>8, KeyKept, WorkerReturns DEF ReadUnparseable
  <2>9. CASE ReadNotDue(w)
    BY <2>9, KeyKept, WorkerMoves, Zenon DEF ReadNotDue, Goto
  <2>10. CASE ReadDue(w)
    <3> DEFINE j == wjob[w]
    <3>1. j \in Jobs
      BY <2>10 DEF ReadDue, WorkerShape
    <3>2. locked[j] \in JobHash /\ locked[j].RetryAfter # Unset
      BY <2>10, <3>1, ValuesAssumption DEF ReadDue, Fields, ZeroJob, TypeOK
    <3>3. locked[j].ID = j /\ HashOf(locked[j], j)
      BY <3>1, <3>2, NoKeyAssumption DEF KeyShape, HashOf
    <3>4. KeyShape'
      BY <2>10, KeyKept DEF ReadDue
    <3>5. WorkerShape'
      BY <2>10, <3>1, <3>2, <3>3 DEF ReadDue, TypeOK, WorkerShape
    <3> QED BY <3>4, <3>5
  <2>11. CASE GiveBack(w)
    <3>1. wjob[w] \in Jobs
      BY <2>11 DEF GiveBack, WorkerShape
    <3> QED BY <2>11, <3>1, Renamed, WorkerReturns DEF GiveBack
  <2>12. CASE GiveBackMissing(w)
    BY <2>12, KeyKept, WorkerReturns DEF GiveBackMissing
  <2>13. CASE Activate(w)
    <3> DEFINE j == cachedJob[w].ID
    <3>1. j \in Jobs
      BY <2>13 DEF Activate, WorkerShape
    <3>2. HashOf(Fields(locked[j]), j)
      BY <3>1 DEF KeyShape, HashOf, Fields, ZeroJob
    <3>3. KeyShape'
      BY <2>13, <3>1, <3>2, LockedWritten DEF Activate
    <3> QED BY <2>13, <3>3, WorkerMoves, Zenon DEF Activate, Goto
  <2>14. CASE StartHandler(w)
    BY <2>14, KeyKept, WorkerMoves, Zenon DEF StartHandler
  <2>15. CASE NoHandler(w)
    <3> DEFINE h == [cachedJob[w] EXCEPT !.Retry = FALSE]
    <3>1. wjob[w] \in Jobs /\ cachedJob[w] \in JobHash /\ cachedJob[w].ID = wjob[w]
      BY <2>15 DEF NoHandler, WorkerShape
    <3>2. h \in JobHash /\ h.ID = wjob[w] /\ ~h.Retry
      BY <3>1, Zenon DEF JobHash
    <3>3. HashOf(h, wjob[w])
      BY <3>2 DEF HashOf
    <3>4. cachedJob' = [cachedJob EXCEPT ![w] = h]
      BY <2>15 DEF NoHandler
    <3> HIDE DEF h
    <3>5. WorkerShape'
      <4>1. /\ cachedJob'[w] = h /\ wpc'[w] = "fail" /\ UNCHANGED wjob
            /\ \A v \in Workers \ {w} : cachedJob'[v] = cachedJob[v] /\ wpc'[v] = wpc[v]
        BY <2>15, <3>4 DEF NoHandler, TypeOK
      <4> QED BY ONLY WorkerShape, <3>1, <3>2, <3>3, <4>1 DEF WorkerShape
    <3> QED BY <2>15, <3>5, KeyKept DEF NoHandler
  <2>16. CASE HandlerOk(w)
    BY <2>16, KeyKept, WorkerMoves, Zenon DEF HandlerOk, Goto
  <2>17. CASE HandlerError(w)
    BY <2>17, KeyKept, WorkerMoves, Zenon DEF HandlerError, Goto, MayRetry
  <2>18. CASE WriteBack(w)
    <3>1. wjob[w] \in Jobs /\ HashOf(cachedJob[w], wjob[w])
      BY <2>18 DEF WriteBack, WorkerShape
    <3>2. KeyShape'
      BY <2>18, <3>1, LockedWritten DEF WriteBack
    <3> QED BY <2>18, <3>2, WorkerMoves, Zenon DEF WriteBack, Goto
  <2>19. CASE Complete(w)
    <3>1. wjob[w] \in Jobs
      BY <2>19 DEF Complete, WorkerShape
    <3> QED BY <2>19, <3>1, LockedDropped, WorkerReturns, Zenon DEF Complete, RenameLockedCompleted
  <2>20. CASE Fail(w)
    <3>1. wjob[w] \in Jobs
      BY <2>20 DEF Fail, WorkerShape
    <3> QED BY <2>20, <3>1, LockedDropped, WorkerMoves, Zenon DEF Fail, RenameLockedFailed, Goto
  <2>21. CASE FinalMoveMissing(w)
    BY <2>21, KeyKept, WorkerReturns DEF FinalMoveMissing
  <2>22. CASE RecordFailure(w)
    BY <2>22, KeyKept, WorkerReturns DEF RecordFailure
  <2>23. CASE Retry(w)
    <3>1. wjob[w] \in Jobs /\ cachedJob[w] \in JobHash /\ cachedJob[w].ID = wjob[w]
          /\ HashOf(cachedJob[w], wjob[w])
      BY <2>23 DEF Retry, WorkerShape
    <3>2. HashOf(Retried(cachedJob[w]), wjob[w])
      BY <3>1, NoKeyAssumption DEF HashOf, Retried, JobHash
    <3> QED BY <2>23, <3>1, <3>2, PendingWritten, WorkerReturns DEF Retry
  <2> QED
    BY <1>7, <2>1, <2>2, <2>3, <2>4, <2>5, <2>6, <2>7, <2>8, <2>9, <2>10, <2>11, <2>12, <2>13,
       <2>14, <2>15, <2>16, <2>17, <2>18, <2>19, <2>20, <2>21, <2>22, <2>23
    DEF WorkerNext, WorkerStep
<1>8. ASSUME NEW w \in Workers, WorkerFault(w) PROVE KeyShape' /\ WorkerShape' /\ ReaperShape'
  <2>1. KeyShape' /\ ReaperShape'
    BY <1>8, KeyKept, ReaperKept DEF WorkerFault, CommandRefused, ConnectionLost
  <2>2. CASE ConnectionLost(w) \/ Return(w) \/ NextKey(w)
    <3>1. CASE ConnectionLost(w)
      BY <2>1, <3>1, WorkerIdle, Zenon DEF ConnectionLost, Idle
    <3> QED BY <2>1, <2>2, <3>1, WorkerReturns
  <2>3. CASE wpc[w] = "stamp" /\ Goto(w, "read")
    BY <2>1, <2>3, WorkerMoves, Zenon DEF Goto, WorkerSteps, Holding, BeforeRun, AfterStart, CachedSteps
  <2>4. CASE UNCHANGED <<wpc, wjob, cachedJob>>
    BY <2>1, <2>4, WorkerKept
  <2> QED BY <1>8, <2>2, <2>3, <2>4 DEF WorkerFault, CommandRefused
<1>9. ASSUME NEW p \in Reapers, ReaperNext(p) PROVE KeyShape' /\ WorkerShape' /\ ReaperShape'
  <2> SUFFICES KeyShape' /\ ReaperShape'
    BY <1>9, WorkerKept DEF ReaperNext
  <2> USE DEF ReaperSteps, ReapSteps
  <2>1. CASE ReaperStop(p)
    BY <2>1, KeyKept, ReaperMoves DEF ReaperStop
  <2>2. CASE ReaperScan(p)
    BY <2>2, KeyKept DEF ReaperScan, TypeOK, ReaperShape
  <2>3. CASE ReaperPageDone(p)
    BY <2>3, KeyKept, ReaperMoves DEF ReaperPageDone
  <2>4. ASSUME NEW j \in Jobs, SkipRecent(p, j) PROVE KeyShape' /\ ReaperShape'
    BY <2>4, KeyKept, ReaperKept DEF SkipRecent
  <2>5. ASSUME NEW j \in Jobs, FindExpired(p, j) PROVE KeyShape' /\ ReaperShape'
    <3>1. locked[j] \in JobHash
      BY <2>5 DEF FindExpired, Expired, LockAge, Fields, ZeroJob, TypeOK
    <3>2. ReaperShape'
      BY <2>5, <3>1 DEF FindExpired, TypeOK, ReaperShape, KeyShape
    <3> QED BY <2>5, <3>2, KeyKept DEF FindExpired
  <2>6. CASE CheckPending(p)
    BY <2>6, KeyKept, ReaperMoves DEF CheckPending, ReapMayRetry
  <2>7. CASE DeleteLeaked(p)
    <3>1. rjob[p] \in Jobs
      BY <2>7 DEF DeleteLeaked, ReaperShape
    <3> QED BY <2>7, <3>1, LockedDropped, ReaperIdle, Zenon DEF DeleteLeaked, Del
  <2>8. CASE PrepareRequeue(p)
    <3> DEFINE n == rsnap[p].RetryCounter + 1
               h == [rsnap[p] EXCEPT !.RetryCounter = n, !.RetryAfter = n * Backoff, !.LockedAt = Unset]
    <3>1. rjob[p] \in Jobs /\ rsnap[p] \in JobHash /\ rsnap[p].Retry /\ HashOf(rsnap[p], rjob[p])
      BY <2>8 DEF PrepareRequeue, ReaperShape
    <3>2. rsnap[p].ID = rjob[p] /\ rjob[p] \in RetryJobs
      BY <3>1, NoKeyAssumption DEF HashOf
    <3>3. HashOf(h, rjob[p])
      BY <3>1, <3>2 DEF HashOf, JobHash
    <3>4. KeyShape'
      BY <2>8, <3>1, <3>3, LockedWritten DEF PrepareRequeue
    <3> QED BY <2>8, <3>1, <3>4, ReaperMoves DEF PrepareRequeue
  <2>9. CASE Requeue(p)
    <3>1. rjob[p] \in Jobs
      BY <2>9 DEF Requeue, ReaperShape
    <3> QED BY <2>9, <3>1, KeyKept, Renamed, ReaperIdle DEF Requeue
  <2>10. CASE PreparePermafail(p)
    <3> DEFINE h == [rsnap[p] EXCEPT !.RetryCounter = @ + 1, !.LockedAt = Unset]
    <3>1. rjob[p] \in Jobs /\ rsnap[p] \in JobHash /\ HashOf(rsnap[p], rjob[p])
      BY <2>10 DEF PreparePermafail, ReaperShape
    <3>2. HashOf(h, rjob[p])
      BY <3>1, NoKeyAssumption DEF HashOf, JobHash
    <3>3. KeyShape'
      BY <2>10, <3>1, <3>2, LockedWritten DEF PreparePermafail
    <3> QED BY <2>10, <3>3, ReaperMoves DEF PreparePermafail
  <2>11. CASE Permafail(p)
    <3>1. rjob[p] \in Jobs
      BY <2>11 DEF Permafail, ReaperShape
    <3> QED BY <2>11, <3>1, LockedDropped, ReaperMoves, Zenon DEF Permafail, RenameLockedFailed
  <2>12. CASE PermafailMissing(p)
    BY <2>12, KeyKept, ReaperIdle DEF PermafailMissing
  <2>13. CASE RecordPermafail(p)
    BY <2>13, KeyKept, ReaperIdle DEF RecordPermafail
  <2> QED
    BY <1>9, <2>1, <2>2, <2>3, <2>4, <2>5, <2>6, <2>7, <2>8, <2>9, <2>10, <2>11, <2>12, <2>13
    DEF ReaperNext, ReaperStep
<1>10. ASSUME NEW p \in Reapers, ReaperFault(p) PROVE KeyShape' /\ WorkerShape' /\ ReaperShape'
  BY <1>10, KeyKept, WorkerKept, ReaperKept, ReaperIdle DEF ReaperFault, ReaperError
<1> QED
  BY <1>1, <1>2, <1>3, <1>4, <1>5, <1>6, <1>7, <1>8, <1>9, <1>10 DEF Next
=============================================================================
