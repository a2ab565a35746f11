-------------------------- MODULE RedisQueueProofs --------------------------
(***************************************************************************)
(* Proofs about RedisQueue, for every set of jobs, workers, processes and  *)
(* reapers and every bound.                                                *)
(*                                                                         *)
(* ClaimExclusive and AtMostOnce are not inductive.  IInv adds:            *)
(*   Shape  what a hash and the copies of it in workers and reapers may    *)
(*          hold (RedisShapeProofs);                                       *)
(*   Once   a job with Retry = false that is pending, or held by a worker  *)
(*          that has not called the handler, has not run yet; and a job    *)
(*          that was not dispatched has left no trace anywhere.            *)
(***************************************************************************)
EXTENDS RedisShapeProofs

OnceOf(j) ==
    /\ j \notin dispatched =>
          /\ pending[j] = NoKey /\ locked[j] = NoKey /\ executions[j] = 0
          /\ \A w \in Workers : wjob[w] # j
          /\ \A p \in Reapers : rjob[p] # j
    /\ j \notin RetryJobs =>
          /\ executions[j] <= 1
          /\ pending[j] # NoKey => executions[j] = 0
          /\ \A w \in Workers : wpc[w] \in BeforeRun /\ wjob[w] = j => executions[j] = 0

Once == \A j \in Jobs : OnceOf(j)

IInv == TypeOK /\ Shape /\ ClaimExclusive /\ Once

-----------------------------------------------------------------------------
\* A step that neither makes job i pending, claims it nor starts its handler
\* keeps OnceOf(i).
LEMMA OnceElsewhere ==
    ASSUME NEW i \in Jobs, OnceOf(i), UNCHANGED dispatched, executions'[i] = executions[i],
           pending'[i] # NoKey => pending[i] # NoKey,
           locked'[i] # NoKey => locked[i] # NoKey \/ i \in dispatched,
           \A w \in Workers : wjob'[w] = i =>
               wjob[w] = i /\ (wpc'[w] \in BeforeRun => wpc[w] \in BeforeRun),
           \A p \in Reapers : rjob'[p] = i => rjob[p] = i \/ i \in dispatched
    PROVE  OnceOf(i)'
BY DEF OnceOf

\* A dispatched job that has Retry, or has not run, may be pending or held.
LEMMA OnceFresh ==
    ASSUME NEW i \in Jobs, i \in dispatched', i \notin RetryJobs => executions'[i] = 0
    PROVE  OnceOf(i)'
BY DEF OnceOf

\* A step that makes no job pending, claims none and starts no handler keeps
\* Once and ClaimExclusive.
LEMMA QuietStep ==
    ASSUME Once, ClaimExclusive, ValuesAssumption,
           UNCHANGED <<executions, dispatched>>,
           \A j \in Jobs : pending'[j] # NoKey => pending[j] # NoKey,
           \A j \in Jobs : locked'[j] # NoKey => locked[j] # NoKey \/ j \in dispatched,
           \A w \in Workers :
               /\ wjob'[w] \in {wjob[w], Unset}
               /\ wpc'[w] \in Holding => wpc[w] \in Holding /\ wjob'[w] = wjob[w]
               /\ wpc'[w] \in BeforeRun => wpc[w] \in BeforeRun,
           \A p \in Reapers : rjob'[p] \in {rjob[p], Unset} \cup dispatched
    PROVE  Once' /\ ClaimExclusive'
<1>1. ClaimExclusive'
  <2>1. \A j \in Jobs : Exists(pending, j)' => Exists(pending, j)
    BY DEF Exists
  <2>2. \A w \in Workers, j \in Jobs : Holds(w, j)' => Holds(w, j)
    BY DEF Holds
  <2> QED BY ONLY ClaimExclusive, <2>1, <2>2 DEF ClaimExclusive, Protected
<1>2. Once'
  <2> SUFFICES ASSUME NEW j \in Jobs PROVE OnceOf(j)'
    BY DEF Once
  <2>1. j # Unset /\ OnceOf(j)
    BY DEF ValuesAssumption, Once
  <2> QED BY <2>1, OnceElsewhere
<1> QED BY <1>1, <1>2

\* Every step keeps Once and ClaimExclusive.  Those that are not quiet are
\* Dispatch, Claim, GiveBack, StartHandler, Retry and Requeue.
LEMMA OnceStep == IInv /\ [Next]_vars => Once' /\ ClaimExclusive'
<1> SUFFICES ASSUME TypeOK, KeyShape, WorkerShape, ReaperShape, ClaimExclusive, Once, [Next]_vars
             PROVE  Once' /\ ClaimExclusive'
  BY DEF IInv, Shape
<1> USE ValuesAssumption DEF shared, keys, wvars, rvars
<1>1. CASE UNCHANGED vars
  BY <1>1, QuietStep DEF vars
<1>2. ASSUME NEW j \in Jobs, NEW at \in DispatchAts, Dispatch(j, at) PROVE Once' /\ ClaimExclusive'
  <2>1. /\ executions[j] = 0
        /\ \A w \in Workers : wjob[w] # j
    BY <1>2 DEF Dispatch, Once, OnceOf
  <2>2. \A i \in Jobs \ {j} : pending'[i] = pending[i]
    BY <1>2 DEF Dispatch, HSetPending, TypeOK
  <2>3. ClaimExclusive'
    BY <1>2, <2>1, <2>2 DEF Dispatch, ClaimExclusive, Protected, Holds, Exists
  <2>4. Once'
    <3>1. OnceOf(j)'
      BY <1>2, <2>1, OnceFresh DEF Dispatch
    <3>2. ASSUME NEW i \in Jobs \ {j} PROVE OnceOf(i)'
      BY <1>2, <2>2 DEF Dispatch, Once, OnceOf
    <3> QED BY <3>1, <3>2 DEF Once
  <2> QED BY <2>3, <2>4
<1>3. ASSUME NEW p \in Procs, Crash(p) PROVE Once' /\ ClaimExclusive'
  BY <1>3, QuietStep DEF Crash, TypeOK, Holding, BeforeRun, AfterStart
<1>4. ASSUME NEW p \in Procs, Close(p) PROVE Once' /\ ClaimExclusive'
  BY <1>4, QuietStep DEF Close
<1>5. ASSUME NEW p \in Procs, NEW name \in Names, RegisterHandler(p, name)
      PROVE  Once' /\ ClaimExclusive'
  BY <1>5, QuietStep DEF RegisterHandler
<1>6. ASSUME Tick PROVE Once' /\ ClaimExclusive'
  <2>1. \A j \in Jobs : pending'[j] # NoKey => pending[j] # NoKey
    BY <1>6, Zenon DEF Tick, Aged
  <2>2. \A j \in Jobs : locked'[j] # NoKey => locked[j] # NoKey
    BY <1>6, Zenon DEF Tick, Aged
  <2> QED BY <1>6, <2>1, <2>2, QuietStep DEF Tick
<1>7. ASSUME NEW w \in Workers, WorkerNext(w) PROVE Once' /\ ClaimExclusive'
  <2> UNCHANGED <<rvars, dispatched>> /\ WorkerStep(w)
    BY <1>7 DEF WorkerNext
  <2>0. wjob[w] \in Jobs => wjob[w] \in dispatched
    BY DEF Once, OnceOf
  <2> USE DEF TypeOK, Holding, BeforeRun, AfterStart
  <2>1. CASE ScanBreak(w)
    BY <2>1, QuietStep DEF ScanBreak, Return, Idle
  <2>2. CASE ScanSleep(w)
    BY <2>2, QuietStep DEF ScanSleep, Goto
  <2>3. CASE Scan(w)
    BY <2>3, QuietStep DEF Scan
  <2>4. CASE PageDone(w)
    BY <2>4, QuietStep DEF PageDone
  <2>5. ASSUME NEW j \in Jobs, ClaimLost(w, j) PROVE Once' /\ ClaimExclusive'
    BY <2>5, QuietStep DEF ClaimLost
  <2>6. ASSUME NEW j \in Jobs, Claim(w, j) PROVE Once' /\ ClaimExclusive'
    <3>1. /\ j \in dispatched /\ pending[j] # NoKey
          /\ j \notin RetryJobs => executions[j] = 0
      BY <2>6 DEF Claim, Exists, Once, OnceOf
    <3>2. Protected(j) => \A v \in Workers : ~Holds(v, j)
      BY <3>1 DEF ClaimExclusive, Exists
    <3>3. /\ pending'[j] = NoKey /\ \A i \in Jobs \ {j} : pending'[i] = pending[i]
          /\ \A i \in Jobs \ {j} : locked'[i] = locked[i]
      BY <2>6 DEF Claim, RenamePendingLocked
    <3>4. /\ wjob'[w] = j /\ \A v \in Workers \ {w} : wjob'[v] = wjob[v]
          /\ wpc'[w] = "stamp" /\ \A v \in Workers \ {w} : wpc'[v] = wpc[v]
          /\ wpc[w] = "next"
          /\ UNCHANGED executions
      BY <2>6 DEF Claim
    <3>5. ClaimExclusive'
      <4>1. /\ ~Exists(pending, j)'
            /\ \A i \in Jobs \ {j} : Exists(pending, i)' <=> Exists(pending, i)
        BY ONLY <3>3 DEF Exists
      <4>2. /\ \A v \in Workers \ {w}, i \in Jobs : Holds(v, i)' <=> Holds(v, i)
            /\ \A i \in Jobs \ {j} : ~Holds(w, i)'
        BY ONLY <3>4 DEF Holds
      <4> QED BY ONLY ClaimExclusive, <3>2, <4>1, <4>2 DEF ClaimExclusive, Protected
    <3>6. Once'
      <4>1. OnceOf(j)'
        BY ONLY <3>1, <3>4, j \in Jobs, UNCHANGED dispatched, OnceFresh
      <4>2. ASSUME NEW i \in Jobs \ {j} PROVE OnceOf(i)'
        <5>1. OnceOf(i) /\ i # Unset /\ UNCHANGED <<rjob, dispatched>>
          BY DEF Once, ValuesAssumption
        <5> QED BY ONLY <3>3, <3>4, <5>1, OnceElsewhere, i \in Jobs \ {j}, w \in Workers
      <4> QED BY <4>1, <4>2 DEF Once
    <3> QED BY <3>5, <3>6
  <2>7. CASE StampLock(w)
    <3>1. wjob[w] \in Jobs
      BY <2>7 DEF StampLock, WorkerShape
    <3>2. \A j \in Jobs : locked'[j] # NoKey => locked[j] # NoKey \/ j \in dispatched
      BY <2>0, <2>7, <3>1 DEF StampLock, HSetLocked
    <3> QED BY <2>7, <3>2, QuietStep DEF StampLock, Goto
  <2>8. CASE ReadUnparseable(w)
    BY <2>8, QuietStep DEF ReadUnparseable, Return, Idle
  <2>9. CASE ReadNotDue(w)
    BY <2>9, QuietStep DEF ReadNotDue, Goto
  <2>10. CASE ReadDue(w)
    BY <2>10, QuietStep DEF ReadDue
  <2>11. CASE GiveBack(w)
    <3>0. wjob[w] \in Jobs
      BY <2>11 DEF GiveBack, WorkerShape
    <3> PICK j \in Jobs : j = wjob[w]
      BY <3>0
    <3>1. j \in Jobs /\ j \in dispatched /\ Holds(w, j)
          /\ (j \notin RetryJobs => executions[j] = 0)
      BY <2>0, <2>11 DEF GiveBack, WorkerShape, Holds, Once, OnceOf
    <3>2. Protected(j) => \A v \in Workers \ {w} : ~Holds(v, j)
      BY <3>1 DEF ClaimExclusive
    <3>3. /\ \A i \in Jobs \ {j} : pending'[i] = pending[i]
          /\ locked'[j] = NoKey /\ \A i \in Jobs \ {j} : locked'[i] = locked[i]
      BY <2>11, <3>1 DEF GiveBack, RenameLockedPending
    <3>4. /\ wjob'[w] = Unset /\ \A v \in Workers \ {w} : wjob'[v] = wjob[v]
          /\ wpc'[w] = "next" /\ \A v \in Workers \ {w} : wpc'[v] = wpc[v]
          /\ UNCHANGED executions
      BY <2>11 DEF GiveBack, NextKey, Idle
    <3>5. ClaimExclusive'
      <4>1. \A i \in Jobs \ {j} : Exists(pending, i)' <=> Exists(pending, i)
        BY ONLY <3>3 DEF Exists
      <4>2. /\ \A v \in Workers \ {w}, i \in Jobs : Holds(v, i)' <=> Holds(v, i)
            /\ \A i \in Jobs : ~Holds(w, i)'
        BY ONLY <3>4 DEF Holds, Holding, BeforeRun, AfterStart
      <4> QED BY ONLY ClaimExclusive, <3>2, <4>1, <4>2 DEF ClaimExclusive, Protected
    <3>6. Once'
      <4>1. OnceOf(j)'
        BY ONLY <3>1, <3>4, j \in Jobs, UNCHANGED dispatched, OnceFresh
      <4>2. ASSUME NEW i \in Jobs \ {j} PROVE OnceOf(i)'
        <5>1. OnceOf(i) /\ i # Unset /\ UNCHANGED <<rjob, dispatched>>
          BY DEF Once, ValuesAssumption
        <5> QED BY ONLY <3>3, <3>4, <5>1, OnceElsewhere, i \in Jobs \ {j}, w \in Workers
      <4> QED BY <4>1, <4>2 DEF Once
    <3> QED BY <3>5, <3>6
  <2>12. CASE GiveBackMissing(w)
    BY <2>12, QuietStep DEF GiveBackMissing, Return, Idle
  <2>13. CASE Activate(w)
    <3>1. wjob[w] \in Jobs /\ cachedJob[w].ID = wjob[w]
      BY <2>13 DEF Activate, WorkerShape, CachedSteps
    <3>2. \A j \in Jobs : locked'[j] # NoKey => locked[j] # NoKey \/ j \in dispatched
      BY <2>0, <2>13, <3>1 DEF Activate, HSetLocked
    <3> QED BY <2>13, <3>2, QuietStep DEF Activate, Goto
  <2>14. CASE StartHandler(w)
    <3>0. wjob[w] \in Jobs
      BY <2>14 DEF StartHandler, WorkerShape
    <3> PICK j \in Jobs : j = wjob[w]
      BY <3>0
    <3>1. j \in Jobs /\ j \in dispatched /\ Holds(w, j)
          /\ (j \notin RetryJobs => executions[j] = 0)
      BY <2>0, <2>14 DEF StartHandler, WorkerShape, Holds, Once, OnceOf
    <3>2. Protected(j) => pending[j] = NoKey /\ \A v \in Workers \ {w} : ~Holds(v, j)
      BY <3>1 DEF ClaimExclusive, Exists
    <3>3. \A i \in Jobs \ {j} : executions'[i] = executions[i]
      BY <2>14 DEF StartHandler
    <3>4. j \notin RetryJobs => executions'[j] <= 1
      BY <2>14, <3>1 DEF StartHandler
    <3>5. /\ UNCHANGED <<pending, locked, wjob>>
          /\ wpc'[w] = "run" /\ \A v \in Workers \ {w} : wpc'[v] = wpc[v]
      BY <2>14 DEF StartHandler
    <3>6. ClaimExclusive'
      <4>1. \A i \in Jobs : Exists(pending, i)' <=> Exists(pending, i)
        BY ONLY <3>5 DEF Exists
      <4>2. \A v \in Workers, i \in Jobs : Holds(v, i)' => Holds(v, i)
        BY ONLY <3>1, <3>5 DEF Holds
      <4> QED BY ONLY ClaimExclusive, <4>1, <4>2 DEF ClaimExclusive, Protected
    <3>7. Once'
      <4>1. OnceOf(j)'
        BY <3>1, <3>2, <3>4, <3>5 DEF OnceOf, Protected, Holds
      <4>2. ASSUME NEW i \in Jobs \ {j} PROVE OnceOf(i)'
        <5>1. OnceOf(i) /\ wjob[w] # i /\ UNCHANGED <<rjob, dispatched>>
          BY DEF Once
        <5> QED BY ONLY <3>3, <3>5, <5>1, OnceElsewhere, i \in Jobs \ {j}, w \in Workers
      <4> QED BY <4>1, <4>2 DEF Once
    <3> QED BY <3>6, <3>7
  <2>15. CASE NoHandler(w)
    BY <2>15, QuietStep DEF NoHandler
  <2>16. CASE HandlerOk(w)
    BY <2>16, QuietStep DEF HandlerOk, Goto
  <2>17. CASE HandlerError(w)
    BY <2>17, QuietStep DEF HandlerError, Goto
  <2>18. CASE WriteBack(w)
    <3>1. wjob[w] \in Jobs
      BY <2>18 DEF WriteBack, WorkerShape
    <3>2. \A j \in Jobs : locked'[j] # NoKey => locked[j] # NoKey \/ j \in dispatched
      BY <2>0, <2>18, <3>1 DEF WriteBack, HSetLocked
    <3> QED BY <2>18, <3>2, QuietStep DEF WriteBack, Goto
  <2>19. CASE Complete(w)
    BY <2>19, QuietStep DEF Complete, RenameLockedCompleted, NextKey, Idle
  <2>20. CASE Fail(w)
    BY <2>20, QuietStep DEF Fail, RenameLockedFailed, Goto
  <2>21. CASE FinalMoveMissing(w)
    BY <2>21, QuietStep DEF FinalMoveMissing, NextKey, Idle
  <2>22. CASE RecordFailure(w)
    BY <2>22, QuietStep DEF RecordFailure, NextKey, Idle
  <2>23. CASE Retry(w)
    <3>0. wjob[w] \in Jobs
      BY <2>23 DEF Retry, WorkerShape
    <3> PICK j \in Jobs : j = wjob[w]
      BY <3>0
    <3>1. j \in Jobs /\ j \in dispatched /\ Holds(w, j) /\ j \in RetryJobs
      BY <2>0, <2>23, NoKeyAssumption DEF Retry, WorkerShape, Holds, HashOf, CachedSteps
    <3>2. Protected(j) => \A v \in Workers \ {w} : ~Holds(v, j)
      BY <3>1 DEF ClaimExclusive
    <3>3. UNCHANGED locked /\ \A i \in Jobs \ {j} : pending'[i] = pending[i]
      BY <2>23, <3>1 DEF Retry, HSetPending
    <3>4. /\ wjob'[w] = Unset /\ \A v \in Workers \ {w} : wjob'[v] = wjob[v]
          /\ wpc'[w] = "next" /\ \A v \in Workers \ {w} : wpc'[v] = wpc[v]
          /\ UNCHANGED executions
      BY <2>23 DEF Retry, NextKey, Idle
    <3>5. ClaimExclusive'
      <4>1. \A i \in Jobs \ {j} : Exists(pending, i)' <=> Exists(pending, i)
        BY ONLY <3>3 DEF Exists
      <4>2. /\ \A v \in Workers \ {w}, i \in Jobs : Holds(v, i)' <=> Holds(v, i)
            /\ \A i \in Jobs : ~Holds(w, i)'
        BY ONLY <3>4 DEF Holds, Holding, BeforeRun, AfterStart
      <4> QED BY ONLY ClaimExclusive, <3>2, <4>1, <4>2 DEF ClaimExclusive, Protected
    <3>6. Once'
      <4>1. OnceOf(j)'
        BY ONLY <3>1, <3>4, j \in Jobs, UNCHANGED dispatched, OnceFresh
      <4>2. ASSUME NEW i \in Jobs \ {j} PROVE OnceOf(i)'
        <5>1. OnceOf(i) /\ i # Unset /\ UNCHANGED <<rjob, dispatched>>
          BY DEF Once, ValuesAssumption
        <5> QED BY ONLY <3>3, <3>4, <5>1, OnceElsewhere, i \in Jobs \ {j}, w \in Workers
      <4> QED BY <4>1, <4>2 DEF Once
    <3> QED BY <3>5, <3>6
  <2> QED
    BY <2>1, <2>2, <2>3, <2>4, <2>5, <2>6, <2>7, <2>8, <2>9, <2>10, <2>11, <2>12, <2>13, <2>14,
       <2>15, <2>16, <2>17, <2>18, <2>19, <2>20, <2>21, <2>22, <2>23 DEF WorkerStep
<1>8. ASSUME NEW w \in Workers, WorkerFault(w) PROVE Once' /\ ClaimExclusive'
  <2> USE DEF TypeOK, Holding, BeforeRun, AfterStart
  <2>1. UNCHANGED <<pending, locked, rjob, executions, dispatched>>
    BY <1>8 DEF WorkerFault, CommandRefused, ConnectionLost, Return, NextKey, Goto
  <2>2. CASE ConnectionLost(w) \/ Return(w) \/ NextKey(w)
    BY <2>1, <2>2, QuietStep DEF ConnectionLost, Return, NextKey, Idle
  <2>3. CASE wpc[w] = "stamp" /\ Goto(w, "read")
    BY <2>1, <2>3, QuietStep DEF Goto
  <2>4. CASE UNCHANGED <<wpc, wjob>>
    BY <2>1, <2>4, QuietStep
  <2> QED BY <1>8, <2>2, <2>3, <2>4 DEF WorkerFault, CommandRefused
<1>9. ASSUME NEW p \in Reapers, ReaperNext(p) PROVE Once' /\ ClaimExclusive'
  <2> UNCHANGED <<wvars, dispatched>> /\ ReaperStep(p)
    BY <1>9 DEF ReaperNext
  <2>0. rjob[p] \in Jobs => rjob[p] \in dispatched
    BY DEF Once, OnceOf
  <2> USE DEF TypeOK, ReaperSteps, ReapSteps
  <2>1. CASE ReaperStop(p)
    BY <2>1, QuietStep DEF ReaperStop, RGoto
  <2>2. CASE ReaperScan(p)
    BY <2>2, QuietStep DEF ReaperScan
  <2>3. CASE ReaperPageDone(p)
    BY <2>3, QuietStep DEF ReaperPageDone, RGoto
  <2>4. ASSUME NEW j \in Jobs, SkipRecent(p, j) PROVE Once' /\ ClaimExclusive'
    BY <2>4, QuietStep DEF SkipRecent
  <2>5. ASSUME NEW j \in Jobs, FindExpired(p, j) PROVE Once' /\ ClaimExclusive'
    <3>1. j \in dispatched
      BY <2>5 DEF FindExpired, Expired, LockAge, Fields, ZeroJob, Once, OnceOf
    <3> QED BY <2>5, <3>1, QuietStep DEF FindExpired
  <2>6. CASE CheckPending(p)
    BY <2>6, QuietStep DEF CheckPending, RGoto
  <2>7. CASE DeleteLeaked(p)
    BY <2>7, QuietStep DEF DeleteLeaked, Del, RNextKey
  <2>8. CASE PrepareRequeue(p)
    <3>1. rjob[p] \in Jobs
      BY <2>8 DEF PrepareRequeue, ReaperShape
    <3>2. \A j \in Jobs : locked'[j] # NoKey => locked[j] # NoKey \/ j \in dispatched
      BY <2>0, <2>8, <3>1 DEF PrepareRequeue, HSetLocked
    <3> QED BY <2>8, <3>2, QuietStep DEF PrepareRequeue, RGoto
  <2>9. CASE Requeue(p)
    <3>0. rjob[p] \in Jobs
      BY <2>9 DEF Requeue, ReaperShape
    <3> PICK j \in Jobs : j = rjob[p]
      BY <3>0
    <3>1. j \in Jobs /\ j \in RetryJobs /\ j \in dispatched
      BY <2>0, <2>9, NoKeyAssumption DEF Requeue, ReaperShape, HashOf
    <3>2. ~Protected(j)
      BY <3>1 DEF Protected
    <3>3. /\ \A i \in Jobs \ {j} : pending'[i] = pending[i] /\ locked'[i] = locked[i]
          /\ \A q \in Reapers : rjob'[q] \in {rjob[q], Unset}
      BY <2>9, <3>1 DEF Requeue, RenameLockedPending, RNextKey
    <3>4. ClaimExclusive'
      <4>1. \A i \in Jobs : Protected(i) => i # j
        BY <3>2
      <4>2. \A i \in Jobs \ {j} : Exists(pending, i)' <=> Exists(pending, i)
        BY <3>3 DEF Exists
      <4>3. \A v \in Workers, i \in Jobs : Holds(v, i)' <=> Holds(v, i)
        BY DEF Holds
      <4> QED BY ONLY ClaimExclusive, <4>1, <4>2, <4>3 DEF ClaimExclusive, Protected
    <3>5. Once'
      <4>1. OnceOf(j)'
        BY ONLY <3>1, UNCHANGED dispatched, OnceFresh
      <4>2. ASSUME NEW i \in Jobs \ {j} PROVE OnceOf(i)'
        <5>1. OnceOf(i) /\ i # Unset /\ UNCHANGED <<wpc, wjob, executions, dispatched>>
          BY DEF Once, ValuesAssumption
        <5> QED BY ONLY <3>3, <5>1, OnceElsewhere, i \in Jobs \ {j}
      <4> QED BY <4>1, <4>2 DEF Once
    <3> QED BY <3>4, <3>5
  <2>10. CASE PreparePermafail(p)
    <3>1. rjob[p] \in Jobs
      BY <2>10 DEF PreparePermafail, ReaperShape
    <3>2. \A j \in Jobs : locked'[j] # NoKey => locked[j] # NoKey \/ j \in dispatched
      BY <2>0, <2>10, <3>1 DEF PreparePermafail, HSetLocked
    <3> QED BY <2>10, <3>2, QuietStep DEF PreparePermafail, RGoto
  <2>11. CASE Permafail(p)
    BY <2>11, QuietStep DEF Permafail, RenameLockedFailed, RGoto
  <2>12. CASE PermafailMissing(p)
    BY <2>12, QuietStep DEF PermafailMissing, RNextKey
  <2>13. CASE RecordPermafail(p)
    BY <2>13, QuietStep DEF RecordPermafail, RNextKey
  <2> QED
    BY <2>1, <2>2, <2>3, <2>4, <2>5, <2>6, <2>7, <2>8, <2>9, <2>10, <2>11, <2>12, <2>13
    DEF ReaperStep
<1>10. ASSUME NEW p \in Reapers, ReaperFault(p) PROVE Once' /\ ClaimExclusive'
  BY <1>10, QuietStep DEF ReaperFault, ReaperError, RNextKey, TypeOK
<1> QED
  BY <1>1, <1>2, <1>3, <1>4, <1>5, <1>6, <1>7, <1>8, <1>9, <1>10 DEF Next

-----------------------------------------------------------------------------
\* The inductive invariant holds before the first Dispatch,
LEMMA InitIInv == Init => IInv
<1> SUFFICES ASSUME Init PROVE Once /\ ClaimExclusive
  BY InitInv DEF IInv
<1>1. ClaimExclusive
  BY DEF Init, ClaimExclusive, Holds, Holding, BeforeRun, AfterStart
<1>2. Once
  <2>1. \A j \in Jobs : j # Unset
    BY ValuesAssumption
  <2>2. \A j \in Jobs : pending[j] = NoKey /\ locked[j] = NoKey /\ executions[j] = 0
    BY Zenon DEF Init
  <2>3. \A w \in Workers : wjob[w] = Unset
    BY DEF Init
  <2>4. \A p \in Reapers : rjob[p] = Unset
    BY DEF Init, ReaperInit
  <2>5. ASSUME NEW j \in Jobs PROVE executions[j] <= 1
    <3>1. executions[j] = 0
      BY <2>2
    <3> QED BY ONLY <3>1
  <2> QED BY Zenon, <2>1, <2>2, <2>3, <2>4, <2>5 DEF Once, OnceOf
<1> QED BY <1>1, <1>2

\* and for ever.
LEMMA InductiveInvariant == Spec => []IInv
<1>1. IInv /\ [Next]_vars => IInv'
  BY TypeStep, ShapeStep, OnceStep DEF IInv
<1> QED BY InitIInv, <1>1, PTL DEF Spec

\* In every reachable state of every instance each variable has its type; in
\* particular the frame count of a worker stays within its recursion and a
\* worker only takes a job name from the claimed key.
THEOREM TypeCorrect == Spec => []TypeOK
<1>1. IInv => TypeOK
  BY DEF IInv
<1> QED BY InductiveInvariant, <1>1, PTL

\* A handler runs with the job of the claimed key, never with the blank Job of
\* a vanished or partly written hash: the retry-after gate of cursorScanRedisDb
\* rejects every hash that lacks the fields of a dispatched job.
THEOREM HandlersGetWholeJobs == Spec => []RunsWholeJob
<1>1. IInv => RunsWholeJob
  BY NoKeyAssumption DEF IInv, Shape, WorkerShape, CachedSteps, RunsWholeJob
<1> QED BY InductiveInvariant, <1>1, PTL

\* The claim by RENAME is exclusive: for any number of workers, processes,
\* jobs, crashes and failing commands, and with reapers for every job
\* dispatched with Retry = false.
THEOREM ClaimsAreExclusive == Spec => []ClaimExclusive
<1>1. IInv => ClaimExclusive
  BY DEF IInv
<1> QED BY InductiveInvariant, <1>1, PTL

\* A job dispatched with Retry = false runs at most once, for any number of
\* workers, processes, reapers, crashes and failing commands.
THEOREM NonRetriedJobsRunAtMostOnce == Spec => []AtMostOnce
<1>1. IInv => AtMostOnce
  BY Zenon DEF IInv, Once, OnceOf, AtMostOnce
<1> QED BY InductiveInvariant, <1>1, PTL
=============================================================================
