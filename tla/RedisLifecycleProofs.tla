------------------------ MODULE RedisLifecycleProofs ------------------------
(***************************************************************************)
(* Proofs about RedisQueue while no lock expires (Reapers = {}): the redis *)
(* backend counts every attempt, loses no job and gives each one outcome,  *)
(* for every set of jobs, workers and processes and whatever crashes and   *)
(* failing commands interrupt.  Every step keeps RInv (RedisCountingProofs)*)
(* and, under it and IInv, changes the status of at most one job, by one   *)
(* move of JobLifecycle.                                                   *)
(***************************************************************************)
EXTENDS RedisCountingProofs

\* Every step of a worker keeps RInv.
LEMMA WorkerR ==
    ASSUME IInv, RInv, Reapers = {}, NEW w \in Workers, WorkerStep(w), UNCHANGED dispatched
    PROVE  RInv'
<1> USE DEF shared, keys, stored, Holding, BeforeRun, AfterStart
<1>0. /\ wpc \in [Workers -> WorkerSteps] /\ DOMAIN wjob = Workers /\ DOMAIN cachedJob = Workers
  BY DEF IInv, TypeOK
<1>1. CASE ScanBreak(w) \/ ReadUnparseable(w) \/ GiveBackMissing(w)
  BY <1>0, <1>1, LetGo DEF ScanBreak, ReadUnparseable, GiveBackMissing, Return, Idle
<1>2. CASE ScanSleep(w) \/ Scan(w) \/ PageDone(w)
  BY <1>0, <1>2, LetGo DEF ScanSleep, Scan, PageDone, Goto
<1>3. ASSUME NEW j \in Jobs, ClaimLost(w, j) PROVE RInv'
  BY <1>3, LetGo DEF ClaimLost
<1>4. ASSUME NEW j \in Jobs, Claim(w, j) PROVE RInv'
  BY <1>4, ClaimR
<1>5. CASE FinalMoveMissing(w)
  BY <1>0, <1>5, LetGo DEF FinalMoveMissing, NextKey, Idle
<1>6. CASE RecordFailure(w)
  BY <1>6, RecordR
<1>7. ASSUME wpc[w] \in Holding
      PROVE  /\ wjob[w] \in Jobs /\ Holds(w, wjob[w]) /\ HolderInv(w, wjob[w])
             /\ locked[wjob[w]] \in JobHash
             /\ wpc[w] \in CachedSteps => cachedJob[w] \in JobHash /\ cachedJob[w].ID = wjob[w]
  BY <1>7, Held
<1>8. CASE StampLock(w)
  <2>0. wpc[w] = "stamp" /\ wjob[w] \in Jobs
    BY <1>7, <1>8 DEF StampLock
  <2> PICK j \in Jobs : j = wjob[w]
    BY <2>0
  <2> DEFINE h == [locked[j] EXCEPT !.LockedAt = 0]
  <2>1. Holds(w, j) /\ HolderInv(w, j) /\ locked[j] \in JobHash
    BY <1>7, <2>0
  <2>2. /\ h \in JobHash /\ h.RetryCounter = locked[j].RetryCounter /\ h.Retry = locked[j].Retry
    BY <2>1, BoundsAssumption DEF JobHash, Ages
  <2>3. HSetLocked(j, h) /\ wpc'[w] = "read" /\ locked'[j] = h
    BY <1>0, <1>8, <2>1, NoKeyAssumption, Zenon DEF StampLock, HSetLocked, Goto, Fields, IInv, TypeOK
  <2> HIDE DEF h
  <2>4. HolderInv(w, j)'
    BY <1>8, <2>0, <2>1, <2>2, <2>3, NoKeyAssumption DEF StampLock, Goto, HolderInv, Ready
  <2> QED BY <1>0, <1>8, <2>1, <2>2, <2>3, <2>4, WriteR, NoKeyAssumption DEF StampLock, Goto
<1>9. CASE Activate(w)
  <2>0. wpc[w] = "activate" /\ wjob[w] \in Jobs
    BY <1>7, <1>9 DEF Activate
  <2> PICK j \in Jobs : j = wjob[w]
    BY <2>0
  <2>1. Holds(w, j) /\ HolderInv(w, j) /\ locked[j] \in JobHash /\ cachedJob[w].ID = j
    BY <1>7, <2>0 DEF CachedSteps
  <2>2. HSetLocked(j, locked[j]) /\ wpc'[w] = "lookup" /\ locked'[j] = locked[j]
    BY <1>0, <1>9, <2>1, NoKeyAssumption, Zenon DEF Activate, HSetLocked, Goto, Fields, IInv, TypeOK
  <2>3. HolderInv(w, j)'
    BY <1>9, <2>0, <2>1, <2>2 DEF Activate, Goto, HolderInv, Ready
  <2> QED BY <1>0, <1>9, <2>1, <2>2, <2>3, WriteR, NoKeyAssumption DEF Activate, Goto
<1>10. CASE WriteBack(w)
  <2>0. wpc[w] \in {"complete", "fail"} /\ wjob[w] \in Jobs
    BY <1>7, <1>10 DEF WriteBack
  <2> PICK j \in Jobs : j = wjob[w]
    BY <2>0
  <2>1. Holds(w, j) /\ HolderInv(w, j) /\ cachedJob[w] \in JobHash
    BY <1>7, <2>0 DEF CachedSteps
  <2>2. /\ HSetLocked(j, cachedJob[w]) /\ locked'[j] = cachedJob[w]
        /\ wpc[w] = "complete" => wpc'[w] = "completeMove"
        /\ wpc[w] = "fail" => wpc'[w] = "failMove"
    BY <1>0, <1>10, <2>0 DEF WriteBack, HSetLocked, Goto, IInv, TypeOK
  <2>3. HolderInv(w, j)'
    BY <1>10, <2>0, <2>1, <2>2, NoKeyAssumption DEF WriteBack, Goto, HolderInv, Ready
  <2> QED BY <1>0, <1>10, <2>0, <2>1, <2>2, <2>3, WriteR, NoKeyAssumption DEF WriteBack, Goto
<1>11. CASE ReadNotDue(w) \/ ReadDue(w)
  <2>0. wpc[w] = "read" /\ wjob[w] \in Jobs
    BY <1>7, <1>11 DEF ReadNotDue, ReadDue
  <2> PICK j \in Jobs : j = wjob[w]
    BY <2>0
  <2>1. Holds(w, j) /\ HolderInv(w, j)
    BY <1>7, <2>0
  <2>2. /\ UNCHANGED stored /\ wjob'[w] = j
        /\ wpc'[w] = "gate" \/ (wpc'[w] = "activate" /\ cachedJob'[w] = locked[j])
        /\ \A v \in Workers \ {w} :
               wpc'[v] = wpc[v] /\ wjob'[v] = wjob[v] /\ cachedJob'[v] = cachedJob[v]
    BY <1>0, <1>11 DEF ReadNotDue, ReadDue, Goto
  <2>3. HolderInv(w, j)'
    BY <2>0, <2>1, <2>2 DEF HolderInv, Ready
  <2> QED BY <2>1, <2>2, <2>3, GoesOn
<1>12. CASE HandlerOk(w) \/ HandlerError(w) \/ NoHandler(w)
  <2>0. wpc[w] \in {"run", "lookup"} /\ wjob[w] \in Jobs
    BY <1>7, <1>12 DEF HandlerOk, HandlerError, NoHandler
  <2> PICK j \in Jobs : j = wjob[w]
    BY <2>0
  <2>1. Holds(w, j) /\ HolderInv(w, j) /\ cachedJob[w] \in JobHash
    BY <1>7, <2>0 DEF CachedSteps
  <2>2. /\ UNCHANGED stored /\ wjob'[w] = j
        /\ \A v \in Workers \ {w} :
               wpc'[v] = wpc[v] /\ wjob'[v] = wjob[v] /\ cachedJob'[v] = cachedJob[v]
    BY <1>0, <1>12 DEF HandlerOk, HandlerError, NoHandler, Goto
  <2>3. CASE HandlerOk(w)
    <3>1. wpc[w] = "run" /\ wpc'[w] = "complete" /\ cachedJob'[w] = cachedJob[w]
      BY <1>0, <2>3 DEF HandlerOk, Goto
    <3>2. HolderInv(w, j)'
      BY <2>1, <2>2, <3>1 DEF HolderInv, Ready
    <3> QED BY <2>1, <2>2, <3>1, <3>2, GoesOn
  <2>4. CASE HandlerError(w)
    <3>1. /\ wpc[w] = "run" /\ cachedJob'[w] = cachedJob[w]
          /\ wpc'[w] = IF MayRetry(cachedJob[w]) THEN "retry" ELSE "fail"
      BY <1>0, <2>4 DEF HandlerError, Goto
    <3>2. /\ executions[j] = cachedJob[w].RetryCounter + 1
          /\ cachedJob[w].RetryCounter \in Nat
          /\ cachedJob[w].Retry <=> j \in RetryJobs
      BY <2>1, <3>1 DEF HolderInv, JobHash
    <3>3. /\ MayRetry(cachedJob[w]) => j \in RetryJobs /\ executions[j] <= MaxAttempts
          /\ ~MayRetry(cachedJob[w]) => (j \in RetryJobs => executions[j] > MaxAttempts)
      BY <3>2, Limits DEF MayRetry
    <3>4. HolderInv(w, j)'
      BY <2>1, <2>2, <3>1, <3>2, <3>3 DEF HolderInv, Ready
    <3> QED BY <2>1, <2>2, <3>1, <3>4, GoesOn
  <2>5. CASE NoHandler(w)
    <3>1. /\ wpc[w] = "lookup" /\ wpc'[w] = "fail"
          /\ cachedJob'[w].RetryCounter = cachedJob[w].RetryCounter
      BY <1>0, <2>1, <2>5 DEF NoHandler, JobHash
    <3>2. HolderInv(w, j)'
      BY <2>1, <2>2, <3>1 DEF HolderInv, Ready
    <3> QED BY <2>1, <2>2, <3>1, <3>2, GoesOn
  <2> QED BY <1>12, <2>3, <2>4, <2>5
<1>13. CASE StartHandler(w)
  <2>0. wpc[w] = "lookup" /\ wjob[w] \in Jobs
    BY <1>7, <1>13 DEF StartHandler
  <2> PICK j \in Jobs : j = wjob[w]
    BY <2>0
  <2>1. Holds(w, j) /\ HolderInv(w, j) /\ cachedJob[w] \in JobHash
    BY <1>7, <2>0 DEF CachedSteps
  <2>2. executions[j] <= MaxAttempts /\ executions[j] \in 0 .. MaxExecutions
    BY <2>0, <2>1 DEF HolderInv, Ready, IInv, TypeOK
  <2>3. /\ executions'[j] = executions[j] + 1
        /\ \A k \in Jobs \ {j} : executions'[k] = executions[k]
    BY <1>13, <2>2, WorkersAssumption, BoundsAssumption DEF StartHandler, IInv, TypeOK
  <2>4. /\ UNCHANGED <<pending, locked, completed, failed, failedRows, wjob, cachedJob>>
        /\ wpc'[w] = "run" /\ \A v \in Workers \ {w} : wpc'[v] = wpc[v]
    BY <1>0, <1>13 DEF StartHandler
  <2>5. HolderInv(w, j)'
    BY <2>0, <2>1, <2>2, <2>3, <2>4, Limits DEF HolderInv, Ready
  <2>6. JobInv(j) /\ pending[j] = NoKey
    BY <2>1, Alone DEF RInv
  <2>7. JobInv(j)'
    BY <2>2, <2>3, <2>4, <2>6, BoundsAssumption DEF JobInv, Settled
  <2>8. WorkerInv(w)' /\ \A k \in Jobs \ {j} : ~AtRow(w, k)'
    BY <2>4, <2>5, Holder DEF AtRow
  <2> QED BY <2>1, <2>3, <2>4, <2>7, <2>8, Alone, Local
<1>14. CASE GiveBack(w)
  <2>0. wpc[w] = "gate" /\ wjob[w] \in Jobs
    BY <1>7, <1>14 DEF GiveBack
  <2> PICK j \in Jobs : j = wjob[w]
    BY <2>0
  <2>1. Holds(w, j) /\ HolderInv(w, j) /\ JobInv(j)
    BY <1>7, <2>0 DEF RInv
  <2>2. /\ pending'[j] = locked[j] /\ locked'[j] = NoKey /\ locked[j] # NoKey
        /\ \A k \in Jobs \ {j} : pending'[k] = pending[k] /\ locked'[k] = locked[k]
        /\ UNCHANGED <<completed, failed, failedRows, executions>>
        /\ wpc'[w] = "next"
        /\ \A v \in Workers \ {w} :
               wpc'[v] = wpc[v] /\ wjob'[v] = wjob[v] /\ cachedJob'[v] = cachedJob[v]
    BY <1>0, <1>14 DEF GiveBack, RenameLockedPending, NextKey, Idle, Exists, IInv, TypeOK
  <2>3. Ready(locked[j], j) /\ ~Settled(j)
    BY <2>0, <2>1, Alone DEF HolderInv
  <2>4. JobInv(j)'
    BY <2>1, <2>2, <2>3 DEF JobInv, Settled, Ready
  <2> QED BY <2>1, <2>2, <2>4, EndsR
<1>15. CASE Retry(w)
  <2>0. wpc[w] = "retry" /\ wjob[w] \in Jobs
    BY <1>7, <1>15 DEF Retry
  <2> PICK j \in Jobs : j = wjob[w]
    BY <2>0
  <2>1. Holds(w, j) /\ HolderInv(w, j) /\ JobInv(j) /\ cachedJob[w] \in JobHash
    BY <1>7, <2>0 DEF RInv, CachedSteps
  <2>2. /\ pending'[j] = Retried(cachedJob[w])
        /\ \A k \in Jobs \ {j} : pending'[k] = pending[k]
        /\ UNCHANGED <<locked, completed, failed, failedRows, executions>>
        /\ wpc'[w] = "next"
        /\ \A v \in Workers \ {w} :
               wpc'[v] = wpc[v] /\ wjob'[v] = wjob[v] /\ cachedJob'[v] = cachedJob[v]
    BY <1>0, <1>15 DEF Retry, HSetPending, NextKey, Idle, IInv, TypeOK
  <2>3. /\ Retried(cachedJob[w]).RetryCounter = cachedJob[w].RetryCounter + 1
        /\ Retried(cachedJob[w]).Retry = cachedJob[w].Retry
    BY <2>1 DEF Retried, JobHash
  <2>4. Ready(pending[j], j)' /\ ~Settled(j) /\ locked[j] # NoKey
    BY <2>0, <2>1, <2>2, <2>3, Alone DEF HolderInv, Ready
  <2>5. JobInv(j)'
    BY <2>1, <2>2, <2>4 DEF JobInv, Settled
  <2> QED BY <2>1, <2>2, <2>5, EndsR
<1>16. CASE Complete(w)
  <2>0. wpc[w] = "completeMove" /\ wjob[w] \in Jobs
    BY <1>7, <1>16 DEF Complete
  <2> PICK j \in Jobs : j = wjob[w]
    BY <2>0
  <2>1. Holds(w, j) /\ JobInv(j)
    BY <1>7, <2>0 DEF RInv
  <2>2. /\ locked'[j] = NoKey /\ \A k \in Jobs \ {j} : locked'[k] = locked[k]
        /\ completed' = completed \cup {j}
        /\ UNCHANGED <<pending, failed, failedRows, executions>>
        /\ wpc'[w] = "next"
        /\ \A v \in Workers \ {w} :
               wpc'[v] = wpc[v] /\ wjob'[v] = wjob[v] /\ cachedJob'[v] = cachedJob[v]
    BY <1>0, <1>16 DEF Complete, RenameLockedCompleted, NextKey, Idle, IInv, TypeOK
  <2>3. ~Settled(j) /\ pending[j] = NoKey /\ j \in dispatched
    BY <2>1, Alone
  <2>4. JobInv(j)'
    BY <2>1, <2>2, <2>3 DEF JobInv, Settled
  <2> QED BY <2>1, <2>2, <2>4, EndsR
<1>17. CASE Fail(w)
  <2>0. wpc[w] = "failMove" /\ wjob[w] \in Jobs
    BY <1>7, <1>17 DEF Fail
  <2> PICK j \in Jobs : j = wjob[w]
    BY <2>0
  <2>1. Holds(w, j) /\ JobInv(j)
    BY <1>7, <2>0 DEF RInv
  <2>2. /\ locked'[j] = NoKey /\ \A k \in Jobs \ {j} : locked'[k] = locked[k]
        /\ failed' = failed \cup {j}
        /\ UNCHANGED <<pending, completed, failedRows, executions, wjob, cachedJob>>
        /\ wpc'[w] = "failRow" /\ \A v \in Workers \ {w} : wpc'[v] = wpc[v]
    BY <1>0, <1>17 DEF Fail, RenameLockedFailed, Goto, IInv, TypeOK
  <2>3. /\ ~Settled(j) /\ pending[j] = NoKey /\ j \in dispatched /\ failedRows[j] = 0
        /\ \A v \in Workers \ {w} : ~Holds(v, j)
        /\ \A v \in Workers : ~AtRow(v, j)
    BY <2>1, Alone
  <2>4. JobInv(j)'
    BY <2>1, <2>2, <2>3 DEF JobInv, Settled
  <2>5. RowInv(w, j)'
    BY <2>2, <2>3 DEF RowInv, AtRow
  <2>6. WorkerInv(w)'
    BY <2>2, <2>5 DEF WorkerInv, Holds, AtRow
  <2>7. \A k \in Jobs \ {j} : ~AtRow(w, k)'
    BY <2>2 DEF AtRow
  <2> QED BY <2>2, <2>3, <2>4, <2>6, <2>7, Local
<1> QED
  BY <1>1, <1>2, <1>3, <1>4, <1>5, <1>6, <1>8, <1>9, <1>10, <1>11, <1>12, <1>13, <1>14, <1>15,
     <1>16, <1>17 DEF WorkerStep

\* Every step of the system keeps RInv.
LEMMA StepR == ASSUME Reapers = {}, IInv, RInv, [Next]_vars PROVE RInv'
<1>1. CASE UNCHANGED vars
  BY <1>1, LetGo DEF vars, shared, keys, wvars, stored
<1>2. ASSUME NEW j \in Jobs, NEW at \in DispatchAts, Dispatch(j, at) PROVE RInv'
  BY <1>2, DispatchR
<1>3. ASSUME NEW p \in Procs, Crash(p) PROVE RInv'
  <2>1. \A v \in Workers :
            \/ wpc'[v] = wpc[v] /\ wjob'[v] = wjob[v] /\ cachedJob'[v] = cachedJob[v]
            \/ wpc'[v] = "scan"
    BY <1>3 DEF Crash
  <2>2. "scan" \notin Holding \cup {"failRow"}
    BY DEF Holding, BeforeRun, AfterStart
  <2> QED BY <1>3, <2>1, <2>2, LetGo DEF Crash, keys, stored
<1>4. ASSUME NEW p \in Procs, Close(p) PROVE RInv'
  BY <1>4, LetGo DEF Close, keys, wvars, stored
<1>5. ASSUME NEW p \in Procs, NEW name \in Names, RegisterHandler(p, name) PROVE RInv'
  BY <1>5, LetGo DEF RegisterHandler, shared, keys, stored
<1>6. ASSUME Tick PROVE RInv'
  BY <1>6, TickR
<1>7. ASSUME NEW w \in Workers, WorkerNext(w) PROVE RInv'
  BY <1>7, WorkerR DEF WorkerNext
<1>8. ASSUME NEW w \in Workers, WorkerFault(w) PROVE RInv'
  <2> USE DEF Holding, BeforeRun, AfterStart
  <2>0. wpc \in [Workers -> WorkerSteps] /\ DOMAIN wjob = Workers /\ DOMAIN cachedJob = Workers
    BY DEF IInv, TypeOK
  <2>1. UNCHANGED stored
    BY <1>8 DEF WorkerFault, CommandRefused, ConnectionLost, Return, NextKey, Goto, shared, keys, stored
  <2>2. CASE ConnectionLost(w) \/ Return(w) \/ NextKey(w)
    BY <2>0, <2>1, <2>2, LetGo DEF ConnectionLost, Return, NextKey, Idle
  <2>3. CASE wpc[w] = "stamp" /\ Goto(w, "read")
    <3>1. wjob[w] \in Jobs /\ Holds(w, wjob[w]) /\ HolderInv(w, wjob[w])
      BY <2>3, Held
    <3> PICK j \in Jobs : j = wjob[w]
      BY <3>1
    <3>2. HolderInv(w, j)'
      BY <2>0, <2>1, <2>3, <3>1, Zenon DEF Goto, HolderInv, Ready, stored
    <3> QED BY <2>0, <2>1, <2>3, <3>1, <3>2, GoesOn DEF Goto
  <2>4. CASE UNCHANGED <<wpc, wjob, cachedJob>>
    BY <2>1, <2>4, LetGo
  <2> QED BY <1>8, <2>2, <2>3, <2>4 DEF WorkerFault, CommandRefused
<1> QED
  BY <1>1, <1>2, <1>3, <1>4, <1>5, <1>6, <1>7, <1>8 DEF Next

\* What the hashes and copies have counted is right in every reachable state.
LEMMA RInvariant == ASSUME Reapers = {} PROVE Spec => []RInv
<1>1. IInv /\ RInv /\ [Next]_vars => RInv'
  BY StepR
<1> QED BY InitRInv, <1>1, InductiveInvariant, PTL DEF Spec

\* RetryCounter of a pending job is the number of its runs while no lock
\* expires: handleRedisJob counts every attempt once, whatever fails.
THEOREM AttemptsAreCounted == Spec => []AttemptsCounted
<1>1. CASE Reapers = {}
  <2>1. RInv => AttemptsCounted
    BY DEF RInv, JobInv, Ready, AttemptsCounted, Exists
  <2> QED BY <1>1, <2>1, RInvariant, PTL
<1>2. CASE Reapers # {}
  <2>1. AttemptsCounted
    BY <1>2 DEF AttemptsCounted
  <2> QED BY <2>1, PTL
<1> QED BY <1>1, <1>2

\* While no lock expires, MaxAttempts bounds the runs of a job as the
\* documentation says, up to the first one, which handleRedisJob does not count.
THEOREM AttemptsAreLimited ==
    ASSUME Reapers = {}
    PROVE  Spec => []MaxAttemptsBounds
<1>1. RInv => MaxAttemptsBounds
  BY Zenon DEF RInv, JobInv, MaxAttemptsBounds
<1> QED BY <1>1, RInvariant, PTL

\* A dispatched job always has a key while no lock expires: no sequence of
\* RENAME and HSET of the workers, crashes and refused commands loses it.
THEOREM JobsAreNeverLost == Spec => []NeverLost
<1>1. CASE Reapers = {}
  <2>1. IInv /\ RInv => NeverLost
    BY Zenon DEF IInv, TypeOK, RInv, JobInv, NeverLost, Exists
  <2> QED BY <1>1, <2>1, InductiveInvariant, RInvariant, PTL
<1>2. CASE Reapers # {}
  <2>1. NeverLost
    BY <1>2 DEF NeverLost
  <2> QED BY <2>1, PTL
<1> QED BY <1>1, <1>2

\* An outcome is single and final while no lock expires: the final RENAMEs of
\* handleRedisJob and the insert into failed_jobs happen once per job.
THEOREM OutcomesAreSingle == Spec => []OneOutcome
<1>1. CASE Reapers = {}
  <2>1. IInv /\ RInv => OneOutcome
    <3> SUFFICES ASSUME IInv, RInv, NEW j \in Jobs
                 PROVE  /\ Settled(j) => ~Exists(pending, j) /\ \A w \in Workers : ~Holds(w, j)
                        /\ ~(j \in completed /\ j \in failed)
                        /\ failedRows[j] <= (IF j \in failed THEN 1 ELSE 0)
      BY Zenon DEF OneOutcome
    <3>1. JobInv(j)
      BY DEF RInv
    <3>2. Settled(j) => \A w \in Workers : ~Holds(w, j)
      BY <1>1, Alone
    <3> QED BY <3>1, <3>2 DEF JobInv, Exists
  <2> QED BY <1>1, <2>1, InductiveInvariant, RInvariant, PTL
<1>2. CASE Reapers # {}
  <2>1. OneOutcome
    BY <1>2 DEF OneOutcome
  <2> QED BY <2>1, PTL
<1> QED BY <1>1, <1>2

\* Workers go on until the queue is closed while no lock expires, no command
\* fails and every gate parses: the returns of cursorScanRedisDb on an
\* unparseable RetryAfter and on a lost locked key are never reached.
THEOREM WorkersGoOnUntilClosed == Spec => []WorkersRunUntilClosed
<1>1. CASE Reapers = {} /\ Garbage \notin DispatchAts
  <2>1. Init => (faults = 0 => GatesInv)
    BY DEF Init, GatesInv, Stays, Gated
  <2>2. IInv /\ RInv /\ (faults = 0 => GatesInv) /\ [Next]_vars => (faults = 0 => GatesInv)'
    BY <1>1, GatesStep
  <2>3. (faults = 0 => GatesInv) => WorkersRunUntilClosed
    BY DEF GatesInv, Stays, WorkersRunUntilClosed
  <2> QED BY <1>1, <2>1, <2>2, <2>3, InductiveInvariant, RInvariant, PTL DEF Spec
<1>2. CASE ~(Reapers = {} /\ Garbage \notin DispatchAts)
  <2>1. WorkersRunUntilClosed
    BY <1>2 DEF WorkersRunUntilClosed
  <2> QED BY <2>1, PTL
<1> QED BY <1>1, <1>2

-----------------------------------------------------------------------------
(* The refinement. *)

Steady == UNCHANGED Lifecycle!lvars

\* A job that alone changes its status moves in the lifecycle.
LEMMA Moves ==
    ASSUME NEW j \in Jobs, NEW from, NEW to, JobStatus(j) = from, JobStatus(j)' = to,
           \A k \in Jobs \ {j} : JobStatus(k)' = JobStatus(k)
    PROVE  Lifecycle!Move(j, from, to)
  BY Zenon DEF Lifecycle!Move

\* A step that changes no status and runs nothing is invisible in the lifecycle.
LEMMA Invisible ==
    ASSUME \A k \in Jobs : JobStatus(k)' = JobStatus(k), UNCHANGED executions
    PROVE  Steady
  BY DEF Steady, Lifecycle!lvars

\* The status of a job depends on its own keys and runs.
LEMMA StatusKept ==
    ASSUME NEW k \in Jobs, k \in completed' <=> k \in completed, k \in failed' <=> k \in failed,
           pending'[k] = NoKey <=> pending[k] = NoKey, locked'[k] = NoKey <=> locked[k] = NoKey,
           locked[k] # NoKey => locked'[k].RetryCounter = locked[k].RetryCounter,
           executions'[k] = executions[k]
    PROVE  JobStatus(k)' = JobStatus(k)
  BY DEF JobStatus, Exists

\* So a step that writes nothing is invisible.
LEMMA StoredSteady == ASSUME UNCHANGED stored PROVE Steady
<1>1. \A k \in Jobs : JobStatus(k)' = JobStatus(k)
  BY StatusKept DEF stored
<1> QED BY <1>1, Invisible DEF stored

\* A held job has the status of its holder's step.
LEMMA HeldStatus ==
    ASSUME IInv, RInv, Reapers = {}, NEW w \in Workers, NEW j \in Jobs, Holds(w, j)
    PROVE  /\ executions[j] \in Nat /\ executions[j] = locked[j].RetryCounter =>
                  JobStatus(j) = "held"
           /\ locked[j].RetryCounter \in Nat /\ executions[j] = locked[j].RetryCounter + 1 =>
                  JobStatus(j) = "running"
<1>1. JobStatus(j) = IF executions[j] > locked[j].RetryCounter THEN "running" ELSE "held"
  BY Alone DEF JobStatus, Exists, Settled
<1>2. executions[j] \in Nat /\ executions[j] = locked[j].RetryCounter =>
          ~(executions[j] > locked[j].RetryCounter)
  OBVIOUS
<1>3. locked[j].RetryCounter \in Nat /\ executions[j] = locked[j].RetryCounter + 1 =>
          executions[j] > locked[j].RetryCounter
  OBVIOUS
<1> QED BY ONLY <1>1, <1>2, <1>3

\* Every step of a worker is a step of the lifecycle or invisible there.
LEMMA WorkerSimulates ==
    ASSUME IInv, RInv, Reapers = {}, NEW w \in Workers, WorkerStep(w), UNCHANGED dispatched
    PROVE  Lifecycle!Next \/ Steady
<1> USE DEF shared, keys, stored, Holding, BeforeRun, AfterStart
<1>1. CASE \/ ScanBreak(w) \/ ScanSleep(w) \/ Scan(w) \/ PageDone(w)
           \/ ReadUnparseable(w) \/ ReadNotDue(w) \/ ReadDue(w) \/ GiveBackMissing(w)
           \/ NoHandler(w) \/ HandlerOk(w) \/ HandlerError(w) \/ FinalMoveMissing(w)
           \/ \E j \in Jobs : ClaimLost(w, j)
  BY <1>1, StoredSteady
  DEF ScanBreak, ScanSleep, Scan, PageDone, ReadUnparseable, ReadNotDue, ReadDue, GiveBackMissing,
      NoHandler, HandlerOk, HandlerError, FinalMoveMissing, ClaimLost, Return, NextKey, Goto
<1>2. CASE RecordFailure(w)
  <2>1. \A k \in Jobs : JobStatus(k)' = JobStatus(k)
    BY <1>2, StatusKept DEF RecordFailure, NextKey
  <2> QED BY <1>2, <2>1, Invisible DEF RecordFailure, NextKey
<1>3. ASSUME NEW j \in Jobs, Claim(w, j) PROVE Lifecycle!Next
  <2>1. /\ pending'[j] = NoKey /\ locked'[j] = pending[j] /\ pending[j] # NoKey
        /\ \A k \in Jobs \ {j} : pending'[k] = pending[k] /\ locked'[k] = locked[k]
        /\ UNCHANGED <<completed, failed, executions>>
    BY <1>3 DEF Claim, RenamePendingLocked, Exists, IInv, TypeOK
  <2>2. ~Settled(j) /\ executions[j] = pending[j].RetryCounter /\ executions[j] \in Nat
    BY <2>1 DEF RInv, JobInv, Ready, IInv, TypeOK
  <2>3. JobStatus(j) = "pending" /\ JobStatus(j)' = "held"
    BY <2>1, <2>2 DEF JobStatus, Exists, Settled
  <2>4. \A k \in Jobs \ {j} : JobStatus(k)' = JobStatus(k)
    BY <2>1, StatusKept
  <2>5. Lifecycle!Handle(j)
    BY <2>1, <2>3, <2>4, Moves DEF Lifecycle!Handle
  <2> QED BY <2>5 DEF Lifecycle!Next
<1>4. CASE StampLock(w) \/ Activate(w) \/ WriteBack(w)
  <2>0. wpc[w] \in {"stamp", "activate", "complete", "fail"} /\ wjob[w] \in Jobs
    BY <1>4, Held DEF StampLock, Activate, WriteBack
  <2> PICK j \in Jobs : j = wjob[w]
    BY <2>0
  <2>1. /\ HolderInv(w, j) /\ locked[j] \in JobHash
        /\ wpc[w] # "stamp" => cachedJob[w] \in JobHash /\ cachedJob[w].ID = j
    BY <2>0, Held DEF CachedSteps
  <2>2. /\ UNCHANGED <<pending, completed, failed, executions>>
        /\ \A k \in Jobs \ {j} : locked'[k] = locked[k]
        /\ \/ locked'[j] = [locked[j] EXCEPT !.LockedAt = 0]
           \/ locked'[j] = locked[j]
           \/ locked'[j] = cachedJob[w] /\ wpc[w] \in {"complete", "fail"}
    BY <1>4, <2>1, NoKeyAssumption, Zenon
    DEF StampLock, Activate, WriteBack, HSetLocked, Fields, Goto, IInv, TypeOK
  <2>3. [locked[j] EXCEPT !.LockedAt = 0] \in JobHash
        /\ [locked[j] EXCEPT !.LockedAt = 0].RetryCounter = locked[j].RetryCounter
    BY <2>1, BoundsAssumption DEF JobHash, Ages
  <2>4. wpc[w] \in {"complete", "fail"} => cachedJob[w].RetryCounter = locked[j].RetryCounter
    BY <2>1 DEF HolderInv
  <2>5. locked'[j] # NoKey /\ locked[j] # NoKey /\ locked'[j].RetryCounter = locked[j].RetryCounter
    BY <2>1, <2>2, <2>3, <2>4, NoKeyAssumption, Zenon
  <2>6. \A k \in Jobs : JobStatus(k)' = JobStatus(k)
    BY <2>2, <2>5, StatusKept
  <2> QED BY <2>2, <2>6, Invisible
<1>5. CASE GiveBack(w)
  <2>0. wpc[w] = "gate" /\ wjob[w] \in Jobs
    BY <1>5, Held DEF GiveBack
  <2> PICK j \in Jobs : j = wjob[w]
    BY <2>0
  <2>1. Holds(w, j) /\ HolderInv(w, j) /\ ~Settled(j)
    BY <2>0, Held, Alone
  <2>2. /\ pending'[j] = locked[j] /\ locked[j] # NoKey
        /\ \A k \in Jobs \ {j} : pending'[k] = pending[k] /\ locked'[k] = locked[k]
        /\ UNCHANGED <<completed, failed, executions>>
    BY <1>5 DEF GiveBack, RenameLockedPending, NextKey, Exists, IInv, TypeOK
  <2>3. JobStatus(j) = "held"
    <3>1. executions[j] = locked[j].RetryCounter /\ executions[j] \in Nat
      BY <2>0, <2>1 DEF HolderInv, Ready, IInv, TypeOK
    <3> QED BY <2>1, <3>1, HeldStatus
  <2>4. JobStatus(j)' = "pending"
    BY <2>1, <2>2, Zenon DEF JobStatus, Exists, Settled
  <2>5. \A k \in Jobs \ {j} : JobStatus(k)' = JobStatus(k)
    BY <2>2, StatusKept
  <2>6. Lifecycle!Handle(j)
    BY <2>2, <2>3, <2>4, <2>5, Moves DEF Lifecycle!Handle
  <2> QED BY <2>6 DEF Lifecycle!Next
<1>6. CASE StartHandler(w)
  <2>0. wpc[w] = "lookup" /\ wjob[w] \in Jobs
    BY <1>6, Held DEF StartHandler
  <2> PICK j \in Jobs : j = wjob[w]
    BY <2>0
  <2>1. Holds(w, j) /\ HolderInv(w, j) /\ ~Settled(j) /\ pending[j] = NoKey /\ locked[j] # NoKey
    BY <2>0, Held, Alone
  <2>2. /\ executions[j] = locked[j].RetryCounter /\ executions[j] <= MaxAttempts
        /\ executions[j] \in 0 .. MaxExecutions
    BY <2>0, <2>1 DEF HolderInv, Ready, IInv, TypeOK
  <2>3. executions' = [executions EXCEPT ![j] = @ + 1]
    <3>1. executions[j] < MaxExecutions
      BY <2>2, Limits
    <3>2. executions' = [executions EXCEPT ![j] =
                            IF executions[j] < MaxExecutions THEN executions[j] + 1 ELSE executions[j]]
      BY <1>6 DEF StartHandler
    <3> QED BY ONLY <3>1, <3>2
  <2>4. executions'[j] = executions[j] + 1 /\ \A k \in Jobs \ {j} : executions'[k] = executions[k]
    BY <2>3 DEF IInv, TypeOK
  <2>5. UNCHANGED <<pending, locked, completed, failed>>
    BY <1>6 DEF StartHandler
  <2>6. JobStatus(j) = "held"
    BY <2>1, <2>2, HeldStatus
  <2>7. JobStatus(j)' = "running"
    <3>1. executions'[j] > locked'[j].RetryCounter
      BY <2>2, <2>4, <2>5
    <3> QED BY <2>1, <2>5, <3>1 DEF JobStatus, Exists, Settled
  <2>8. \A k \in Jobs \ {j} : JobStatus(k)' = JobStatus(k)
    BY <2>4, <2>5, StatusKept
  <2>9. Lifecycle!Run(j)
    BY <2>3, <2>6, <2>7, <2>8, Moves DEF Lifecycle!Run
  <2> QED BY <2>9 DEF Lifecycle!Next
<1>7. CASE Retry(w)
  <2>0. wpc[w] = "retry" /\ wjob[w] \in Jobs
    BY <1>7, Held DEF Retry
  <2> PICK j \in Jobs : j = wjob[w]
    BY <2>0
  <2>1. Holds(w, j) /\ HolderInv(w, j) /\ ~Settled(j) /\ cachedJob[w] \in JobHash
    BY <2>0, Held, Alone DEF CachedSteps
  <2>2. /\ pending'[j] = Retried(cachedJob[w])
        /\ \A k \in Jobs \ {j} : pending'[k] = pending[k]
        /\ UNCHANGED <<locked, completed, failed, executions>>
    BY <1>7 DEF Retry, HSetPending, NextKey, IInv, TypeOK
  <2>3. pending'[j] # NoKey
    <3>1. NextRetryAfter(cachedJob[w]) \in Nat /\ cachedJob[w].RetryCounter + 1 \in Nat
      BY <2>1, BoundsAssumption DEF NextRetryAfter, JobHash
    <3>2. Retried(cachedJob[w]) \in JobHash
      BY <2>1, <3>1, Zenon DEF Retried, JobHash
    <3> QED BY <2>2, <3>2, NoKeyAssumption
  <2>4. JobStatus(j) = "running"
    <3>1. executions[j] = locked[j].RetryCounter + 1 /\ locked[j].RetryCounter \in Nat
      BY <2>0, <2>1, Zenon DEF HolderInv, JobHash
    <3> QED BY <2>1, <3>1, HeldStatus, Zenon
  <2>5. JobStatus(j)' = "pending"
    BY <2>1, <2>2, <2>3 DEF JobStatus, Exists, Settled
  <2>6. \A k \in Jobs \ {j} : JobStatus(k)' = JobStatus(k)
    BY <2>2, StatusKept
  <2>7. ~Lifecycle!LastAttempt(j)
    BY <2>0, <2>1, BoundsAssumption DEF HolderInv, Lifecycle!LastAttempt, IInv, TypeOK
  <2>8. Lifecycle!Retry(j)
    BY <2>2, <2>4, <2>5, <2>6, <2>7, Moves DEF Lifecycle!Retry
  <2> QED BY <2>8 DEF Lifecycle!Next
<1>8. CASE Complete(w)
  <2>0. wpc[w] = "completeMove" /\ wjob[w] \in Jobs
    BY <1>8, Held DEF Complete
  <2> PICK j \in Jobs : j = wjob[w]
    BY <2>0
  <2>1. Holds(w, j) /\ HolderInv(w, j) /\ cachedJob[w] \in JobHash
    BY <2>0, Held, Zenon DEF CachedSteps
  <2>2. /\ \A k \in Jobs \ {j} : locked'[k] = locked[k]
        /\ completed' = completed \cup {j}
        /\ UNCHANGED <<pending, failed, executions>>
    BY <1>8 DEF Complete, RenameLockedCompleted, NextKey, IInv, TypeOK
  <2>3. JobStatus(j) = "running"
    <3>1. executions[j] = locked[j].RetryCounter + 1 /\ locked[j].RetryCounter \in Nat
      BY <2>0, <2>1 DEF HolderInv, JobHash
    <3> QED BY <2>1, <3>1, HeldStatus, Zenon
  <2>4. JobStatus(j)' = "completed"
    BY <2>2 DEF JobStatus
  <2>5. \A k \in Jobs \ {j} : JobStatus(k)' = JobStatus(k)
    BY <2>2, StatusKept
  <2>6. Lifecycle!Complete(j)
    BY <2>2, <2>3, <2>4, <2>5, Moves DEF Lifecycle!Complete
  <2> QED BY <2>6 DEF Lifecycle!Next
<1>9. CASE Fail(w)
  <2>0. wpc[w] = "failMove" /\ wjob[w] \in Jobs
    BY <1>9, Held DEF Fail
  <2> PICK j \in Jobs : j = wjob[w]
    BY <2>0
  <2>1. Holds(w, j) /\ HolderInv(w, j) /\ ~Settled(j) /\ cachedJob[w] \in JobHash
    BY <2>0, Held, Alone DEF CachedSteps
  <2>2. /\ \A k \in Jobs \ {j} : locked'[k] = locked[k]
        /\ failed' = failed \cup {j}
        /\ UNCHANGED <<pending, completed, executions>>
    BY <1>9 DEF Fail, RenameLockedFailed, Goto, IInv, TypeOK
  <2>3. JobStatus(j)' = "failed"
    BY <2>1, <2>2 DEF JobStatus, Settled
  <2>4. \A k \in Jobs \ {j} : JobStatus(k)' = JobStatus(k)
    BY <2>2, StatusKept
  <2>5. locked[j].RetryCounter = cachedJob[w].RetryCounter /\ cachedJob[w].RetryCounter \in Nat
    BY <2>0, <2>1 DEF HolderInv, JobHash
  <2>6. CASE executions[j] = cachedJob[w].RetryCounter
    <3>1. JobStatus(j) = "held"
      BY <2>1, <2>5, <2>6, HeldStatus
    <3>2. Lifecycle!Abandon(j)
      BY <2>2, <2>3, <2>4, <3>1, Moves DEF Lifecycle!Abandon
    <3> QED BY <3>2 DEF Lifecycle!Next
  <2>7. CASE /\ executions[j] = cachedJob[w].RetryCounter + 1
             /\ j \in RetryJobs => executions[j] > MaxAttempts
    <3>1. JobStatus(j) = "running"
      BY <2>1, <2>5, <2>7, HeldStatus
    <3>2. Lifecycle!LastAttempt(j)
      BY <2>7 DEF Lifecycle!LastAttempt
    <3>3. Lifecycle!Fail(j)
      BY <2>2, <2>3, <2>4, <3>1, <3>2, Moves DEF Lifecycle!Fail
    <3> QED BY <3>3 DEF Lifecycle!Next
  <2> QED BY <2>0, <2>1, <2>6, <2>7 DEF HolderInv
<1> QED
  BY <1>1, <1>2, <1>3, <1>4, <1>5, <1>6, <1>7, <1>8, <1>9 DEF WorkerStep

\* Every step of the redis backend is a step of the lifecycle or invisible.
LEMMA Simulates ==
    ASSUME Reapers = {}, IInv, RInv, [Next]_vars
    PROVE  [Lifecycle!Next]_(Lifecycle!lvars)
<1> USE DEF shared, keys, stored, wvars
<1>1. CASE UNCHANGED vars
  BY <1>1, StoredSteady DEF vars, Steady
<1>2. ASSUME NEW j \in Jobs, NEW at \in DispatchAts, Dispatch(j, at) PROVE Lifecycle!Next
  <2>1. /\ pending'[j] = NewJob(j, at) /\ \A k \in Jobs \ {j} : pending'[k] = pending[k]
        /\ UNCHANGED <<locked, completed, failed, executions>>
        /\ j \notin dispatched
    BY <1>2 DEF Dispatch, HSetPending, IInv, TypeOK
  <2>2. NewJob(j, at) # NoKey
    <3>1. NewJob(j, at) \in JobHash
      BY JobsAssumption, Limits, QueueAssumption DEF NewJob, JobHash, Ages
    <3> QED BY <3>1, NoKeyAssumption
  <2>3. ~Settled(j) /\ locked[j] = NoKey /\ pending[j] = NoKey
    BY <2>1 DEF RInv, JobInv
  <2>4. JobStatus(j) = "new" /\ JobStatus(j)' = "pending"
    BY <2>1, <2>2, <2>3 DEF JobStatus, Exists, Settled
  <2>5. \A k \in Jobs \ {j} : JobStatus(k)' = JobStatus(k)
    BY <2>1, StatusKept
  <2>6. Lifecycle!Handle(j)
    BY <2>1, <2>4, <2>5, Moves DEF Lifecycle!Handle
  <2> QED BY <2>6 DEF Lifecycle!Next
<1>3. ASSUME NEW p \in Procs, Crash(p) \/ Close(p) \/ \E name \in Names : RegisterHandler(p, name)
      PROVE  Steady
  BY <1>3, StoredSteady DEF Crash, Close, RegisterHandler
<1>4. ASSUME Tick PROVE Steady
  <2>1. ASSUME NEW k \in Jobs PROVE JobStatus(k)' = JobStatus(k)
    <3>1. /\ pending'[k] = Aged(pending[k]) /\ locked'[k] = Aged(locked[k])
          /\ pending[k] \in JobHash \cup {NoKey} /\ locked[k] \in JobHash \cup {NoKey}
          /\ UNCHANGED <<completed, failed, executions>>
      BY <1>4 DEF Tick, IInv, TypeOK
    <3> QED BY ONLY <3>1, k \in Jobs, AgedType, StatusKept
  <2> QED BY <1>4, <2>1, Invisible, Zenon DEF Tick
<1>5. ASSUME NEW w \in Workers, WorkerNext(w) PROVE Lifecycle!Next \/ Steady
  BY <1>5, WorkerSimulates DEF WorkerNext
<1>6. ASSUME NEW w \in Workers, WorkerFault(w) PROVE Steady
  BY <1>6, StoredSteady
  DEF WorkerFault, CommandRefused, ConnectionLost, Return, NextKey, Goto
<1> QED
  BY <1>1, <1>2, <1>3, <1>4, <1>5, <1>6 DEF Next, Steady

\* While no lock expires, the redis backend implements the job lifecycle: for
\* every set of jobs, workers and processes and every limit on the attempts,
\* with any number of crashes, refused commands and lost connections.
THEOREM RedisImplementsLifecycle ==
    ASSUME Reapers = {}
    PROVE  Spec => ImplementsLifecycle
<1>1. Init => Lifecycle!Init
  BY DEF Init, Lifecycle!Init, JobStatus, Exists
<1>2. IInv /\ RInv /\ [Next]_vars => [Lifecycle!Next]_(Lifecycle!lvars)
  BY Simulates
<1> QED
  BY <1>1, <1>2, InductiveInvariant, RInvariant, PTL DEF Spec, ImplementsLifecycle, Lifecycle!Spec
=============================================================================
