------------------------- MODULE MemoryQueueProofs --------------------------
(***************************************************************************)
(* Proofs about MemoryQueue, for every set of jobs, workers and names and  *)
(* every bound.                                                            *)
(*                                                                         *)
(* The invariants of MemoryQueue are not inductive.  MInv adds who holds a *)
(* job (a worker that has received it and has not settled it, and no other *)
(* one) and how its runs compare with its counted retries at each step of  *)
(* that worker.                                                            *)
(***************************************************************************)
EXTENDS MemoryQueue, FiniteSetTheorems, TLAPS

\* TypeOK but for pendingCount, which is a natural number because it counts.
Typed ==
    /\ phase \in [Jobs -> Phases]
    /\ retryCounter \in [Jobs -> Nat]
    /\ wpc \in [Workers -> {"idle", "exited"} \cup Busy]
    /\ wjob \in [Workers -> Jobs \cup {None}]
    /\ whandler \in [Workers -> {"none", "plain", "ctx", "inline", "nil"}]
    /\ registry \in [Names -> {"none", "plain", "ctx"}]
    /\ failedJobs \in Seq(Jobs)
    /\ completedRows \in [Jobs -> Nat] /\ failedRows \in [Jobs -> Nat]
    /\ executions \in [Jobs -> Nat]
    /\ cancelled \in BOOLEAN /\ crashed \in BOOLEAN
    /\ closing \in {"no", "cancelled", "draining", "returned"}

\* The steps at which a worker holds its job.
Owning == {"admit", "invoke", "run", "dispatch"}

WorkerInv(w) ==
    /\ wpc[w] \in Busy => wjob[w] \in Jobs
    /\ wpc[w] \in Owning => phase[wjob[w]] = "taken"
    /\ wpc[w] \in {"admit", "invoke"} => executions[wjob[w]] = retryCounter[wjob[w]]
    /\ wpc[w] \in {"run", "dispatch"} => executions[wjob[w]] = retryCounter[wjob[w]] + 1
    /\ wpc[w] = "invoke" => Runnable(wjob[w])
    /\ whandler[w] # "nil"

OneOwner ==
    \A v, w \in Workers : wpc[v] \in Owning /\ wpc[w] \in Owning /\ wjob[v] = wjob[w] => v = w

JobInv(j) ==
    /\ retryCounter[j] <= (IF j \in RetryJobs THEN MaxAttempts ELSE 0)
    /\ executions[j] \in {retryCounter[j], retryCounter[j] + 1}
    /\ phase[j] \in {"new", "rejected"} => executions[j] = 0 /\ retryCounter[j] = 0
    /\ phase[j] \in Sending \cup {"sleeping"} => executions[j] = retryCounter[j]
    /\ completedRows[j] <= (IF phase[j] = "completed" THEN 1 ELSE 0)
    /\ failedRows[j] <= (IF phase[j] = "failed" THEN 1 ELSE 0)

MInv ==
    /\ Typed
    /\ \A w \in Workers : WorkerInv(w)
    /\ OneOwner
    /\ \A j \in Jobs : JobInv(j)

\* The steps of Next, one by one.
Step ==
    \/ \E j \in Jobs : Wake(j) \/ SendPanics(j) \/ \E at \in DispatchAts[j] : Dispatch(j, at)
    \/ \E w \in Workers, j \in Jobs : Receive(w, j) \/ HandlerDispatch(w, j)
    \/ \E w \in Workers : Admit(w) \/ Drop(w) \/ Invoke(w) \/ HandlerOk(w) \/ HandlerError(w)
                           \/ Finish(w) \/ WorkerExit(w)
    \/ \E name \in Names, kind \in {"plain", "ctx"} : RegisterHandler(name, kind)
    \/ Close

\* A step of Next is one of Step.
LEMMA NextStep == [Next]_vars => Step \/ UNCHANGED vars
  BY DEF Next, WorkerNext, Step

\* The initial state satisfies the invariant.
LEMMA InitMInv == Init => MInv
<1> SUFFICES ASSUME Init PROVE MInv
  OBVIOUS
<1>1. Typed
  <2>1. failedJobs \in Seq(Jobs)
    BY DEF Init
  <2>2. /\ phase \in [Jobs -> Phases] /\ retryCounter \in [Jobs -> Nat]
        /\ completedRows \in [Jobs -> Nat] /\ failedRows \in [Jobs -> Nat]
        /\ executions \in [Jobs -> Nat]
    BY DEF Init, Phases
  <2>3. /\ wpc \in [Workers -> {"idle", "exited"} \cup Busy]
        /\ wjob \in [Workers -> Jobs \cup {None}]
        /\ whandler \in [Workers -> {"none", "plain", "ctx", "inline", "nil"}]
        /\ registry \in [Names -> {"none", "plain", "ctx"}]
    BY DEF Init
  <2> QED BY <2>1, <2>2, <2>3, Zenon DEF Init, Typed
<1>2. \A w \in Workers : WorkerInv(w)
  BY DEF Init, WorkerInv, Busy, Owning
<1>3. OneOwner
  BY DEF Init, OneOwner, Owning
<1>4. \A j \in Jobs : JobInv(j)
  BY MemoryAssumption DEF Init, JobInv, Sending
<1> QED BY <1>1, <1>2, <1>3, <1>4 DEF MInv

\* An insert (MayInsert) adds at most one row, to the job it is about.
LEMMA Inserted ==
    ASSUME NEW rows \in [Jobs -> Nat], NEW j \in Jobs, NEW new \in MayInsert(rows, j)
    PROVE  /\ new \in [Jobs -> Nat]
           /\ new[j] <= rows[j] + 1
           /\ \A k \in Jobs \ {j} : new[k] = rows[k]
<1>1. CASE new = rows
  BY <1>1
<1>2. CASE new = [rows EXCEPT ![j] = @ + 1]
  BY <1>2
<1> QED BY <1>1, <1>2 DEF MayInsert

\* Every action keeps the types.
LEMMA TypedStep == MInv /\ [Next]_vars => Typed'
<1> SUFFICES ASSUME MInv, Step PROVE Typed'
  <2>1. MInv /\ UNCHANGED vars => Typed'
    BY DEF MInv, Typed, vars, jobVars, workerVars, rowVars, closeVars
  <2> QED BY <2>1, NextStep
<1> USE DEF Typed, Phases, Sending, Outcomes, Busy
<1>1. ASSUME NEW j \in Jobs, Wake(j) PROVE Typed'
  BY <1>1 DEF MInv, Wake, Reach, workerVars, rowVars, closeVars
<1>2. ASSUME NEW j \in Jobs, SendPanics(j) PROVE Typed'
  BY <1>2, Zenon DEF MInv, SendPanics, Reach, rowVars, closeVars
<1>3. ASSUME NEW j \in Jobs, NEW at, Dispatch(j, at) PROVE Typed'
  BY <1>3, Zenon DEF MInv, Dispatch, Reach, workerVars, rowVars, closeVars
<1>4. ASSUME NEW w \in Workers, NEW j \in Jobs, Receive(w, j) PROVE Typed'
  BY <1>4 DEF MInv, Receive, Reach, rowVars, closeVars
<1>5. ASSUME NEW w \in Workers, NEW j \in Jobs, HandlerDispatch(w, j) PROVE Typed'
  BY <1>5 DEF MInv, HandlerDispatch, Reach, rowVars, closeVars
<1>6. ASSUME NEW w \in Workers, Admit(w) PROVE Typed'
  BY <1>6 DEF MInv, Admit, jobVars, rowVars, closeVars
<1>7. ASSUME NEW w \in Workers, Drop(w) PROVE Typed'
  BY <1>7, Zenon DEF MInv, Drop, Reach, rowVars, closeVars
<1>8. ASSUME NEW w \in Workers, Invoke(w) PROVE Typed'
  <2>1. wjob[w] \in Jobs /\ JobName[wjob[w]] \in Names
    <3>1. wpc[w] = "invoke" /\ WorkerInv(w)
      BY <1>8 DEF MInv, Invoke
    <3>2. wjob[w] \in Jobs
      BY ONLY <3>1 DEF WorkerInv, Busy
    <3> QED BY ONLY <3>2, MemoryAssumption
  <2>2. Chosen(wjob[w]) \in {"none", "plain", "ctx", "inline", "nil"}
    BY <2>1 DEF MInv, Chosen
  <2> QED BY <1>8, <2>1, <2>2 DEF MInv, Invoke, jobVars, rowVars, closeVars
<1>9. ASSUME NEW w \in Workers, HandlerOk(w) PROVE Typed'
  <2>1. wjob[w] \in Jobs
    BY <1>9 DEF MInv, HandlerOk, Returns, WorkerInv
  <2>2. completedRows' \in [Jobs -> Nat]
    BY <1>9, <2>1, Inserted, Zenon DEF MInv, HandlerOk
  <2> QED BY <1>9, <2>1, <2>2, Zenon DEF MInv, HandlerOk, Reach, closeVars
<1>10. ASSUME NEW w \in Workers, HandlerError(w) PROVE Typed'
  <2>1. wjob[w] \in Jobs /\ failedJobs' \in Seq(Jobs)
    BY <1>10 DEF MInv, HandlerError, Returns, WorkerInv, Cached
  <2>2. retryCounter' \in [Jobs -> Nat] /\ failedRows' \in [Jobs -> Nat]
    <3>1. CASE Retry(w)
      BY <3>1, <2>1 DEF MInv, Retry
    <3>2. CASE Fail(w)
      BY <3>2, <2>1, Inserted, Zenon DEF MInv, Fail
    <3> QED BY <1>10, <3>1, <3>2 DEF HandlerError
  <2>3. phase' \in [Jobs -> Phases] /\ wpc' \in [Workers -> {"idle", "exited"} \cup Busy]
    BY <1>10, <2>1, Zenon DEF MInv, HandlerError, Retry, Fail, Reach
  <2> QED BY <1>10, <2>1, <2>2, <2>3 DEF MInv, HandlerError, closeVars
<1>11. ASSUME NEW w \in Workers, Finish(w) PROVE Typed'
  BY <1>11 DEF MInv, Finish, jobVars, rowVars, closeVars
<1>12. ASSUME NEW w \in Workers, WorkerExit(w) PROVE Typed'
  BY <1>12 DEF MInv, WorkerExit, jobVars, rowVars, closeVars
<1>13. ASSUME NEW name \in Names, NEW kind \in {"plain", "ctx"}, RegisterHandler(name, kind)
       PROVE  Typed'
  BY <1>13 DEF MInv, RegisterHandler, jobVars, workerVars, rowVars, closeVars
<1>14. ASSUME Close PROVE Typed'
  BY <1>14, Zenon DEF MInv, Close, CancelContext, jobVars, workerVars, rowVars
<1> QED
  BY <1>1, <1>2, <1>3, <1>4, <1>5, <1>6, <1>7, <1>8, <1>9, <1>10, <1>11, <1>12, <1>13, <1>14
  DEF Step

\* What every worker knows of its job is kept.
LEMMA WorkerStep == MInv /\ [Next]_vars => \A u \in Workers : WorkerInv(u)'
<1> SUFFICES ASSUME MInv, Step, NEW u \in Workers PROVE WorkerInv(u)'
  <2>1. ASSUME MInv, UNCHANGED vars, NEW u \in Workers PROVE WorkerInv(u)'
    BY <2>1 DEF MInv, WorkerInv, Runnable, vars, jobVars, workerVars, rowVars, closeVars
  <2> QED BY <2>1, NextStep
<1> USE MemoryAssumption DEF MInv, Typed, WorkerInv, Runnable, Busy, Owning, Sending
<1>1. ASSUME NEW j \in Jobs, Wake(j) PROVE WorkerInv(u)'
  BY <1>1 DEF OneOwner, Wake, Reach, workerVars, rowVars, closeVars
<1>2. ASSUME NEW j \in Jobs, SendPanics(j) PROVE WorkerInv(u)'
  BY <1>2 DEF OneOwner, SendPanics, SentBy, Reach, rowVars, closeVars
<1>3. ASSUME NEW j \in Jobs, NEW at, Dispatch(j, at) PROVE WorkerInv(u)'
  BY <1>3 DEF OneOwner, Dispatch, Reach, workerVars, rowVars, closeVars
<1>4. ASSUME NEW w \in Workers, NEW j \in Jobs, Receive(w, j) PROVE WorkerInv(u)'
  <2>1. executions[j] = retryCounter[j]
    BY <1>4 DEF Receive, JobInv
  <2>2. CASE u = w
    BY <1>4, <2>1, <2>2 DEF Receive, Reach, rowVars, closeVars
  <2>3. CASE u # w
    <3>1. /\ wjob'[u] = wjob[u] /\ whandler'[u] = whandler[u]
          /\ wpc'[u] = wpc[u] \/ (wpc'[u] = "run" /\ wpc[u] = "dispatch")
      BY <1>4, <2>3 DEF Receive, SentBy
    <3>2. wjob[u] \in Jobs /\ phase[wjob[u]] = "taken" => phase'[wjob[u]] = "taken"
      BY <1>4 DEF Receive, Reach
    <3> QED BY <1>4, <3>1, <3>2 DEF Receive
  <2> QED BY <2>2, <2>3
<1>5. ASSUME NEW w \in Workers, NEW j \in Jobs, HandlerDispatch(w, j) PROVE WorkerInv(u)'
  BY <1>5 DEF OneOwner, HandlerDispatch, Reach, rowVars, closeVars
<1>6. ASSUME NEW w \in Workers, Admit(w) PROVE WorkerInv(u)'
  BY <1>6 DEF OneOwner, Admit, jobVars, rowVars, closeVars
<1>7. ASSUME NEW w \in Workers, Drop(w) PROVE WorkerInv(u)'
  BY <1>7 DEF OneOwner, Drop, Reach, rowVars, closeVars
<1>8. ASSUME NEW w \in Workers, Invoke(w) PROVE WorkerInv(u)'
  <2>1. CASE u = w
    <3>1. Chosen(wjob[w]) # "nil"
      <4>1. wpc[w] = "invoke" /\ WorkerInv(w) /\ registry \in [Names -> {"none", "plain", "ctx"}]
        BY <1>8 DEF Invoke
      <4>2. Runnable(wjob[w])
        BY ONLY <4>1 DEF WorkerInv
      <4>3. wjob[w] \in Jobs
        BY ONLY <4>1 DEF WorkerInv, Busy
      <4>4. registry[JobName[wjob[w]]] # "nil"
        BY ONLY <4>1, <4>3, MemoryAssumption
      <4> QED BY ONLY <4>2, <4>4 DEF Runnable, Chosen
    <3> QED BY <1>8, <2>1, <3>1 DEF Invoke, jobVars
  <2>2. CASE u # w
    <3>1. wpc[u] \in Owning => wjob[u] # wjob[w]
      BY <1>8, <2>2 DEF Invoke, OneOwner
    <3> QED BY <1>8, <2>2, <3>1 DEF Invoke, jobVars
  <2> QED BY <2>1, <2>2
<1>9. ASSUME NEW w \in Workers, HandlerOk(w) PROVE WorkerInv(u)'
  BY <1>9 DEF OneOwner, HandlerOk, Returns, Reach, closeVars
<1>10. ASSUME NEW w \in Workers, HandlerError(w) PROVE WorkerInv(u)'
  BY <1>10 DEF OneOwner, HandlerError, Returns, Retry, Fail, MayRetry, Reach, closeVars
<1>11. ASSUME NEW w \in Workers, Finish(w) PROVE WorkerInv(u)'
  BY <1>11 DEF OneOwner, Finish, jobVars, rowVars, closeVars
<1>12. ASSUME NEW w \in Workers, WorkerExit(w) PROVE WorkerInv(u)'
  BY <1>12 DEF OneOwner, WorkerExit, jobVars, rowVars, closeVars
<1>13. ASSUME NEW name \in Names, NEW kind \in {"plain", "ctx"}, RegisterHandler(name, kind)
       PROVE  WorkerInv(u)'
  BY <1>13 DEF OneOwner, RegisterHandler, jobVars, workerVars, rowVars, closeVars
<1>14. ASSUME Close PROVE WorkerInv(u)'
  BY <1>14 DEF OneOwner, Close, jobVars, workerVars, rowVars
<1> QED
  BY <1>1, <1>2, <1>3, <1>4, <1>5, <1>6, <1>7, <1>8, <1>9, <1>10, <1>11, <1>12, <1>13, <1>14
  DEF Step

\* No two workers come to hold the same job.
LEMMA OwnerStep == MInv /\ [Next]_vars => OneOwner'
<1> SUFFICES ASSUME MInv, Step PROVE OneOwner'
  <2>1. MInv /\ UNCHANGED vars => OneOwner'
    BY DEF MInv, OneOwner, vars, workerVars
  <2> QED BY <2>1, NextStep
<1> USE DEF MInv, Typed, WorkerInv, OneOwner, Busy, Owning, Sending
<1>1. ASSUME NEW j \in Jobs, Wake(j) PROVE OneOwner'
  BY <1>1 DEF Wake, Reach, workerVars, rowVars, closeVars
<1>2. ASSUME NEW j \in Jobs, SendPanics(j) PROVE OneOwner'
  BY <1>2 DEF SendPanics, SentBy, Reach, rowVars, closeVars
<1>3. ASSUME NEW j \in Jobs, NEW at, Dispatch(j, at) PROVE OneOwner'
  BY <1>3 DEF Dispatch, Reach, workerVars, rowVars, closeVars
<1>4. ASSUME NEW w \in Workers, NEW j \in Jobs, Receive(w, j) PROVE OneOwner'
  BY <1>4 DEF Receive, SentBy, Reach, rowVars, closeVars
<1>5. ASSUME NEW w \in Workers, NEW j \in Jobs, HandlerDispatch(w, j) PROVE OneOwner'
  BY <1>5 DEF HandlerDispatch, Reach, rowVars, closeVars
<1>6. ASSUME NEW w \in Workers, Admit(w) PROVE OneOwner'
  BY <1>6 DEF Admit, jobVars, rowVars, closeVars
<1>7. ASSUME NEW w \in Workers, Drop(w) PROVE OneOwner'
  BY <1>7 DEF Drop, Reach, rowVars, closeVars
<1>8. ASSUME NEW w \in Workers, Invoke(w) PROVE OneOwner'
  BY <1>8 DEF Invoke, jobVars, rowVars, closeVars
<1>9. ASSUME NEW w \in Workers, HandlerOk(w) PROVE OneOwner'
  BY <1>9 DEF HandlerOk, Returns, Reach, closeVars
<1>10. ASSUME NEW w \in Workers, HandlerError(w) PROVE OneOwner'
  <2>1. wpc' = [wpc EXCEPT ![w] = "finish"] /\ wjob' = wjob
    BY <1>10 DEF HandlerError, Retry, Fail
  <2> QED BY ONLY MInv, <2>1 DEF MInv, Typed, OneOwner, Owning
<1>11. ASSUME NEW w \in Workers, Finish(w) PROVE OneOwner'
  BY <1>11 DEF Finish, jobVars, rowVars, closeVars
<1>12. ASSUME NEW w \in Workers, WorkerExit(w) PROVE OneOwner'
  BY <1>12 DEF WorkerExit, jobVars, rowVars, closeVars
<1>13. ASSUME NEW name \in Names, NEW kind \in {"plain", "ctx"}, RegisterHandler(name, kind)
       PROVE  OneOwner'
  BY <1>13 DEF RegisterHandler, jobVars, workerVars, rowVars, closeVars
<1>14. ASSUME Close PROVE OneOwner'
  BY <1>14 DEF Close, jobVars, workerVars, rowVars
<1> QED
  BY <1>1, <1>2, <1>3, <1>4, <1>5, <1>6, <1>7, <1>8, <1>9, <1>10, <1>11, <1>12, <1>13, <1>14
  DEF Step

\* The runs, retries and rows of every job stay in step with its phase.
LEMMA JobStep == MInv /\ [Next]_vars => \A k \in Jobs : JobInv(k)'
<1> SUFFICES ASSUME MInv, Step, NEW k \in Jobs PROVE JobInv(k)'
  <2>1. ASSUME MInv, UNCHANGED vars, NEW k \in Jobs PROVE JobInv(k)'
    BY <2>1 DEF MInv, JobInv, vars, jobVars, workerVars, rowVars, closeVars
  <2> QED BY <2>1, NextStep
<1> USE MemoryAssumption DEF MInv, Typed, WorkerInv, JobInv, Busy, Owning, Sending
<1>1. ASSUME NEW j \in Jobs, Wake(j) PROVE JobInv(k)'
  BY <1>1 DEF OneOwner, Wake, Reach, workerVars, rowVars, closeVars
<1>2. ASSUME NEW j \in Jobs, SendPanics(j) PROVE JobInv(k)'
  BY <1>2 DEF OneOwner, SendPanics, SentBy, Reach, rowVars, closeVars
<1>3. ASSUME NEW j \in Jobs, NEW at, Dispatch(j, at) PROVE JobInv(k)'
  BY <1>3 DEF OneOwner, Dispatch, Reach, workerVars, rowVars, closeVars
<1>4. ASSUME NEW w \in Workers, NEW j \in Jobs, Receive(w, j) PROVE JobInv(k)'
  BY <1>4 DEF OneOwner, Receive, SentBy, Reach, rowVars, closeVars
<1>5. ASSUME NEW w \in Workers, NEW j \in Jobs, HandlerDispatch(w, j) PROVE JobInv(k)'
  BY <1>5 DEF OneOwner, HandlerDispatch, Reach, rowVars, closeVars
<1>6. ASSUME NEW w \in Workers, Admit(w) PROVE JobInv(k)'
  BY <1>6 DEF OneOwner, Admit, jobVars, rowVars, closeVars
<1>7. ASSUME NEW w \in Workers, Drop(w) PROVE JobInv(k)'
  BY <1>7 DEF OneOwner, Drop, Reach, rowVars, closeVars
<1>8. ASSUME NEW w \in Workers, Invoke(w) PROVE JobInv(k)'
  BY <1>8 DEF OneOwner, Invoke, jobVars, rowVars, closeVars
<1>9. ASSUME NEW w \in Workers, HandlerOk(w) PROVE JobInv(k)'
  <2>1. wjob[w] \in Jobs /\ phase[wjob[w]] = "taken"
    BY <1>9 DEF HandlerOk, Returns
  <2>2. /\ completedRows'[wjob[w]] <= completedRows[wjob[w]] + 1
        /\ \A l \in Jobs \ {wjob[w]} : completedRows'[l] = completedRows[l]
        /\ completedRows' \in [Jobs -> Nat]
    <3>1. completedRows \in [Jobs -> Nat] /\ completedRows' \in MayInsert(completedRows, wjob[w])
      BY <1>9 DEF HandlerOk
    <3> QED BY ONLY <2>1, <3>1, Inserted
  <2> QED BY <1>9, <2>1, <2>2 DEF HandlerOk, Reach
<1>10. ASSUME NEW w \in Workers, HandlerError(w) PROVE JobInv(k)'
  <2>1. /\ wjob[w] \in Jobs /\ phase[wjob[w]] = "taken"
        /\ executions[wjob[w]] = retryCounter[wjob[w]] + 1
    BY <1>10 DEF HandlerError, Returns
  <2>2. CASE Retry(w)
    BY <1>10, <2>1, <2>2 DEF HandlerError, Retry, MayRetry, Reach
  <2>3. CASE Fail(w)
    <3>1. /\ failedRows'[wjob[w]] <= failedRows[wjob[w]] + 1
          /\ \A l \in Jobs \ {wjob[w]} : failedRows'[l] = failedRows[l]
          /\ failedRows' \in [Jobs -> Nat]
      <4>1. failedRows \in [Jobs -> Nat] /\ failedRows' \in MayInsert(failedRows, wjob[w])
        BY <2>3 DEF Fail
      <4> QED BY ONLY <2>1, <4>1, Inserted
    <3>2. /\ phase' = [phase EXCEPT ![wjob[w]] = "failed"]
          /\ UNCHANGED <<retryCounter, executions, completedRows>>
      BY <1>10, <2>3 DEF HandlerError, Fail, Reach
    <3> QED BY ONLY MInv, <2>1, <3>1, <3>2, k \in Jobs DEF MInv, Typed, JobInv, Sending
  <2> QED BY <1>10, <2>2, <2>3 DEF HandlerError
<1>11. ASSUME NEW w \in Workers, Finish(w) PROVE JobInv(k)'
  BY <1>11 DEF OneOwner, Finish, jobVars, rowVars, closeVars
<1>12. ASSUME NEW w \in Workers, WorkerExit(w) PROVE JobInv(k)'
  BY <1>12 DEF OneOwner, WorkerExit, jobVars, rowVars, closeVars
<1>13. ASSUME NEW name \in Names, NEW kind \in {"plain", "ctx"}, RegisterHandler(name, kind)
       PROVE  JobInv(k)'
  BY <1>13 DEF OneOwner, RegisterHandler, jobVars, workerVars, rowVars, closeVars
<1>14. ASSUME Close PROVE JobInv(k)'
  BY <1>14 DEF OneOwner, Close, jobVars, workerVars, rowVars
<1>15. Step
  OBVIOUS
<1> QED
  BY ONLY <1>15, <1>1, <1>2, <1>3, <1>4, <1>5, <1>6, <1>7, <1>8, <1>9, <1>10, <1>11, <1>12, <1>13, <1>14
  DEF Step

\* MInv is an invariant of the memory backend.
LEMMA InductiveInvariant == Spec => []MInv
<1>1. MInv /\ [Next]_vars => MInv'
  BY TypedStep, WorkerStep, OwnerStep, JobStep DEF MInv
<1> QED BY InitMInv, <1>1, PTL DEF Spec

\* A job runs at most MaxAttempts + 1 times, once without Retry, and every run
\* before the last one is a counted retry (addFailedJob).
THEOREM AttemptsAreBounded == Spec => []AttemptsBounded
<1>1. MInv => AttemptsBounded
  BY MemoryAssumption DEF MInv, Typed, JobInv, AttemptsBounded
<1> QED BY <1>1, InductiveInvariant, PTL

\* A job leaves at most one row in the database, and that of its outcome.
THEOREM RowsAreSingle == Spec => []RecordedOnce
<1>1. MInv => RecordedOnce
  BY DEF MInv, JobInv, RecordedOnce
<1> QED BY <1>1, InductiveInvariant, PTL

\* The second lookup of runHandler finds the handler that admitted the job.
THEOREM HandlersAreFound == Spec => []HandlerFound
<1>1. MInv => HandlerFound
  BY DEF MInv, WorkerInv, HandlerFound
<1> QED BY <1>1, InductiveInvariant, PTL

-----------------------------------------------------------------------------
(* Depth *)

Counted == {j \in Jobs : phase[j] \in Sending \cup {"refused"}}
Working == {w \in Workers : wpc[w] \in Busy}

\* The counted jobs and the busy workers are finitely many.
LEMMA CountedFinite ==
    /\ IsFiniteSet(Counted) /\ Cardinality(Counted) \in Nat
    /\ IsFiniteSet(Working) /\ Cardinality(Working) \in Nat
<1>1. Counted \subseteq Jobs /\ Working \subseteq Workers
  BY DEF Counted, Working
<1> QED BY <1>1, MemoryAssumption, FS_Subset, FS_CardinalityType

\* pendingCount follows every send, refusal, receive and finish.
LEMMA DepthStep == MInv /\ DepthExact /\ [Next]_vars => DepthExact'
<1> SUFFICES ASSUME MInv, pendingCount = Cardinality(Counted) + Cardinality(Working), Step
             PROVE  pendingCount' = Cardinality(Counted') + Cardinality(Working')
  <2>1. DepthExact <=> pendingCount = Cardinality(Counted) + Cardinality(Working)
    BY DEF DepthExact, Counted, Working
  <2>2. DepthExact' <=> pendingCount' = Cardinality(Counted') + Cardinality(Working')
    BY DEF DepthExact, Counted, Working
  <2>3. UNCHANGED vars => UNCHANGED <<pendingCount, Counted, Working>>
    BY DEF Counted, Working, vars, jobVars, workerVars
  <2> QED BY <2>1, <2>2, <2>3, NextStep
<1> USE DEF MInv, Typed, WorkerInv, Busy, Sending
<1>0. ASSUME UNCHANGED <<pendingCount, Counted, Working>>
      PROVE  pendingCount' = Cardinality(Counted') + Cardinality(Working')
  BY <1>0
<1>a. ASSUME NEW j \in Jobs, j \notin Counted, Counted' = Counted \cup {j}, Working' = Working,
             pendingCount' = pendingCount + 1
      PROVE  pendingCount' = Cardinality(Counted') + Cardinality(Working')
  <2>1. Cardinality(Counted') = Cardinality(Counted) + 1
    BY <1>a, CountedFinite, FS_AddElement, Zenon
  <2> QED BY <1>a, <2>1, CountedFinite
<1>1. ASSUME NEW j \in Jobs, Wake(j)
       PROVE  pendingCount' = Cardinality(Counted') + Cardinality(Working')
  <2>1. /\ j \notin Counted /\ Counted' = Counted \cup {j} /\ Working' = Working
        /\ pendingCount' = pendingCount + 1
    BY <1>1 DEF Counted, Working, Wake, Reach, workerVars
  <2> QED BY <1>a, <2>1, Zenon
<1>2. ASSUME NEW j \in Jobs, SendPanics(j)
       PROVE  pendingCount' = Cardinality(Counted') + Cardinality(Working')
  <2>1. Counted' = Counted
    BY <1>2 DEF Counted, SendPanics, Reach
  <2>2. Working' = Working
    <3>1. \A v \in Workers : wpc'[v] = wpc[v] \/ (wpc'[v] = "run" /\ wpc[v] = "dispatch")
      BY <1>2 DEF SendPanics, SentBy
    <3> QED BY <3>1 DEF Working
  <2> QED BY <1>0, <1>2, <2>1, <2>2 DEF SendPanics
<1>3. ASSUME NEW j \in Jobs, NEW at, Dispatch(j, at)
       PROVE  pendingCount' = Cardinality(Counted') + Cardinality(Working')
  <2>1. CASE at = "now"
    <3>1. /\ phase[j] = "new" /\ phase' = [phase EXCEPT ![j] = "sending"]
          /\ wpc' = wpc /\ pendingCount' = pendingCount + 1
      BY <1>3, <2>1 DEF Dispatch, Reach, workerVars
    <3>2. j \notin Counted /\ Counted' = Counted \cup {j} /\ Working' = Working
      BY <3>1 DEF Counted, Working
    <3> QED BY <1>a, <3>1, <3>2, Zenon
  <2>2. CASE at # "now"
    <3>1. UNCHANGED <<pendingCount, Counted, Working>>
      BY <1>3, <2>2 DEF Counted, Working, Dispatch, Reach, workerVars
    <3> QED BY <1>0, <3>1
  <2> QED BY <2>1, <2>2
<1>4. ASSUME NEW w \in Workers, NEW j \in Jobs, Receive(w, j)
       PROVE  pendingCount' = Cardinality(Counted') + Cardinality(Working')
  <2>1. j \in Counted /\ Counted' = Counted \ {j}
    BY <1>4 DEF Counted, Receive, Reach
  <2>2. w \notin Working /\ Working' = Working \cup {w}
    BY <1>4 DEF Working, Receive, SentBy
  <2>3. Cardinality(Counted') = Cardinality(Counted) - 1
    BY <2>1, CountedFinite, FS_RemoveElement, Zenon
  <2>4. Cardinality(Working') = Cardinality(Working) + 1
    BY <2>2, CountedFinite, FS_AddElement, Zenon
  <2> QED BY <1>4, <2>3, <2>4, CountedFinite DEF Receive
<1>5. ASSUME NEW w \in Workers, NEW j \in Jobs, HandlerDispatch(w, j)
       PROVE  pendingCount' = Cardinality(Counted') + Cardinality(Working')
  <2>1. /\ j \notin Counted /\ Counted' = Counted \cup {j} /\ Working' = Working
        /\ pendingCount' = pendingCount + 1
    BY <1>5 DEF Counted, Working, HandlerDispatch, Reach
  <2> QED BY <1>a, <2>1, Zenon
<1>6. ASSUME NEW w \in Workers, Admit(w)
       PROVE  pendingCount' = Cardinality(Counted') + Cardinality(Working')
  <2>1. UNCHANGED <<pendingCount, Counted, Working>>
    BY <1>6 DEF Counted, Working, Admit, jobVars
  <2> QED BY <1>0, <2>1
<1>7. ASSUME NEW w \in Workers, Drop(w)
       PROVE  pendingCount' = Cardinality(Counted') + Cardinality(Working')
  <2>1. UNCHANGED <<pendingCount, Counted, Working>>
    BY <1>7 DEF Counted, Working, Drop, Owning, Reach
  <2> QED BY <1>0, <2>1
<1>8. ASSUME NEW w \in Workers, Invoke(w)
       PROVE  pendingCount' = Cardinality(Counted') + Cardinality(Working')
  <2>1. UNCHANGED <<pendingCount, Counted, Working>>
    BY <1>8 DEF Counted, Working, Invoke, jobVars
  <2> QED BY <1>0, <2>1
<1>9. ASSUME NEW w \in Workers, HandlerOk(w)
       PROVE  pendingCount' = Cardinality(Counted') + Cardinality(Working')
  <2>1. UNCHANGED <<pendingCount, Counted, Working>>
    BY <1>9 DEF Counted, Working, HandlerOk, Returns, Owning, Reach
  <2> QED BY <1>0, <2>1
<1>10. ASSUME NEW w \in Workers, HandlerError(w)
       PROVE  pendingCount' = Cardinality(Counted') + Cardinality(Working')
  <2>1. UNCHANGED <<pendingCount, Counted, Working>>
    BY <1>10 DEF Counted, Working, HandlerError, Returns, Retry, Fail, Owning, Reach
  <2> QED BY <1>0, <2>1
<1>11. ASSUME NEW w \in Workers, Finish(w)
       PROVE  pendingCount' = Cardinality(Counted') + Cardinality(Working')
  <2>1. Counted' = Counted
    BY <1>11 DEF Counted, Finish, jobVars
  <2>2. w \in Working /\ Working' = Working \ {w}
    BY <1>11 DEF Working, Finish
  <2>3. Cardinality(Working') = Cardinality(Working) - 1
    BY <2>2, CountedFinite, FS_RemoveElement, Zenon
  <2> QED BY <1>11, <2>1, <2>3, CountedFinite DEF Finish
<1>12. ASSUME NEW w \in Workers, WorkerExit(w)
       PROVE  pendingCount' = Cardinality(Counted') + Cardinality(Working')
  <2>1. UNCHANGED <<pendingCount, Counted, Working>>
    BY <1>12 DEF Counted, Working, WorkerExit, jobVars
  <2> QED BY <1>0, <2>1
<1>13. ASSUME NEW name \in Names, NEW kind \in {"plain", "ctx"}, RegisterHandler(name, kind)
       PROVE  pendingCount' = Cardinality(Counted') + Cardinality(Working')
  <2>1. UNCHANGED <<pendingCount, Counted, Working>>
    BY <1>13 DEF Counted, Working, RegisterHandler, jobVars, workerVars
  <2> QED BY <1>0, <2>1
<1>14. ASSUME Close
       PROVE  pendingCount' = Cardinality(Counted') + Cardinality(Working')
  <2>1. UNCHANGED <<pendingCount, Counted, Working>>
    BY <1>14 DEF Counted, Working, Close, jobVars, workerVars
  <2> QED BY <1>0, <2>1
<1>15. Step
  OBVIOUS
<1> QED
  BY ONLY <1>15, <1>1, <1>2, <1>3, <1>4, <1>5, <1>6, <1>7, <1>8, <1>9, <1>10, <1>11, <1>12, <1>13,
          <1>14
  DEF Step

\* Depth of the memory backend is exact: sends begun plus jobs in the hands of a
\* worker, for any number of clients, handlers, retries and workers.
THEOREM DepthIsExact == Spec => []DepthExact
<1>1. Init => DepthExact
  <2> SUFFICES ASSUME Init PROVE DepthExact
    OBVIOUS
  <2>1. Counted = {} /\ Working = {}
    BY DEF Init, Counted, Working, Sending, Busy
  <2>2. Cardinality(Counted) = 0 /\ Cardinality(Working) = 0
    BY <2>1, FS_EmptySet
  <2>3. pendingCount = Cardinality(Counted) + Cardinality(Working)
    BY <2>2 DEF Init
  <2> QED BY <2>3 DEF DepthExact, Counted, Working
<1> QED BY <1>1, DepthStep, InductiveInvariant, PTL DEF Spec

\* Every variable of the memory backend keeps its type; in particular Depth is
\* never negative.
THEOREM TypesAreKept == Spec => []TypeOK
<1>1. MInv /\ DepthExact => TypeOK
  <2> SUFFICES ASSUME MInv, DepthExact PROVE TypeOK
    OBVIOUS
  <2>1. pendingCount \in Nat
    BY CountedFinite DEF DepthExact, Counted, Working
  <2> QED BY <2>1 DEF MInv, Typed, TypeOK
<1> QED BY <1>1, InductiveInvariant, DepthIsExact, PTL

-----------------------------------------------------------------------------
(* The failed-jobs cache *)

\* Only a failing handler touches the cache, and only it fails a job.
LEMMA CacheKept ==
    MInv /\ Step => \/ UNCHANGED failedJobs /\ \A j \in Jobs : phase'[j] = "failed" => phase[j] = "failed"
                    \/ \E w \in Workers : wjob[w] \in Jobs /\ failedJobs' = Cached(wjob[w])
<1> SUFFICES ASSUME MInv, Step
             PROVE  \/ UNCHANGED failedJobs /\ \A j \in Jobs : phase'[j] = "failed" => phase[j] = "failed"
                    \/ \E w \in Workers : wjob[w] \in Jobs /\ failedJobs' = Cached(wjob[w])
  OBVIOUS
<1> DEFINE Goal == UNCHANGED failedJobs /\ \A j \in Jobs : phase'[j] = "failed" => phase[j] = "failed"
<1> USE DEF MInv, Typed
<1>1. ASSUME NEW j \in Jobs, Wake(j) \/ SendPanics(j) \/ \E at \in DispatchAts[j] : Dispatch(j, at)
      PROVE  Goal
  BY <1>1 DEF Wake, SendPanics, Dispatch, Reach, rowVars
<1>2. ASSUME NEW w \in Workers, NEW j \in Jobs, Receive(w, j) \/ HandlerDispatch(w, j) PROVE Goal
  BY <1>2 DEF Receive, HandlerDispatch, Reach, rowVars
<1>3. ASSUME NEW w \in Workers, Admit(w) \/ Drop(w) \/ Invoke(w) \/ HandlerOk(w) \/ Finish(w) \/ WorkerExit(w)
      PROVE  Goal
  BY <1>3 DEF Admit, Drop, Invoke, HandlerOk, Finish, WorkerExit, Reach, jobVars, rowVars
<1>4. ASSUME NEW w \in Workers, HandlerError(w) PROVE wjob[w] \in Jobs /\ failedJobs' = Cached(wjob[w])
  BY <1>4 DEF HandlerError, Returns, WorkerInv, Busy
<1>5. ASSUME NEW name \in Names, NEW kind \in {"plain", "ctx"}, RegisterHandler(name, kind) PROVE Goal
  BY <1>5 DEF RegisterHandler, jobVars, rowVars
<1>6. ASSUME Close PROVE Goal
  BY <1>6 DEF Close, jobVars, rowVars
<1> QED BY <1>1, <1>2, <1>3, <1>4, <1>5, <1>6 DEF Step

\* The failed-jobs cache stays within HighWaterMark and holds a failure as soon
\* as a job has failed for good (addFailedJob).
THEOREM CacheStaysBounded == Spec => []CacheBounded
<1>1. Init => CacheBounded
  BY MemoryAssumption DEF Init, CacheBounded
<1>2. MInv /\ CacheBounded /\ [Next]_vars => CacheBounded'
  <2> SUFFICES ASSUME MInv, CacheBounded, [Next]_vars PROVE CacheBounded'
    OBVIOUS
  <2>1. CASE UNCHANGED vars
    BY <2>1 DEF CacheBounded, vars, jobVars, rowVars
  <2>2. CASE UNCHANGED failedJobs /\ \A j \in Jobs : phase'[j] = "failed" => phase[j] = "failed"
    BY <2>2 DEF CacheBounded
  <2>3. ASSUME NEW w \in Workers, wjob[w] \in Jobs, failedJobs' = Cached(wjob[w]) PROVE CacheBounded'
    <3> DEFINE j == wjob[w]
    <3>1. failedJobs \in Seq(Jobs) /\ Len(failedJobs) \in Nat /\ HighWaterMark \in Nat \ {0}
      BY MemoryAssumption DEF MInv, Typed
    <3>2. CASE Len(failedJobs) >= HighWaterMark
      <4>1. failedJobs' = <<j>>
        BY <2>3, <3>2 DEF Cached
      <4> QED BY ONLY <3>1, <4>1 DEF CacheBounded
    <3>3. CASE ~(Len(failedJobs) >= HighWaterMark)
      <4>1. failedJobs' = Append(failedJobs, j)
        BY <2>3, <3>3 DEF Cached
      <4>2. Len(failedJobs') = Len(failedJobs) + 1
        BY ONLY <2>3, <3>1, <4>1
      <4> QED BY ONLY <3>1, <3>3, <4>2 DEF CacheBounded
    <3> QED BY <3>2, <3>3
  <2> QED BY <2>1, <2>2, <2>3, CacheKept, NextStep
<1> QED BY <1>1, <1>2, InductiveInvariant, PTL DEF Spec

-----------------------------------------------------------------------------
(* The job lifecycle *)

Steady == UNCHANGED Lifecycle!lvars

\* A job that alone changes its status moves in the lifecycle.
LEMMA Moves ==
    ASSUME NEW j \in Jobs, NEW from, NEW to, JobStatus(j) = from, JobStatus(j)' = to,
           \A k \in Jobs \ {j} : JobStatus(k)' = JobStatus(k)
    PROVE  Lifecycle!Move(j, from, to)
  BY Zenon DEF Lifecycle!Move

\* A step that changes no status and runs nothing is invisible in the lifecycle.
LEMMA Invisible ==
    ASSUME \A k \in Jobs : JobStatus(k)' = JobStatus(k), UNCHANGED executions
    PROVE  Steady
  BY DEF Steady, Lifecycle!lvars

\* The status of a job depends on its own phase, runs and retries.
LEMMA StatusKept ==
    ASSUME NEW k \in Jobs, phase'[k] = phase[k], executions'[k] = executions[k],
           retryCounter'[k] = retryCounter[k]
    PROVE  JobStatus(k)' = JobStatus(k)
  BY DEF JobStatus

\* Every step of the memory backend is a step of the job lifecycle or invisible
\* there.
LEMMA Simulates == MInv /\ [Next]_vars => [Lifecycle!Next]_(Lifecycle!lvars)
<1> SUFFICES ASSUME MInv, Step PROVE Lifecycle!Next \/ Steady
  <2>1. UNCHANGED vars => Steady
    BY StatusKept, Invisible DEF vars, jobVars
  <2> QED BY <2>1, NextStep DEF Steady
<1> USE DEF MInv, Typed
<1>1. ASSUME NEW j \in Jobs, Wake(j) PROVE Steady
  <2>1. \A k \in Jobs : JobStatus(k)' = JobStatus(k)
    BY <1>1 DEF Wake, Reach, JobStatus, Sending
  <2> QED BY <1>1, <2>1, Invisible DEF Wake
<1>2. ASSUME NEW j \in Jobs, SendPanics(j) PROVE Lifecycle!Abandon(j) \/ Steady
  <2>1. CASE phase' = phase
    BY <1>2, <2>1, StatusKept, Invisible DEF SendPanics
  <2>2. CASE phase[j] = "sending" /\ Reach(j, "refused")
    <3>1. JobStatus(j) = "pending" /\ JobStatus(j)' = "dropped"
      BY <1>2, <2>2 DEF SendPanics, Reach, JobStatus, Sending
    <3>2. \A k \in Jobs \ {j} : JobStatus(k)' = JobStatus(k)
      BY <1>2, <2>2, StatusKept DEF SendPanics, Reach
    <3> QED BY <1>2, <3>1, <3>2, Moves DEF SendPanics, Lifecycle!Abandon
  <2> QED BY <1>2, <2>1, <2>2 DEF SendPanics
<1>3. ASSUME NEW j \in Jobs, NEW at, Dispatch(j, at) PROVE Lifecycle!Handle(j) \/ Steady
  <2>1. \A k \in Jobs \ {j} : JobStatus(k)' = JobStatus(k)
    BY <1>3, StatusKept DEF Dispatch, Reach
  <2>2. JobStatus(j) = "new" /\ JobStatus(j)' \in {"new", "pending"}
    BY <1>3 DEF Dispatch, Reach, JobStatus, Sending
  <2> QED BY <1>3, <2>1, <2>2, Moves, Invisible DEF Dispatch, Lifecycle!Handle
<1>4. ASSUME NEW w \in Workers, NEW j \in Jobs, Receive(w, j) PROVE Lifecycle!Handle(j)
  <2>1. JobStatus(j) = "pending" /\ JobStatus(j)' = "held"
    BY <1>4 DEF Receive, Reach, JobStatus, JobInv, Sending
  <2>2. \A k \in Jobs \ {j} : JobStatus(k)' = JobStatus(k)
    BY <1>4, StatusKept DEF Receive, Reach
  <2> QED BY <1>4, <2>1, <2>2, Moves DEF Receive, Lifecycle!Handle
<1>5. ASSUME NEW w \in Workers, NEW j \in Jobs, HandlerDispatch(w, j) PROVE Lifecycle!Handle(j)
  <2>1. JobStatus(j) = "new" /\ JobStatus(j)' = "pending"
    BY <1>5 DEF HandlerDispatch, Reach, JobStatus, Sending
  <2>2. \A k \in Jobs \ {j} : JobStatus(k)' = JobStatus(k)
    BY <1>5, StatusKept DEF HandlerDispatch, Reach
  <2> QED BY <1>5, <2>1, <2>2, Moves DEF HandlerDispatch, Lifecycle!Handle
<1>6. ASSUME NEW w \in Workers, Admit(w) \/ Finish(w) \/ WorkerExit(w) PROVE Steady
  BY <1>6, StatusKept, Invisible DEF Admit, Finish, WorkerExit, jobVars
<1>7. ASSUME NEW w \in Workers, Drop(w) PROVE wjob[w] \in Jobs /\ Lifecycle!Abandon(wjob[w])
  <2>1. /\ wjob[w] \in Jobs /\ phase[wjob[w]] = "taken"
        /\ executions[wjob[w]] = retryCounter[wjob[w]]
    BY <1>7 DEF Drop, WorkerInv, Busy, Owning
  <2>2. JobStatus(wjob[w]) = "held" /\ JobStatus(wjob[w])' = "dropped"
    BY <1>7, <2>1 DEF Drop, Reach, JobStatus, Sending
  <2>3. \A k \in Jobs \ {wjob[w]} : JobStatus(k)' = JobStatus(k)
    BY <1>7, <2>1, StatusKept DEF Drop, Reach
  <2> QED BY <1>7, <2>1, <2>2, <2>3, Moves DEF Drop, Lifecycle!Abandon
<1>8. ASSUME NEW w \in Workers, Invoke(w) PROVE wjob[w] \in Jobs /\ Lifecycle!Run(wjob[w])
  <2>1. /\ wjob[w] \in Jobs /\ phase[wjob[w]] = "taken"
        /\ executions[wjob[w]] = retryCounter[wjob[w]]
    BY <1>8 DEF Invoke, WorkerInv, Busy, Owning
  <2>2. JobStatus(wjob[w]) = "held" /\ JobStatus(wjob[w])' = "running"
    BY <1>8, <2>1 DEF Invoke, jobVars, JobStatus, Sending
  <2>3. \A k \in Jobs \ {wjob[w]} : JobStatus(k)' = JobStatus(k)
    BY <1>8, <2>1, StatusKept DEF Invoke, jobVars
  <2> QED BY <1>8, <2>1, <2>2, <2>3, Moves DEF Invoke, Lifecycle!Run
<1>9. ASSUME NEW w \in Workers, Returns(w)
      PROVE  /\ wjob[w] \in Jobs /\ JobStatus(wjob[w]) = "running"
             /\ executions[wjob[w]] = retryCounter[wjob[w]] + 1
  <2>1. /\ wjob[w] \in Jobs /\ phase[wjob[w]] = "taken"
        /\ executions[wjob[w]] = retryCounter[wjob[w]] + 1
    BY <1>9 DEF Returns, WorkerInv, Busy, Owning
  <2> QED BY <2>1 DEF JobStatus, Sending
<1>10. ASSUME NEW w \in Workers, HandlerOk(w) PROVE wjob[w] \in Jobs /\ Lifecycle!Complete(wjob[w])
  <2>1. wjob[w] \in Jobs /\ JobStatus(wjob[w]) = "running"
    BY <1>9, <1>10 DEF HandlerOk
  <2>2. JobStatus(wjob[w])' = "completed"
    BY <1>10, <2>1 DEF HandlerOk, Reach, JobStatus, Sending
  <2>3. \A k \in Jobs \ {wjob[w]} : JobStatus(k)' = JobStatus(k)
    BY <1>10, <2>1, StatusKept DEF HandlerOk, Reach
  <2> QED BY <1>10, <2>1, <2>2, <2>3, Moves DEF HandlerOk, Lifecycle!Complete
<1>11. ASSUME NEW w \in Workers, HandlerError(w)
       PROVE  wjob[w] \in Jobs /\ (Lifecycle!Retry(wjob[w]) \/ Lifecycle!Fail(wjob[w]))
  <2>1. /\ wjob[w] \in Jobs /\ JobStatus(wjob[w]) = "running"
        /\ executions[wjob[w]] = retryCounter[wjob[w]] + 1
        /\ executions' = executions /\ wjob' = wjob
    BY <1>9, <1>11 DEF HandlerError
  <2>2. MayRetry(wjob[w]) <=> ~Lifecycle!LastAttempt(wjob[w])
    BY <2>1, MemoryAssumption DEF MayRetry, Lifecycle!LastAttempt
  <2>3. \A k \in Jobs \ {wjob[w]} : JobStatus(k)' = JobStatus(k)
    BY <1>11, <2>1, StatusKept DEF HandlerError, Retry, Fail, Reach
  <2>4. CASE Retry(w)
    <3>1. JobStatus(wjob[w])' = "pending"
      BY <2>1, <2>4 DEF Retry, Reach, JobStatus, Sending
    <3> QED BY <2>1, <2>2, <2>3, <2>4, <3>1, Moves DEF Retry, Lifecycle!Retry
  <2>5. CASE Fail(w)
    <3>1. JobStatus(wjob[w])' = "failed"
      BY <2>1, <2>5 DEF Fail, Reach, JobStatus, Sending
    <3> QED BY <2>1, <2>2, <2>3, <2>5, <3>1, Moves DEF Fail, Lifecycle!Fail
  <2> QED BY <1>11, <2>1, <2>4, <2>5 DEF HandlerError
<1>12. ASSUME Close \/ \E name \in Names, kind \in {"plain", "ctx"} : RegisterHandler(name, kind)
       PROVE  Steady
  BY <1>12, StatusKept, Invisible DEF Close, RegisterHandler, jobVars
<1>13. Step
  OBVIOUS
<1> QED BY ONLY <1>1, <1>2, <1>3, <1>4, <1>5, <1>6, <1>7, <1>8, <1>10, <1>11, <1>12, <1>13
        DEF Step, Lifecycle!Next

\* The memory backend implements the job lifecycle, for every set of jobs and
\* workers and every limit on the attempts.
THEOREM MemoryImplementsLifecycle == Spec => ImplementsLifecycle
<1>1. Init => Lifecycle!Init
  BY DEF Init, Lifecycle!Init, JobStatus
<1> QED BY <1>1, Simulates, InductiveInvariant, PTL DEF Spec, ImplementsLifecycle, Lifecycle!Spec
=============================================================================
