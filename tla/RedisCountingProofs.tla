------------------------ MODULE RedisCountingProofs -------------------------
(***************************************************************************)
(* What the hashes of the redis backend have counted while no lock expires *)
(* (Reapers = {}): the invariant RInv, and how the kinds of step keep it.  *)
(*                                                                         *)
(* To IInv, which says who may hold a job and that hashes are whole, RInv  *)
(* adds what the hashes and the copies of them have counted at each step   *)
(* of the worker that holds the job.                                       *)
(***************************************************************************)
EXTENDS RedisQueueProofs

\* A hash with which job j can be run: its runs are counted in it, and there is
\* an attempt left.
Ready(hash, j) ==
    /\ hash.RetryCounter = executions[j]
    /\ executions[j] <= MaxAttempts
    /\ hash.Retry <=> j \in RetryJobs

JobInv(j) ==
    /\ j \in dispatched <=> Settled(j) \/ pending[j] # NoKey \/ locked[j] # NoKey
    /\ Settled(j) => pending[j] = NoKey /\ locked[j] = NoKey
    /\ ~(j \in completed /\ j \in failed)
    /\ pending[j] # NoKey => Ready(pending[j], j)
    /\ executions[j] <= MaxAttempts + 1
    /\ failedRows[j] <= (IF j \in failed THEN 1 ELSE 0)

AtRow(w, j) == wpc[w] = "failRow" /\ wjob[w] = j

\* A worker that holds job j, by its step.
HolderInv(w, j) ==
    /\ locked[j] # NoKey
    /\ wpc[w] \in BeforeRun => Ready(locked[j], j)
    /\ wpc[w] \in {"activate", "lookup"} => Ready(cachedJob[w], j)
    /\ wpc[w] \in AfterStart => locked[j].RetryCounter = cachedJob[w].RetryCounter
    /\ wpc[w] \in {"run", "complete", "completeMove", "retry"} =>
           executions[j] = cachedJob[w].RetryCounter + 1 /\ executions[j] <= MaxAttempts + 1
    /\ wpc[w] \in {"run", "retry"} => (cachedJob[w].Retry <=> j \in RetryJobs)
    /\ wpc[w] = "retry" => j \in RetryJobs /\ executions[j] <= MaxAttempts
    /\ wpc[w] \in {"fail", "failMove"} =>
           \/ executions[j] = cachedJob[w].RetryCounter
           \/ /\ executions[j] = cachedJob[w].RetryCounter + 1
              /\ j \in RetryJobs => executions[j] > MaxAttempts

\* A worker about to record the permanent failure of job j.
RowInv(w, j) ==
    /\ j \in failed
    /\ failedRows[j] = 0
    /\ \A v \in Workers : AtRow(v, j) => v = w

WorkerInv(w) ==
    \A j \in Jobs : (Holds(w, j) => HolderInv(w, j)) /\ (AtRow(w, j) => RowInv(w, j))

RInv == (\A j \in Jobs : JobInv(j)) /\ (\A w \in Workers : WorkerInv(w))

-----------------------------------------------------------------------------
\* The limits that counting is about.
LEMMA Limits ==
    MaxAttempts \in Nat /\ MaxAge \in Nat /\ MaxExecutions \in Nat /\ MaxExecutions > MaxAttempts + 1
  BY BoundsAssumption, WorkersAssumption

\* Nobody else has a hand on the job a worker holds: it is not pending, not
\* settled, and no other worker holds it or records its failure.
LEMMA Alone ==
    ASSUME IInv, RInv, Reapers = {}, NEW w \in Workers, NEW j \in Jobs, Holds(w, j)
    PROVE  /\ pending[j] = NoKey /\ locked[j] # NoKey
           /\ ~Settled(j) /\ j \in dispatched /\ failedRows[j] = 0
           /\ \A v \in Workers \ {w} : ~Holds(v, j)
           /\ \A v \in Workers : ~AtRow(v, j)
<1>1. pending[j] = NoKey /\ \A v \in Workers \ {w} : ~Holds(v, j)
  BY DEF IInv, ClaimExclusive, Protected, Exists
<1>2. locked[j] # NoKey
  BY DEF RInv, WorkerInv, HolderInv
<1>3. JobInv(j)
  BY DEF RInv
<1>4. ~Settled(j) /\ j \in dispatched /\ j \notin failed
  BY <1>2, <1>3 DEF JobInv, Settled
<1>5. failedRows[j] = 0
  <2>1. failedRows[j] \in 0 .. MaxRows
    BY DEF IInv, TypeOK
  <2>2. failedRows[j] <= 0
    BY <1>3, <1>4 DEF JobInv
  <2> QED BY <2>1, <2>2, BoundsAssumption
<1>6. \A v \in Workers : ~AtRow(v, j)
  BY <1>4 DEF RInv, WorkerInv, RowInv
<1> QED BY <1>1, <1>2, <1>4, <1>5, <1>6

\* What is said of a job and of a worker depends on their own state only.
LEMMA JobKept ==
    ASSUME NEW k \in Jobs, JobInv(k), pending'[k] = pending[k], locked'[k] = locked[k],
           executions'[k] = executions[k], failedRows'[k] = failedRows[k],
           k \in completed' <=> k \in completed, k \in failed' <=> k \in failed,
           k \in dispatched' <=> k \in dispatched
    PROVE  JobInv(k)'
  BY DEF JobInv, Settled, Ready

\* The same for a worker that holds a job.
LEMMA HolderKept ==
    ASSUME NEW v \in Workers, NEW k \in Jobs, HolderInv(v, k),
           wpc'[v] = wpc[v], cachedJob'[v] = cachedJob[v],
           locked'[k] = locked[k], executions'[k] = executions[k]
    PROVE  HolderInv(v, k)'
  BY DEF HolderInv, Ready

\* A worker that holds job j next satisfies WorkerInv if it satisfies HolderInv.
LEMMA Holder ==
    ASSUME NEW w \in Workers, NEW j \in Jobs, wjob'[w] = j, wpc'[w] # "failRow", HolderInv(w, j)'
    PROVE  WorkerInv(w)'
  BY DEF WorkerInv, Holds, AtRow

\* A worker that holds nothing next satisfies WorkerInv.
LEMMA Free ==
    ASSUME NEW w \in Workers, wpc'[w] \notin Holding \cup {"failRow"}
    PROVE  WorkerInv(w)'
  BY DEF WorkerInv, Holds, AtRow

\* A step of worker w on job j leaves the other jobs and workers alone.
LEMMA Local ==
    ASSUME RInv, NEW w \in Workers, NEW j \in Jobs,
           \A k \in Jobs \ {j} :
               /\ pending'[k] = pending[k] /\ locked'[k] = locked[k]
               /\ executions'[k] = executions[k] /\ failedRows'[k] = failedRows[k]
               /\ k \in completed' <=> k \in completed
               /\ k \in failed' <=> k \in failed
               /\ k \in dispatched' <=> k \in dispatched,
           \A v \in Workers \ {w} :
               /\ wpc'[v] = wpc[v] /\ wjob'[v] = wjob[v] /\ cachedJob'[v] = cachedJob[v]
               /\ ~Holds(v, j) /\ ~AtRow(v, j),
           \A k \in Jobs \ {j} : ~AtRow(w, k)',
           JobInv(j)', WorkerInv(w)'
    PROVE  RInv'
<1>1. ASSUME NEW k \in Jobs PROVE JobInv(k)'
  BY JobKept DEF RInv
<1>2. ASSUME NEW v \in Workers PROVE WorkerInv(v)'
  <2>1. CASE v = w
    BY <2>1
  <2>2. CASE v # w
    <3> SUFFICES ASSUME NEW k \in Jobs
                 PROVE  (Holds(v, k)' => HolderInv(v, k)') /\ (AtRow(v, k)' => RowInv(v, k)')
      BY DEF WorkerInv
    <3>1. (Holds(v, k)' <=> Holds(v, k)) /\ (AtRow(v, k)' <=> AtRow(v, k))
      BY <2>2 DEF Holds, AtRow
    <3>2. CASE k = j
      BY <2>2, <3>1, <3>2
    <3>3. CASE k # j
      <4>1. (Holds(v, k) => HolderInv(v, k)) /\ (AtRow(v, k) => RowInv(v, k))
        BY DEF RInv, WorkerInv
      <4>2. HolderInv(v, k) => HolderInv(v, k)'
        BY <2>2, <3>3, HolderKept
      <4>3. \A u \in Workers : AtRow(u, k)' => AtRow(u, k)
        BY <3>3 DEF AtRow
      <4>4. RowInv(v, k) => RowInv(v, k)'
        BY <3>3, <4>3 DEF RowInv
      <4> QED BY <3>1, <4>1, <4>2, <4>4
    <3> QED BY <3>2, <3>3
  <2> QED BY <2>1, <2>2
<1> QED BY <1>1, <1>2 DEF RInv

stored == <<pending, locked, completed, failed, failedRows, executions, dispatched>>

\* Workers that go on as they were, or let go of their jobs, satisfy WorkerInv
\* while nothing they rely on is written.
LEMMA WorkersKept ==
    ASSUME RInv, UNCHANGED <<locked, failed, failedRows, executions>>,
           \A v \in Workers :
               \/ wpc'[v] = wpc[v] /\ wjob'[v] = wjob[v] /\ cachedJob'[v] = cachedJob[v]
               \/ wpc'[v] \notin Holding \cup {"failRow"},
           NEW v \in Workers
    PROVE  WorkerInv(v)'
<1>1. CASE wpc'[v] \notin Holding \cup {"failRow"}
  BY <1>1, Free
<1>2. CASE wpc'[v] = wpc[v] /\ wjob'[v] = wjob[v] /\ cachedJob'[v] = cachedJob[v]
  <2> SUFFICES ASSUME NEW k \in Jobs
               PROVE  (Holds(v, k)' => HolderInv(v, k)') /\ (AtRow(v, k)' => RowInv(v, k)')
    BY DEF WorkerInv
  <2>1. (Holds(v, k)' <=> Holds(v, k)) /\ (AtRow(v, k)' <=> AtRow(v, k))
    BY <1>2 DEF Holds, AtRow
  <2>2. (Holds(v, k) => HolderInv(v, k)) /\ (AtRow(v, k) => RowInv(v, k))
    BY DEF RInv, WorkerInv
  <2>3. HolderInv(v, k) => HolderInv(v, k)'
    BY <1>2, HolderKept
  <2>4. \A u \in Workers : AtRow(u, k)' => AtRow(u, k)
    BY DEF AtRow
  <2>5. RowInv(v, k) => RowInv(v, k)'
    BY <2>4 DEF RowInv
  <2> QED BY <2>1, <2>2, <2>3, <2>5
<1> QED BY <1>1, <1>2

\* A step that writes nothing and with which workers only let go of their jobs:
\* a return, the next key, a crash, a lost connection.
LEMMA LetGo ==
    ASSUME RInv, UNCHANGED stored,
           \A v \in Workers :
               \/ wpc'[v] = wpc[v] /\ wjob'[v] = wjob[v] /\ cachedJob'[v] = cachedJob[v]
               \/ wpc'[v] \notin Holding \cup {"failRow"}
    PROVE  RInv'
<1>1. ASSUME NEW k \in Jobs PROVE JobInv(k)'
  BY JobKept DEF RInv, stored
<1> QED BY <1>1, WorkersKept DEF RInv, stored

\* A step of a holder that writes nothing keeps RInv if it keeps HolderInv.
LEMMA GoesOn ==
    ASSUME IInv, RInv, Reapers = {}, UNCHANGED stored, NEW w \in Workers, NEW j \in Jobs,
           Holds(w, j), wjob'[w] = j, wpc'[w] # "failRow", HolderInv(w, j)',
           \A v \in Workers \ {w} :
               wpc'[v] = wpc[v] /\ wjob'[v] = wjob[v] /\ cachedJob'[v] = cachedJob[v]
    PROVE  RInv'
<1>1. JobInv(j)'
  BY JobKept DEF RInv, stored
<1>2. WorkerInv(w)'
  BY Holder
<1>3. \A k \in Jobs \ {j} : ~AtRow(w, k)'
  BY DEF AtRow
<1> QED BY <1>1, <1>2, <1>3, Alone, Local DEF stored

\* Nothing is dispatched or held at first.
LEMMA InitRInv == Init => RInv
<1> SUFFICES ASSUME Init PROVE RInv
  OBVIOUS
<1>1. ASSUME NEW j \in Jobs PROVE JobInv(j)
  BY BoundsAssumption DEF Init, JobInv, Settled
<1>2. ASSUME NEW w \in Workers PROVE WorkerInv(w)
  BY Zenon DEF Init, WorkerInv, Holds, AtRow, Holding, BeforeRun, AfterStart
<1> QED BY <1>1, <1>2 DEF RInv

-----------------------------------------------------------------------------
(* The steps of a worker, those that write first. *)

\* The steps and the key of a claim.
LEMMA ClaimR ==
    ASSUME IInv, RInv, Reapers = {}, NEW w \in Workers, NEW j \in Jobs, Claim(w, j),
           UNCHANGED dispatched
    PROVE  RInv'
<1> USE DEF IInv, TypeOK
<1>1. /\ pending'[j] = NoKey /\ locked'[j] = pending[j] /\ pending[j] # NoKey
      /\ \A k \in Jobs \ {j} : pending'[k] = pending[k] /\ locked'[k] = locked[k]
      /\ UNCHANGED <<completed, failed, failedRows, executions, cachedJob>>
      /\ wpc'[w] = "stamp" /\ wjob'[w] = j
      /\ \A v \in Workers \ {w} : wpc'[v] = wpc[v] /\ wjob'[v] = wjob[v]
  BY DEF Claim, RenamePendingLocked, Exists
<1>2. \A v \in Workers : ~Holds(v, j)
  BY <1>1 DEF ClaimExclusive, Protected, Exists
<1>3. JobInv(j)
  BY DEF RInv
<1>4. ~Settled(j) /\ Ready(pending[j], j)
  BY <1>1, <1>3 DEF JobInv
<1>5. \A v \in Workers : ~AtRow(v, j)
  BY <1>4 DEF RInv, WorkerInv, RowInv, Settled
<1>6. JobInv(j)'
  BY <1>1, <1>3 DEF JobInv, Settled
<1>7. HolderInv(w, j)'
  BY <1>1, <1>4 DEF HolderInv, Ready, BeforeRun, AfterStart
<1>8. WorkerInv(w)'
  BY <1>1, <1>7, Holder, Zenon
<1>9. \A k \in Jobs \ {j} : ~AtRow(w, k)'
  BY <1>1 DEF AtRow
<1> QED BY ONLY RInv, Local, <1>1, <1>2, <1>5, <1>6, <1>8, <1>9, UNCHANGED dispatched,
           w \in Workers, j \in Jobs

\* A write to the locked key by its holder keeps RInv if it keeps HolderInv.
LEMMA WriteR ==
    ASSUME IInv, RInv, Reapers = {}, NEW w \in Workers, NEW j \in Jobs, Holds(w, j),
           NEW h, h # NoKey, HSetLocked(j, h),
           UNCHANGED <<pending, completed, failed, failedRows, executions, dispatched, cachedJob, wjob>>,
           wpc'[w] # "failRow", \A v \in Workers \ {w} : wpc'[v] = wpc[v],
           HolderInv(w, j)'
    PROVE  RInv'
<1>1. locked'[j] = h /\ \A k \in Jobs \ {j} : locked'[k] = locked[k]
  BY DEF HSetLocked, IInv, TypeOK
<1>2. JobInv(j) /\ locked[j] # NoKey /\ ~Settled(j)
  BY Alone DEF RInv
<1>3. JobInv(j)'
  BY <1>1, <1>2 DEF JobInv, Settled, Ready
<1>4. wjob'[w] = j
  BY DEF Holds
<1>5. WorkerInv(w)'
  BY <1>4, Holder
<1>6. \A k \in Jobs \ {j} : ~AtRow(w, k)'
  BY DEF AtRow
<1> QED BY <1>1, <1>3, <1>5, <1>6, Alone, Local

\* A worker that ends its work on job j leaves a job that JobInv describes.
LEMMA EndsR ==
    ASSUME IInv, RInv, Reapers = {}, NEW w \in Workers, NEW j \in Jobs, Holds(w, j),
           \A k \in Jobs \ {j} :
               /\ pending'[k] = pending[k] /\ locked'[k] = locked[k]
               /\ k \in completed' <=> k \in completed
               /\ k \in failed' <=> k \in failed,
           UNCHANGED <<failedRows, executions, dispatched>>,
           \A v \in Workers \ {w} :
               wpc'[v] = wpc[v] /\ wjob'[v] = wjob[v] /\ cachedJob'[v] = cachedJob[v],
           wpc'[w] = "next", JobInv(j)'
    PROVE  RInv'
<1>1. WorkerInv(w)'
  BY Free DEF Holding, BeforeRun, AfterStart
<1>2. \A k \in Jobs \ {j} : ~AtRow(w, k)'
  BY DEF AtRow
<1> QED BY <1>1, <1>2, Alone, Local

\* The steps of a holder, one by one: what it knows of its job.
LEMMA Held ==
    ASSUME IInv, RInv, NEW w \in Workers, wpc[w] \in Holding
    PROVE  /\ wjob[w] \in Jobs /\ Holds(w, wjob[w]) /\ HolderInv(w, wjob[w])
           /\ locked[wjob[w]] \in JobHash
           /\ wpc[w] \in CachedSteps => cachedJob[w] \in JobHash /\ cachedJob[w].ID = wjob[w]
<1>1. wjob[w] \in Jobs
  BY DEF IInv, Shape, WorkerShape
<1>2. Holds(w, wjob[w])
  BY DEF Holds
<1>3. HolderInv(w, wjob[w])
  BY <1>1, <1>2 DEF RInv, WorkerInv
<1>4. locked[wjob[w]] \in JobHash
  BY <1>1, <1>3 DEF HolderInv, IInv, TypeOK
<1> QED BY <1>1, <1>2, <1>3, <1>4 DEF IInv, Shape, WorkerShape

\* Dispatch writes a job that has not run and is nobody's.
LEMMA DispatchR ==
    ASSUME IInv, RInv, NEW j \in Jobs, NEW at \in DispatchAts, Dispatch(j, at)
    PROVE  RInv'
<1>1. /\ pending'[j] = NewJob(j, at) /\ \A k \in Jobs \ {j} : pending'[k] = pending[k]
      /\ UNCHANGED <<locked, completed, failed, failedRows, executions, wpc, wjob, cachedJob>>
      /\ j \notin dispatched /\ dispatched' = dispatched \cup {j}
  BY DEF Dispatch, HSetPending, IInv, TypeOK, wvars
<1>2. executions[j] = 0
  BY <1>1 DEF IInv, Once, OnceOf
<1>3. Ready(pending[j], j)'
  <2>1. pending'[j].RetryCounter = 0 /\ 0 <= MaxAttempts
    BY <1>1, BoundsAssumption DEF NewJob
  <2>2. pending'[j].Retry = (j \in RetryJobs)
    BY <1>1 DEF NewJob
  <2>3. executions'[j] = 0
    BY <1>1, <1>2
  <2> QED BY ONLY <2>1, <2>2, <2>3, Zenon DEF Ready
<1>4. ~Settled(j) /\ locked[j] = NoKey /\ JobInv(j)
  BY <1>1 DEF RInv, JobInv
<1>5. JobInv(j)'
  <2>1. NewJob(j, at) \in JobHash
    BY JobsAssumption, BoundsAssumption, QueueAssumption DEF NewJob, JobHash, Ages
  <2> QED BY <1>1, <1>3, <1>4, <2>1, NoKeyAssumption DEF JobInv, Settled
<1>6. ASSUME NEW k \in Jobs \ {j} PROVE JobInv(k)'
  BY <1>1, JobKept DEF RInv
<1> QED BY <1>1, <1>5, <1>6, WorkersKept DEF RInv

\* Time leaves what is counted alone.
LEMMA TickR == ASSUME IInv, RInv, Tick PROVE RInv'
<1> USE DEF IInv, TypeOK
<1>1. ASSUME NEW k \in Jobs
      PROVE  /\ pending'[k] = Aged(pending[k]) /\ locked'[k] = Aged(locked[k])
             /\ pending[k] \in JobHash \cup {NoKey} /\ locked[k] \in JobHash \cup {NoKey}
  BY DEF Tick
<1>2. /\ UNCHANGED <<completed, failed, failedRows, executions, dispatched, wpc, wjob>>
      /\ \A v \in Workers : cachedJob'[v] = Aged(cachedJob[v])
  BY DEF Tick
<1>3. ASSUME NEW k \in Jobs PROVE JobInv(k)'
  <2>1. JobInv(k)
    BY DEF RInv
  <2>2. /\ pending'[k] = NoKey <=> pending[k] = NoKey
        /\ pending[k] # NoKey => /\ pending'[k].RetryCounter = pending[k].RetryCounter
                                 /\ pending'[k].Retry = pending[k].Retry
        /\ locked'[k] = NoKey <=> locked[k] = NoKey
    BY ONLY <1>1, AgedType, k \in Jobs
  <2> QED BY ONLY <1>2, <2>1, <2>2 DEF JobInv, Settled, Ready
<1>4. ASSUME NEW v \in Workers PROVE WorkerInv(v)'
  <2> SUFFICES ASSUME NEW k \in Jobs
               PROVE  (Holds(v, k)' => HolderInv(v, k)') /\ (AtRow(v, k)' => RowInv(v, k)')
    BY DEF WorkerInv
  <2>1. (Holds(v, k) => HolderInv(v, k)) /\ (AtRow(v, k) => RowInv(v, k))
    BY DEF RInv, WorkerInv
  <2>2. RowInv(v, k) => RowInv(v, k)'
    BY ONLY <1>2 DEF RowInv, AtRow
  <2>3. ASSUME Holds(v, k), HolderInv(v, k) PROVE HolderInv(v, k)'
    <3>1. locked[k] # NoKey
      BY <2>3 DEF HolderInv
    <3>2. /\ locked'[k] # NoKey /\ locked'[k].RetryCounter = locked[k].RetryCounter
          /\ locked'[k].Retry = locked[k].Retry
      BY ONLY <1>1, <3>1, AgedType, k \in Jobs
    <3>3. wpc[v] \in CachedSteps => cachedJob[v] \in JobHash
      BY DEF Shape, WorkerShape
    <3>4. wpc[v] \in CachedSteps => /\ cachedJob'[v].RetryCounter = cachedJob[v].RetryCounter
                                    /\ cachedJob'[v].Retry = cachedJob[v].Retry
      BY ONLY <1>2, <3>3, AgedType, NoKeyAssumption, v \in Workers
    <3> QED BY ONLY <1>2, <2>3, <3>2, <3>4 DEF HolderInv, Ready, CachedSteps, AfterStart
  <2>4. (Holds(v, k)' <=> Holds(v, k)) /\ (AtRow(v, k)' <=> AtRow(v, k))
    BY ONLY <1>2 DEF Holds, AtRow
  <2> QED BY <2>1, <2>2, <2>3, <2>4
<1> QED BY <1>3, <1>4 DEF RInv

\* A failed job gets its row from the worker that moved it.
LEMMA RecordR ==
    ASSUME IInv, RInv, NEW w \in Workers, RecordFailure(w), UNCHANGED dispatched
    PROVE  RInv'
<1>0. wpc[w] = "failRow" /\ wjob[w] \in Jobs
  BY DEF RecordFailure, IInv, Shape, WorkerShape
<1> PICK j \in Jobs : j = wjob[w]
  BY <1>0
<1>1. wpc[w] = "failRow" /\ j \in Jobs /\ AtRow(w, j)
  BY <1>0 DEF AtRow
<1>2. RowInv(w, j) /\ JobInv(j)
  BY <1>1 DEF RInv, WorkerInv
<1>3. /\ UNCHANGED <<pending, locked, completed, failed, executions>>
      /\ wpc'[w] = "next"
      /\ \A v \in Workers \ {w} :
             wpc'[v] = wpc[v] /\ wjob'[v] = wjob[v] /\ cachedJob'[v] = cachedJob[v]
  BY DEF RecordFailure, NextKey, Idle, IInv, TypeOK, keys
<1>4. failedRows'[j] <= 1 /\ \A k \in Jobs \ {j} : failedRows'[k] = failedRows[k]
  BY <1>1, <1>2 DEF RecordFailure, InsertFailedRow, IInv, TypeOK, RowInv
<1>5. JobInv(j)'
  BY ONLY <1>2, <1>3, <1>4, UNCHANGED dispatched DEF JobInv, Settled, Ready, RowInv
<1>6. \A v \in Workers \ {w} : ~Holds(v, j) /\ ~AtRow(v, j)
  <2>1. locked[j] = NoKey
    BY <1>2 DEF JobInv, RowInv, Settled
  <2> QED BY <1>1, <1>2, <2>1 DEF RInv, WorkerInv, HolderInv, RowInv
<1>7. WorkerInv(w)' /\ \A k \in Jobs \ {j} : ~AtRow(w, k)'
  BY <1>3, Free DEF Holding, BeforeRun, AfterStart, AtRow
<1> QED BY ONLY RInv, w \in Workers, UNCHANGED dispatched, <1>1, <1>3, <1>4, <1>5, <1>6, <1>7, Local

-----------------------------------------------------------------------------
(***************************************************************************)
(* Why a worker ends, in the absence of faults.  The scanner returns when  *)
(* the gate of a claimed job does not parse or the claimed key is gone.    *)
(* HolderInv excludes the second; GatesInv, that the gate of every job a   *)
(* worker can still look at is a time, excludes the first.                 *)
(***************************************************************************)
Gated(w) == wpc[w] \in {"stamp", "read", "gate"} => locked[wjob[w]].RetryAfter \in Nat

Stays(w) == Gated(w) /\ (wpc[w] = "exited" => systemShutdown[ProcOf[w]])

GatesInv ==
    /\ \A j \in Jobs : pending[j] # NoKey => pending[j].RetryAfter \in Nat
    /\ \A w \in Workers : Stays(w)

\* A step of worker w that touches at most job j, which is nobody else's.
LEMMA GatesLocal ==
    ASSUME IInv, GatesInv, NEW w \in Workers, NEW j \in Jobs, UNCHANGED systemShutdown,
           \A k \in Jobs \ {j} : pending'[k] = pending[k] /\ locked'[k] = locked[k],
           \A v \in Workers \ {w} : wpc'[v] = wpc[v] /\ wjob'[v] = wjob[v] /\ ~Holds(v, j),
           pending'[j] # NoKey => pending'[j].RetryAfter \in Nat,
           Stays(w)'
    PROVE  GatesInv'
<1>1. ASSUME NEW v \in Workers \ {w} PROVE Stays(v)'
  <2>1. wpc'[v] = wpc[v] /\ wjob'[v] = wjob[v] /\ ~Holds(v, j) /\ Stays(v)
    BY DEF GatesInv
  <2>2. wpc[v] \in {"stamp", "read", "gate"} => wjob[v] \in Jobs \ {j}
    BY <2>1 DEF Holds, Holding, BeforeRun, IInv, Shape, WorkerShape
  <2> QED BY <2>1, <2>2 DEF Stays, Gated
<1> QED BY <1>1 DEF GatesInv

\* A step that touches no hash, and leaves the worker at no gate.
LEMMA GatesIdle ==
    ASSUME GatesInv, NEW w \in Workers, UNCHANGED <<pending, locked, systemShutdown>>,
           \A v \in Workers \ {w} : wpc'[v] = wpc[v] /\ wjob'[v] = wjob[v],
           wpc'[w] \notin {"stamp", "read", "gate"},
           wpc'[w] = "exited" => systemShutdown[ProcOf[w]]
    PROVE  GatesInv'
<1>1. ASSUME NEW v \in Workers PROVE Stays(v)'
  BY DEF GatesInv, Stays, Gated
<1> QED BY <1>1 DEF GatesInv

\* Every step of a worker keeps the gates, and no step but the loop test of a
\* closed queue ends it.
LEMMA GatesWorker ==
    ASSUME Reapers = {}, IInv, RInv, GatesInv, NEW w \in Workers, WorkerStep(w)
    PROVE  GatesInv'
<1> USE DEF shared, keys
<1>0. /\ wpc \in [Workers -> WorkerSteps] /\ DOMAIN wjob = Workers
      /\ pending \in [Jobs -> JobHash \cup {NoKey}] /\ locked \in [Jobs -> JobHash \cup {NoKey}]
  BY DEF IInv, TypeOK
<1>1. ASSUME wpc[w] \in Holding
      PROVE  /\ wjob[w] \in Jobs /\ locked[wjob[w]] \in JobHash /\ locked[wjob[w]] # NoKey
             /\ Fields(locked[wjob[w]]) = locked[wjob[w]]
             /\ \A v \in Workers \ {w} : ~Holds(v, wjob[w])
             /\ wpc[w] \in {"stamp", "read", "gate"} => locked[wjob[w]].RetryAfter \in Nat
  <2>1. wjob[w] \in Jobs /\ Holds(w, wjob[w]) /\ locked[wjob[w]] \in JobHash
    BY <1>1, Held
  <2>2. locked[wjob[w]] # NoKey /\ \A v \in Workers \ {w} : ~Holds(v, wjob[w])
    BY <2>1, Alone
  <2> QED BY <2>1, <2>2 DEF GatesInv, Stays, Gated, Fields
<1>2. CASE ScanBreak(w)
  BY <1>0, <1>2, GatesIdle DEF ScanBreak, Return, Idle
<1>3. CASE ScanSleep(w) \/ Scan(w) \/ PageDone(w)
  BY <1>0, <1>3, GatesIdle DEF ScanSleep, Scan, PageDone, Goto
<1>4. ASSUME NEW j \in Jobs, ClaimLost(w, j) PROVE GatesInv'
  BY <1>0, <1>4, GatesIdle DEF ClaimLost
<1>5. ASSUME NEW j \in Jobs, Claim(w, j) PROVE GatesInv'
  <2>1. pending[j] # NoKey /\ \A v \in Workers : ~Holds(v, j)
    BY <1>5 DEF Claim, Exists, IInv, ClaimExclusive, Protected
  <2>2. /\ locked' = [locked EXCEPT ![j] = pending[j]]
        /\ pending' = [pending EXCEPT ![j] = NoKey]
        /\ wjob' = [wjob EXCEPT ![w] = j] /\ wpc' = [wpc EXCEPT ![w] = "stamp"]
        /\ UNCHANGED systemShutdown
    BY <1>5 DEF Claim, RenamePendingLocked
  <2>3. Stays(w)'
    BY <1>0, <2>1, <2>2 DEF Stays, Gated, GatesInv
  <2> QED BY <1>0, <2>1, <2>2, <2>3, GatesLocal
<1>6. CASE StampLock(w)
  <2>0. wpc[w] = "stamp" /\ wpc[w] \in Holding
    BY <1>6 DEF StampLock, Holding, BeforeRun
  <2> PICK j \in Jobs : j = wjob[w]
    BY <1>1, <2>0
  <2>1. /\ locked' = [locked EXCEPT ![j] = [locked[j] EXCEPT !.LockedAt = 0]]
        /\ wpc' = [wpc EXCEPT ![w] = "read"] /\ UNCHANGED <<wjob, pending, systemShutdown>>
    BY <1>1, <1>6, <2>0, Zenon DEF StampLock, HSetLocked, Goto
  <2>2. locked'[j].RetryAfter \in Nat
    BY <1>0, <1>1, <2>0, <2>1 DEF JobHash
  <2>3. Stays(w)'
    BY <1>0, <2>1, <2>2 DEF Stays, Gated
  <2>4. pending[j] # NoKey => pending[j].RetryAfter \in Nat
    BY DEF GatesInv
  <2> QED BY <1>0, <1>1, <2>0, <2>1, <2>3, <2>4, GatesLocal
<1>7. CASE ReadUnparseable(w) \/ GiveBackMissing(w)
  BY <1>1, <1>7 DEF ReadUnparseable, GiveBackMissing, Exists, Holding, BeforeRun
<1>8. CASE ReadNotDue(w)
  <2>0. wpc[w] = "read" /\ wpc[w] \in Holding
    BY <1>8 DEF ReadNotDue, Holding, BeforeRun
  <2> PICK j \in Jobs : j = wjob[w]
    BY <1>1, <2>0
  <2>1. wpc' = [wpc EXCEPT ![w] = "gate"] /\ UNCHANGED <<wjob, locked, pending, systemShutdown>>
    BY <1>8 DEF ReadNotDue, Goto
  <2>2. Stays(w)'
    BY <1>0, <1>1, <2>0, <2>1 DEF Stays, Gated
  <2>3. pending[j] # NoKey => pending[j].RetryAfter \in Nat
    BY DEF GatesInv
  <2> QED BY <1>0, <1>1, <2>0, <2>1, <2>2, <2>3, GatesLocal
<1>9. CASE GiveBack(w)
  <2>0. wpc[w] = "gate" /\ wpc[w] \in Holding
    BY <1>9 DEF GiveBack, Holding, BeforeRun
  <2> PICK j \in Jobs : j = wjob[w]
    BY <1>1, <2>0
  <2>1. /\ pending' = [pending EXCEPT ![j] = locked[j]]
        /\ locked' = [locked EXCEPT ![j] = NoKey]
        /\ wpc' = [wpc EXCEPT ![w] = "next"] /\ UNCHANGED systemShutdown
        /\ wjob' = [wjob EXCEPT ![w] = Unset]
    BY <1>9 DEF GiveBack, RenameLockedPending, NextKey, Idle
  <2>2. Stays(w)' /\ pending'[j].RetryAfter \in Nat
    BY <1>0, <1>1, <2>0, <2>1 DEF Stays, Gated
  <2> QED BY <1>0, <1>1, <2>0, <2>1, <2>2, GatesLocal
<1>10. CASE Activate(w) \/ WriteBack(w) \/ Complete(w) \/ Fail(w) \/ Retry(w)
  <2>0. wpc[w] \in Holding
    BY <1>10, Zenon DEF Activate, WriteBack, Complete, Fail, Retry, Holding, BeforeRun, AfterStart
  <2>1. wpc[w] = "activate" => cachedJob[w].ID = wjob[w]
    BY <2>0, Held DEF CachedSteps
  <2> PICK j \in Jobs : j = wjob[w]
    BY <1>1, <2>0
  <2>2. \A k \in Jobs \ {j} : locked'[k] = locked[k]
    BY <1>0, <1>10, <2>1
       DEF Activate, WriteBack, Complete, Fail, Retry, HSetLocked,
           RenameLockedCompleted, RenameLockedFailed
  <2>3. /\ wpc'[w] \in {"lookup", "completeMove", "failMove", "next", "failRow"}
        /\ \A v \in Workers \ {w} : wpc'[v] = wpc[v] /\ wjob'[v] = wjob[v]
        /\ UNCHANGED systemShutdown
    BY <1>0, <1>10
       DEF Activate, WriteBack, Complete, Fail, Retry, Goto, NextKey, Idle
  <2>4. Stays(w)'
    BY <2>3 DEF Stays, Gated
  <2>5. /\ pending'[j] # NoKey => pending'[j].RetryAfter \in Nat
        /\ \A k \in Jobs \ {j} : pending'[k] = pending[k]
    <3>1. CASE UNCHANGED pending
      BY <3>1 DEF GatesInv
    <3>2. CASE Retry(w)
      <4>1. cachedJob[w] \in JobHash
        <5>1. wpc[w] \in CachedSteps
          BY <3>2 DEF Retry, CachedSteps, AfterStart
        <5> QED BY <2>0, <5>1, Held
      <4>2. NextRetryAfter(cachedJob[w]) \in Nat
        BY <4>1, BoundsAssumption DEF NextRetryAfter, JobHash
      <4>3. Retried(cachedJob[w]).RetryAfter = NextRetryAfter(cachedJob[w])
        BY <4>1, Zenon DEF Retried, JobHash
      <4>4. pending' = [pending EXCEPT ![j] = Retried(cachedJob[w])]
        BY <3>2 DEF Retry, HSetPending
      <4>5. pending'[j] = Retried(cachedJob[w]) /\ \A k \in Jobs \ {j} : pending'[k] = pending[k]
        BY <1>0, <4>4
      <4> QED BY <4>2, <4>3, <4>5
    <3> QED BY <1>10, <3>1, <3>2
            DEF Activate, WriteBack, Complete, Fail, RenameLockedCompleted, RenameLockedFailed
  <2> QED BY <1>1, <2>0, <2>2, <2>3, <2>4, <2>5, GatesLocal, Zenon
<1>11. CASE \/ ReadDue(w) \/ StartHandler(w) \/ NoHandler(w) \/ HandlerOk(w) \/ HandlerError(w)
            \/ FinalMoveMissing(w) \/ RecordFailure(w)
  <2>1. /\ wpc'[w] \in {"activate", "run", "fail", "complete", "retry", "next"}
        /\ \A v \in Workers \ {w} : wpc'[v] = wpc[v] /\ wjob'[v] = wjob[v]
        /\ UNCHANGED <<pending, locked, systemShutdown>>
    BY <1>0, <1>11
       DEF ReadDue, StartHandler, NoHandler, HandlerOk, HandlerError, FinalMoveMissing,
           RecordFailure, Goto, NextKey, Idle
  <2> QED BY <2>1, GatesIdle
<1> QED BY <1>2, <1>3, <1>4, <1>5, <1>6, <1>7, <1>8, <1>9, <1>10, <1>11 DEF WorkerStep

\* Every step of a system without faults and without unparseable gates keeps the
\* gates.
LEMMA GatesStep ==
    ASSUME Reapers = {}, Garbage \notin DispatchAts, IInv, RInv, faults = 0 => GatesInv,
           [Next]_vars, faults' = 0
    PROVE  GatesInv'
<1>0. faults \in Nat /\ MaxFaults \in Nat /\ systemShutdown \in [Procs -> BOOLEAN]
  BY QueueAssumption DEF IInv, TypeOK
<1>1. faults = 0 \/ UNCHANGED faults
  BY <1>0 DEF Next, Dispatch, Crash, Close, RegisterHandler, WorkerNext, WorkerFault, ReaperNext,
              ReaperFault, Tick, Fault, vars
<1> SUFFICES ASSUME GatesInv PROVE GatesInv'
  BY <1>1
<1>2. ASSUME NEW kind, Fault(kind) PROVE FALSE
  BY <1>0, <1>1, <1>2 DEF Fault
<1>3. ASSUME NEW j \in Jobs, NEW at \in DispatchAts, Dispatch(j, at) PROVE GatesInv'
  <2>1. /\ pending' = [pending EXCEPT ![j] = NewJob(j, at)]
        /\ UNCHANGED <<locked, systemShutdown, wpc, wjob>>
    BY <1>3 DEF Dispatch, HSetPending, wvars
  <2>2. NewJob(j, at).RetryAfter \in Nat
    BY QueueAssumption DEF NewJob
  <2>3. \A k \in Jobs : pending'[k] # NoKey => pending'[k].RetryAfter \in Nat
    BY <2>1, <2>2 DEF GatesInv, IInv, TypeOK
  <2> QED BY <2>1, <2>3 DEF GatesInv, Stays, Gated
<1>4. ASSUME NEW p \in Procs, Close(p) PROVE GatesInv'
  BY <1>0, <1>4, WorkersAssumption DEF Close, keys, wvars, GatesInv, Stays, Gated
<1>5. ASSUME NEW p \in Procs, NEW name \in Names, RegisterHandler(p, name) PROVE GatesInv'
  BY <1>5 DEF RegisterHandler, shared, keys, GatesInv, Stays, Gated
<1>6. CASE Tick
  <2>1. ASSUME NEW h \in JobHash, h.RetryAfter \in Nat
        PROVE  Aged(h).RetryAfter \in Nat
    <3>1. Aged(h).RetryAfter = Nearer(h.RetryAfter)
      BY <2>1, NoKeyAssumption, Zenon DEF Aged, JobHash
    <3> QED BY <2>1, <3>1 DEF Nearer
  <2>2. /\ \A k \in Jobs : pending'[k] = Aged(pending[k]) /\ locked'[k] = Aged(locked[k])
        /\ UNCHANGED <<wpc, wjob, systemShutdown>>
    BY <1>6 DEF Tick
  <2>3. ASSUME NEW k \in Jobs, pending'[k] # NoKey PROVE pending'[k].RetryAfter \in Nat
    <3>1. pending[k] \in JobHash \cup {NoKey} /\ pending'[k] = Aged(pending[k])
      BY <2>2 DEF IInv, TypeOK
    <3>2. pending[k] # NoKey
      BY <2>3, <3>1, AgedType
    <3> QED BY <2>1, <3>1, <3>2 DEF GatesInv
  <2>4. ASSUME NEW w \in Workers PROVE Stays(w)'
    <3>1. Stays(w)
      BY DEF GatesInv
    <3>2. ASSUME wpc[w] \in {"stamp", "read", "gate"} PROVE locked'[wjob[w]].RetryAfter \in Nat
      <4>1. wjob[w] \in Jobs /\ locked[wjob[w]] \in JobHash
        BY <3>2, Held DEF Holding, BeforeRun
      <4> QED BY <2>1, <2>2, <3>1, <3>2, <4>1 DEF Stays, Gated
    <3> QED BY <2>2, <3>1, <3>2 DEF Stays, Gated
  <2> QED BY <2>3, <2>4 DEF GatesInv
<1>7. CASE UNCHANGED vars
  BY <1>7 DEF vars, shared, keys, wvars, GatesInv, Stays, Gated
<1>8. ASSUME NEW w \in Workers, WorkerNext(w) PROVE GatesInv'
  BY <1>8, GatesWorker DEF WorkerNext
<1> QED BY <1>2, <1>3, <1>4, <1>5, <1>6, <1>7, <1>8, Zenon DEF Next, Crash, WorkerFault
=============================================================================
