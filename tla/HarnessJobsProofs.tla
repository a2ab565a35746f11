-------------------------- MODULE HarnessJobsProofs -------------------------
(***************************************************************************)
(* Proofs about the jobs of Harness: how their handlers count and how they *)
(* end, for every set of scenarios, channels, client names and jobs left   *)
(* behind.                                                                 *)
(*                                                                         *)
(* BenchOutcomes is about a job that has ended and CountersExact about     *)
(* finished increments.  The invariant JInv follows the handlers: which    *)
(* job runs at which step and how often it has (Attempted, Handled), whose *)
(* counter it holds (Holds, Counters), and, for a job with a counter of    *)
(* its own, that the counter is the number of its runs (Followed).         *)
(***************************************************************************)
EXTENDS HarnessProofs

-----------------------------------------------------------------------------
(* The invariant *)

\* Every handler is registered before the process dispatches its first job.
Registrations ==
    /\ registered \in 0 .. Len(HandlerNames)
    /\ mpc \in Calls => AllRegistered

JobType ==
    /\ status \in [Jobs -> Lifecycle!Statuses] /\ attempts \in [Jobs -> Nat]
    /\ hpc \in [Jobs -> {"none", "load", "store", "add", "return"}]
    /\ attempt \in [Jobs -> Nat] /\ cell \in [Jobs -> Jobs \cup {None}]
    /\ flakyAttempts \in [IDs -> Jobs \cup {None}] /\ count \in [Jobs -> Nat]
    /\ added \in [IDs -> Nat] /\ AlwaysErrorAttempts \in Nat

\* How many failed runs a job has left to it at first.
Budget(j) == IF j \in RetryJobs THEN MaxAttempts ELSE 0
Waiting == {"new", "pending", "held"}

\* A job that waits has a run left to it, and its handler is somewhere exactly
\* while the job is running.
Attempted(j) ==
    /\ status[j] \in Waiting => attempts[j] <= Budget(j)
    /\ attempts[j] <= Budget(j) + 1
    /\ status[j] = "running" => attempts[j] >= 1
    /\ hpc[j] # "none" <=> status[j] = "running"

\* The jobs whose handlers count by ID.
Counting == {j \in Jobs : j.job.Name \in Flaky /\ Counts(j.job)}

\* A handler about to add holds the one counter that its ID has.
Holds(j) ==
    /\ hpc[j] \in {"load", "store"} => j \in Counting
    /\ hpc[j] = "add" => Counts(j.job)
    /\ hpc[j] = "add" /\ j.job.Name \in Flaky =>
           flakyAttempts[ID(j)] # None /\ cell[j] = flakyAttempts[ID(j)]

\* A counter is that of a job with the ID, and one not in the map is unused.
Counters ==
    /\ \A id \in IDs : flakyAttempts[id] # None =>
           LET m == flakyAttempts[id] IN m \in Counting /\ ID(m) = id /\ status[m] # "new"
    /\ \A m \in Jobs : count[m] # 0 => \E id \in IDs : flakyAttempts[id] = m

\* What the process dispatches has its handler, and fails only after its runs.
Handled(j) ==
    /\ status[j] # "new" => AllRegistered
    /\ status[j] = "failed" => attempts[j] = Budget(j) + 1

\* A fail-then-succeed job that shares its counter with no other.
Single(j) == j \in Jobs \ Left /\ j.job.Name = "flaky-fail-then-succeed" /\ ~Shared(j)

\* Its counter c is its number of runs, from the moment its handler, at step h
\* and with the attempt a, adds; it is to fail f times.
Tracked(c, h, a, runs, st, f) ==
    /\ c = IF h \in {"load", "store", "add"} THEN runs - 1 ELSE runs
    /\ h = "return" => a = runs
    /\ st \in Waiting => runs <= f
    /\ st = "running" => runs <= f + 1
    /\ st = "completed" => runs = f + 1
    /\ st = "failed" => f > MaxAttempts

Followed(j) ==
    Tracked(count[j], hpc[j], attempt[j], attempts[j], status[j], j.job.Payload.FailTimes)

JInv ==
    /\ Registrations /\ JobType /\ Counters
    /\ \A j \in Jobs : Attempted(j) /\ Holds(j)
    /\ \A j \in Jobs \ Left : Handled(j)
    /\ \A j \in Jobs : Single(j) => Followed(j)

-----------------------------------------------------------------------------
(* The jobs of the process *)

\* Every job of the process has a handler, and only SeedAll's tenth entry is
\* made to fail first and then succeed.
LEMMA ProcessJobs ==
    ASSUME NEW j \in Jobs \ Left
    PROVE  /\ \E i \in 1 .. Len(HandlerNames) : HandlerNames[i] = j.job.Name
           /\ j.job.Name = "flaky-fail-then-succeed" => j.job = NewFailThenSucceedJob("flaky-1", 2)
<1>n. /\ Len(HandlerNames) = 15
      /\ HandlerNames[1] = "hello-world" /\ HandlerNames[4] = "slow-sleep"
      /\ HandlerNames[5] = "slow-busy-loop"
      /\ HandlerNames[7] = "fail-error" /\ HandlerNames[8] = "fail-panic"
  BY DEF HandlerNames
<1>1. ASSUME NEW i \in Seeded, j = Entry("seed", i, SeedEntries[i])
      PROVE  /\ \E k \in 1 .. Len(HandlerNames) : HandlerNames[k] = j.job.Name
             /\ j.job.Name = "flaky-fail-then-succeed" => j.job = NewFailThenSucceedJob("flaky-1", 2)
  <2>1. i \in 1 .. 15 /\ j.job = SeedEntries[i]
    BY <1>1, SeedNames, HarnessAssumption DEF Entry
  <2> QED BY <2>1, SeedNames, Zenon
<1> DEFINE Simple == {"hello-world", "slow-sleep", "slow-busy-loop", "fail-error", "fail-panic"}
<1>2. ASSUME j.job.Name \in Simple
      PROVE  /\ \E k \in 1 .. Len(HandlerNames) : HandlerNames[k] = j.job.Name
             /\ j.job.Name # "flaky-fail-then-succeed"
  BY <1>n, <1>2
<1>3. /\ NewHelloJob.Name \in Simple /\ NewSleepJob.Name \in Simple
      /\ NewAlwaysErrorJob.Name \in Simple /\ NewPanicJob.Name \in Simple
      /\ NewBusyLoopJob.Name \in Simple
  BY DEF NewHelloJob, NewSleepJob, NewAlwaysErrorJob, NewPanicJob, NewBusyLoopJob, Job
<1>4. \A mode : \A job \in StressJobFor(mode) : job.Name \in Simple
  BY <1>3 DEF StressJobFor
<1>5. j \in StressJobs => j.job.Name \in Simple
  BY <1>4 DEF StressJobs, Entry
<1>6. j \in {Entry("client", i, NewHelloJob) : i \in Clients} \cup {Entry("sleep", 0, NewSleepJob)}
        => j.job.Name \in Simple
  BY <1>3 DEF Entry
<1> HIDE DEF Simple
<1> QED BY <1>1, <1>2, <1>5, <1>6, Zenon DEF Jobs

\* A job that is to fail first reaches its counter, is retried, and its handler
\* fails up to FailTimes times.
LEMMA FailsThenSucceeds ==
    ASSUME NEW j \in Jobs \ Left, j.job.Name = "flaky-fail-then-succeed"
    PROVE  /\ Counts(j.job) /\ j \in RetryJobs /\ j \in Counting
           /\ j.job.Payload.FailTimes \in Nat
           /\ \A n : Results(j.job, n) = IF n <= j.job.Payload.FailTimes THEN {"error"} ELSE {"ok"}
<1>1. j.job = NewFailThenSucceedJob("flaky-1", 2) /\ j.job.Payload # Malformed
  BY ProcessJobs, HarnessAssumption
<1>2. /\ j.job.Payload.ID = "flaky-1" /\ j.job.Payload.FailTimes = 2 /\ j.job.Retry = TRUE
  <2>1. j.job = [Name |-> "flaky-fail-then-succeed", Payload |-> [ID |-> "flaky-1", FailTimes |-> 2],
                 Retry |-> TRUE]
    BY <1>1, Zenon DEF NewFailThenSucceedJob, Job
  <2> QED BY <2>1
<1>3. Counts(j.job)
  <2>1. j.job.Name \in Flaky /\ j.job.Name \in Flaky \cup {"fail-error"}
    BY DEF Flaky
  <2> QED BY <1>1, <1>2, <2>1, Zenon DEF Counts
<1>4. ASSUME NEW n
      PROVE  FailThenSucceedHandler(j.job.Payload, n)
               = IF n <= j.job.Payload.FailTimes THEN {"error"} ELSE {"ok"}
  BY <1>1, <1>2, Zenon DEF FailThenSucceedHandler, Decoded
<1>5. \A n : Results(j.job, n) = FailThenSucceedHandler(j.job.Payload, n)
  BY DEF Results
<1>6. j \in RetryJobs /\ j \in Counting
  BY <1>2, <1>3 DEF RetryJobs, Counting, Flaky
<1>7. j.job.Payload.FailTimes \in Nat
  BY <1>2
<1> QED BY <1>3, <1>4, <1>5, <1>6, <1>7, Zenon

-----------------------------------------------------------------------------
(* Workers *)

\* Every job that counts by ID has an ID the counters know.
LEMMA CountingIDs == \A j \in Counting : j \in Jobs /\ ID(j) \in IDs
  BY DEF Counting, IDs, ID

\* What a worker does with a job leaves the others alone.
LEMMA WorkerLocal ==
    ASSUME JobType, NEW j \in Jobs, Worker(j)
    PROVE  /\ UNCHANGED registered
           /\ \A k \in Jobs \ {j} :
                  /\ status'[k] = status[k] /\ attempts'[k] = attempts[k]
                  /\ hpc'[k] = hpc[k] /\ attempt'[k] = attempt[k] /\ cell'[k] = cell[k]
<1>1. CASE Claim(j) \/ GiveBack(j) \/ NoHandler(j) \/ StartHandler(j)
  BY <1>1 DEF JobType, Claim, GiveBack, NoHandler, StartHandler, Lifecycle!Move, Lifecycle!Run,
     others, mainVars, handlerVars
<1>2. CASE LoadCounter(j) \/ StoreCounter(j) \/ AddFlaky(j) \/ AddAlwaysError(j)
  BY <1>2 DEF JobType, LoadCounter, StoreCounter, LoadOrStore, AddFlaky, AddAlwaysError, others,
     mainVars, jobVars
<1>3. CASE HandlerReturns(j)
  BY <1>3 DEF JobType, HandlerReturns, Lifecycle!Complete, Lifecycle!Retry, Lifecycle!Fail,
     Lifecycle!Move, others, mainVars
<1> QED BY <1>1, <1>2, <1>3 DEF Worker

\* A worker never has a job dispatched anew.
LEMMA NotNewAgain ==
    ASSUME JobType, NEW j \in Jobs, Worker(j)
    PROVE  \A k \in Jobs : status[k] # "new" => status'[k] # "new"
<1>1. status[j] # "new" => status'[j] # "new"
  BY DEF Worker, Claim, GiveBack, NoHandler, StartHandler, LoadCounter, StoreCounter, AddFlaky,
     AddAlwaysError, HandlerReturns, Lifecycle!Move, Lifecycle!Run, Lifecycle!Complete,
     Lifecycle!Retry, Lifecycle!Fail, JobType, jobVars
<1> QED BY <1>1, WorkerLocal

\* Workers keep the types.
LEMMA WorkerType ==
    ASSUME JobType, NEW j \in Jobs, Holds(j), Worker(j)
    PROVE  JobType'
<1>1. CASE Claim(j) \/ GiveBack(j) \/ NoHandler(j)
  BY <1>1 DEF JobType, Claim, GiveBack, NoHandler, Lifecycle!Move, Lifecycle!Statuses, handlerVars
<1>2. CASE StartHandler(j)
  BY <1>2 DEF JobType, StartHandler, Lifecycle!Move, Lifecycle!Run, Lifecycle!Statuses
<1>3. CASE LoadCounter(j)
  <2>1. ID(j) \in IDs
    BY <1>3, CountingIDs DEF Holds, LoadCounter
  <2> QED BY <1>3, <2>1 DEF JobType, LoadCounter, jobVars
<1>4. CASE StoreCounter(j)
  <2>1. ID(j) \in IDs
    BY <1>4, CountingIDs DEF Holds, StoreCounter
  <2> QED BY <1>4, <2>1 DEF JobType, StoreCounter, LoadOrStore, jobVars
<1>5. CASE AddFlaky(j)
  <2>1. ID(j) \in IDs /\ cell[j] \in Jobs
    <3>1. j \in Counting
      BY <1>5 DEF Holds, AddFlaky, Counting
    <3> QED BY <1>5, <3>1, CountingIDs DEF JobType, Holds, AddFlaky
  <2> QED BY <1>5, <2>1 DEF JobType, AddFlaky, jobVars
<1>6. CASE AddAlwaysError(j)
  BY <1>6 DEF JobType, AddAlwaysError, jobVars
<1>7. CASE HandlerReturns(j)
  BY <1>7 DEF JobType, HandlerReturns, Lifecycle!Complete, Lifecycle!Retry, Lifecycle!Fail,
     Lifecycle!Move, Lifecycle!Statuses
<1> QED BY <1>1, <1>2, <1>3, <1>4, <1>5, <1>6, <1>7 DEF Worker

\* A worker starts a job only while it has a run left, and once per claim.
LEMMA WorkerAttempted ==
    ASSUME JobType, NEW j \in Jobs, Attempted(j), Worker(j)
    PROVE  Attempted(j)'
<1>b. Budget(j)' = Budget(j) /\ Budget(j) \in Nat /\ MaxAttempts \in Nat
  BY HarnessAssumption DEF Budget
<1>t. attempts[j] \in Nat
  BY DEF JobType
<1>1. CASE Claim(j) \/ GiveBack(j) \/ NoHandler(j)
  BY <1>b, <1>t, <1>1 DEF JobType, Attempted, Waiting, Claim, GiveBack, NoHandler, Lifecycle!Move,
     handlerVars
<1>2. CASE StartHandler(j)
  <2>1. /\ status[j] = "held" /\ status'[j] = "running" /\ attempts'[j] = attempts[j] + 1
        /\ hpc'[j] # "none"
    BY <1>2 DEF JobType, StartHandler, Lifecycle!Move, Lifecycle!Run
  <2> QED BY <1>b, <1>t, <2>1 DEF Attempted, Waiting
<1>3. CASE LoadCounter(j) \/ StoreCounter(j) \/ AddFlaky(j) \/ AddAlwaysError(j)
  <2>1. hpc[j] # "none" /\ hpc'[j] # "none" /\ UNCHANGED <<status, attempts>>
    BY <1>3 DEF JobType, LoadCounter, StoreCounter, AddFlaky, AddAlwaysError, jobVars
  <2> QED BY <1>b, <1>t, <2>1 DEF Attempted
<1>4. CASE HandlerReturns(j)
  <2>1. /\ status[j] = "running" /\ UNCHANGED attempts /\ hpc'[j] = "none"
        /\ status'[j] \in {"completed", "failed"} \/ (status'[j] = "pending" /\ ~Lifecycle!LastAttempt(j))
    BY <1>4 DEF JobType, HandlerReturns, Lifecycle!Complete, Lifecycle!Retry, Lifecycle!Fail,
       Lifecycle!Move
  <2> QED BY <1>b, <1>t, <2>1 DEF Attempted, Waiting, Budget, Lifecycle!LastAttempt
<1> QED BY <1>1, <1>2, <1>3, <1>4 DEF Worker

\* What the process has dispatched is never failed for want of a handler.
LEMMA WorkerHandled ==
    ASSUME JobType, NEW j \in Jobs \ Left, Attempted(j), Handled(j), Worker(j)
    PROVE  Handled(j)'
<1>b. Budget(j)' = Budget(j) /\ Budget(j) \in Nat /\ MaxAttempts \in Nat /\ attempts[j] \in Nat
  BY HarnessAssumption DEF Budget, JobType
<1>r. UNCHANGED registered
  BY WorkerLocal
<1>1. CASE NoHandler(j)
  <2>1. AllRegistered /\ ~Registered(j.job.Name)
    BY <1>1 DEF NoHandler, Lifecycle!Move, Handled
  <2> QED BY <2>1, ProcessJobs DEF AllRegistered, Registered
<1>2. CASE Claim(j) \/ GiveBack(j)
  BY <1>b, <1>r, <1>2 DEF JobType, Handled, AllRegistered, Claim, GiveBack, Lifecycle!Move
<1>3. CASE StartHandler(j)
  BY <1>b, <1>r, <1>3 DEF JobType, Handled, AllRegistered, StartHandler, Lifecycle!Run, Lifecycle!Move
<1>4. CASE LoadCounter(j) \/ StoreCounter(j) \/ AddFlaky(j) \/ AddAlwaysError(j)
  BY <1>b, <1>r, <1>4 DEF Handled, AllRegistered, LoadCounter, StoreCounter, AddFlaky, AddAlwaysError,
     jobVars
<1>5. CASE HandlerReturns(j)
  <2>1. /\ status[j] = "running" /\ UNCHANGED attempts
        /\ status'[j] \in {"completed", "pending"} \/ (status'[j] = "failed" /\ Lifecycle!LastAttempt(j))
    BY <1>5 DEF JobType, HandlerReturns, Lifecycle!Complete, Lifecycle!Retry, Lifecycle!Fail,
       Lifecycle!Move
  <2>2. AllRegistered'
    BY <1>r, <2>1 DEF Handled, AllRegistered
  <2> QED BY <1>b, <2>1, <2>2 DEF Handled, Attempted, Budget, Lifecycle!LastAttempt
<1> QED BY <1>1, <1>2, <1>3, <1>4, <1>5 DEF Worker

-----------------------------------------------------------------------------
(* Counters *)

\* The counter of an ID, once there, is never replaced.
LEMMA CounterStays ==
    ASSUME JobType, NEW j \in Jobs, Holds(j), Worker(j)
    PROVE  /\ StoreCounter(j) \/ UNCHANGED flakyAttempts
           /\ \A id \in IDs : flakyAttempts[id] # None => flakyAttempts'[id] = flakyAttempts[id]
           /\ \A id \in IDs : flakyAttempts'[id] # flakyAttempts[id] =>
                  StoreCounter(j) /\ id = ID(j) /\ flakyAttempts'[id] = j
<1>1. CASE StoreCounter(j)
  <2>1. ID(j) \in IDs
    BY <1>1, CountingIDs DEF Holds, StoreCounter
  <2> QED BY <1>1, <2>1 DEF JobType, StoreCounter, LoadOrStore
<1>2. CASE UNCHANGED flakyAttempts
  BY <1>2
<1> QED BY <1>1, <1>2, Zenon DEF Worker, Claim, GiveBack, NoHandler, StartHandler, LoadCounter, AddFlaky,
    AddAlwaysError, HandlerReturns, handlerVars

\* A handler that goes on to add holds the counter of its ID.
LEMMA WorkerHolds ==
    ASSUME JobType, NEW j \in Jobs, Holds(j), Worker(j), NEW k \in Jobs, Holds(k)
    PROVE  Holds(k)'
<1>1. CASE k # j
  <2>1. hpc'[k] = hpc[k] /\ cell'[k] = cell[k]
    BY <1>1, WorkerLocal
  <2>2. k \in Counting /\ flakyAttempts[ID(k)] # None => flakyAttempts'[ID(k)] = flakyAttempts[ID(k)]
    BY CountingIDs, CounterStays
  <2> QED BY <2>1, <2>2 DEF Holds, Counting
<1>2. CASE k = j
  <2>1. CASE Claim(j) \/ GiveBack(j) \/ NoHandler(j)
    BY <1>2, <2>1 DEF Holds, Claim, GiveBack, NoHandler, handlerVars
  <2>2. CASE StartHandler(j)
    <3>1. hpc'[j] = IF ~Counts(j.job) THEN "return" ELSE IF j.job.Name \in Flaky THEN "load" ELSE "add"
      BY <2>2 DEF StartHandler, JobType
    <3> QED BY <1>2, <3>1 DEF Holds, Counting
  <2>3. CASE LoadCounter(j)
    <3>1. /\ j \in Counting /\ cell'[j] = flakyAttempts[ID(j)] /\ UNCHANGED flakyAttempts
          /\ hpc'[j] = IF flakyAttempts[ID(j)] = None THEN "store" ELSE "add"
      BY <2>3 DEF LoadCounter, JobType, Holds
    <3> QED BY <1>2, <3>1 DEF Holds, Counting
  <2>4. CASE StoreCounter(j)
    <3>1. j \in Counting /\ hpc'[j] = "add" /\ ID(j) \in IDs
      BY <2>4, CountingIDs DEF StoreCounter, JobType, Holds
    <3>2. cell'[j] = flakyAttempts'[ID(j)] /\ flakyAttempts'[ID(j)] # None
      BY <2>4, <3>1, HarnessAssumption DEF StoreCounter, LoadOrStore, JobType
    <3> QED BY <1>2, <3>1, <3>2 DEF Holds, Counting
  <2>5. CASE AddFlaky(j) \/ AddAlwaysError(j) \/ HandlerReturns(j)
    <3>1. hpc'[j] \in {"return", "none"}
      BY <2>5 DEF AddFlaky, AddAlwaysError, HandlerReturns, JobType
    <3> QED BY <1>2, <3>1 DEF Holds
  <2> QED BY <2>1, <2>2, <2>3, <2>4, <2>5 DEF Worker
<1> QED BY <1>1, <1>2

\* What AddFlaky does: it adds to the counter of its ID, which is a job's.
LEMMA AddsToOwn ==
    ASSUME JobType, NEW j \in Jobs, Holds(j), AddFlaky(j)
    PROVE  /\ j \in Counting /\ ID(j) \in IDs
           /\ flakyAttempts[ID(j)] \in Jobs
           /\ count' = [count EXCEPT ![flakyAttempts[ID(j)]] = count[flakyAttempts[ID(j)]] + 1]
           /\ attempt'[j] = count[flakyAttempts[ID(j)]] + 1
           /\ added' = [added EXCEPT ![ID(j)] = added[ID(j)] + 1]
           /\ hpc[j] = "add" /\ hpc'[j] = "return"
           /\ UNCHANGED <<status, attempts, flakyAttempts, AlwaysErrorAttempts>>
<1>1. j \in Counting
  BY DEF AddFlaky, Holds, Counting
<1>2. ID(j) \in IDs
  BY <1>1, CountingIDs
<1>3. cell[j] = flakyAttempts[ID(j)] /\ flakyAttempts[ID(j)] \in Jobs
  BY <1>2 DEF AddFlaky, Holds, JobType
<1> QED BY <1>1, <1>2, <1>3 DEF AddFlaky, JobType, jobVars

\* A step that leaves the counters of the IDs as they are.
LEMMA CountKept ==
    ASSUME NEW j, Worker(j) PROVE AddFlaky(j) \/ UNCHANGED <<count, added>>
  BY Zenon DEF Worker, Claim, GiveBack, NoHandler, StartHandler, LoadCounter, StoreCounter,
     AddAlwaysError, HandlerReturns, handlerVars

\* A counter in the map is that of a job with the ID; the others are unused.
LEMMA WorkerCounters ==
    ASSUME JobType, Counters, NEW j \in Jobs, Attempted(j), Holds(j), Worker(j)
    PROVE  Counters'
<1>1. \A k \in Jobs : status[k] # "new" => status'[k] # "new"
  BY NotNewAgain
<1>2. ASSUME NEW id \in IDs, flakyAttempts'[id] # None
      PROVE  LET m == flakyAttempts'[id] IN m \in Counting /\ ID(m) = id /\ status'[m] # "new"
  <2>1. CASE flakyAttempts'[id] = flakyAttempts[id]
    <3>1. flakyAttempts[id] \in Counting /\ ID(flakyAttempts[id]) = id /\ status[flakyAttempts[id]] # "new"
      BY <1>2, <2>1 DEF Counters
    <3> QED BY <1>1, <2>1, <3>1, CountingIDs
  <2>2. CASE flakyAttempts'[id] # flakyAttempts[id]
    <3>1. StoreCounter(j) /\ id = ID(j) /\ flakyAttempts'[id] = j
      BY <2>2, CounterStays
    <3>2. j \in Counting /\ status[j] = "running"
      BY <3>1 DEF StoreCounter, Holds, Attempted
    <3> QED BY <1>1, <3>1, <3>2
  <2> QED BY <2>1, <2>2
<1>3. ASSUME NEW m \in Jobs, count'[m] # 0 PROVE \E id \in IDs : flakyAttempts'[id] = m
  <2>1. CASE count[m] # 0
    <3>1. PICK id \in IDs : flakyAttempts[id] = m
      BY <2>1 DEF Counters
    <3>2. flakyAttempts[id] # None
      BY <3>1, HarnessAssumption
    <3> QED BY <3>1, <3>2, CounterStays
  <2>2. CASE count[m] = 0
    <3>1. AddFlaky(j)
      BY <1>3, <2>2, CountKept
    <3>2. ID(j) \in IDs /\ flakyAttempts[ID(j)] = m /\ UNCHANGED flakyAttempts
      BY <1>3, <2>2, <3>1, AddsToOwn DEF JobType
    <3> QED BY <3>2
  <2> QED BY <2>1, <2>2
<1> QED BY <1>2, <1>3, Zenon DEF Counters

\* A counter that no other job shares belongs to its job.
LEMMA OwnCounter ==
    ASSUME Counters, NEW j \in Jobs, Single(j), NEW k \in Counting, status[k] # "new",
           flakyAttempts[ID(k)] # None, flakyAttempts[ID(k)] = j \/ k = j
    PROVE  k = j /\ flakyAttempts[ID(j)] = j
<1> DEFINE m == flakyAttempts[ID(k)]
<1>1. ID(k) \in IDs /\ k \in Jobs
  BY CountingIDs
<1>2. m \in Counting /\ ID(m) = ID(k) /\ status[m] # "new" /\ m \in Jobs
  BY <1>1, CountingIDs DEF Counters
<1>3. \A i \in Jobs \ {j} : i \in Counting /\ status[i] # "new" => ID(i) # ID(j)
  BY DEF Single, Shared, Counting
<1>4. CASE k = j
  <2>1. m = j
    BY <1>2, <1>3, <1>4
  <2> QED BY <1>4, <2>1
<1>5. CASE m = j
  <2>1. k = j
    BY <1>1, <1>2, <1>3, <1>5
  <2> QED BY <1>5, <2>1
<1> QED BY <1>4, <1>5

\* What a claim, a start, a lookup, an increment and a return do to the counter
\* and the runs of such a job.
LEMMA TrackedSteps ==
    ASSUME NEW c \in Nat, NEW h, NEW a, NEW runs \in Nat, NEW st, NEW f \in Nat
    PROVE  /\ Tracked(c, h, a, runs, st, f) /\ st \in Waiting =>
                  \A next_st \in {"pending", "held"} : Tracked(c, h, a, runs, next_st, f)
           /\ Tracked(c, "none", a, runs, "held", f) => Tracked(c, "load", a, runs + 1, "running", f)
           /\ Tracked(c, h, a, runs, st, f) /\ h \in {"load", "store"} =>
                  \A next_h \in {"store", "add"} : Tracked(c, next_h, a, runs, st, f)
           /\ Tracked(c, "add", a, runs, st, f) => Tracked(c + 1, "return", c + 1, runs, st, f)
  BY DEF Tracked, Waiting

\* A return ends or retries the job, as the number of its failures demands.
LEMMA TrackedReturns ==
    ASSUME NEW c \in Nat, NEW a, NEW runs \in Nat, NEW f \in Nat,
           Tracked(c, "return", a, runs, "running", f)
    PROVE  /\ a = runs
           /\ runs <= f => Tracked(c, "none", 0, runs, "pending", f)
           /\ runs <= f /\ runs > MaxAttempts => Tracked(c, "none", 0, runs, "failed", f)
           /\ ~(runs <= f) => Tracked(c, "none", 0, runs, "completed", f)
  BY HarnessAssumption DEF Tracked, Waiting

\* A fail-then-succeed job with a counter of its own when its handler returns.
LEMMA ReturnFollowed ==
    ASSUME JobType, NEW j \in Jobs \ Left, j.job.Name = "flaky-fail-then-succeed", Attempted(j),
           HandlerReturns(j), Followed(j)
    PROVE  Followed(j)'
<1> DEFINE f == j.job.Payload.FailTimes
<1>t. attempts[j] \in Nat /\ count[j] \in Nat /\ f \in Nat /\ j \in RetryJobs
  BY FailsThenSucceeds DEF JobType
<1>1. /\ hpc[j] = "return" /\ hpc'[j] = "none" /\ attempt'[j] = 0 /\ count' = count
      /\ \E r \in Results(j.job, attempt[j]) :
             IF r = "ok" THEN Lifecycle!Complete(j) ELSE Lifecycle!Retry(j) \/ Lifecycle!Fail(j)
  BY DEF HandlerReturns, JobType
<1>2. attempts' = attempts
  BY <1>1, Zenon DEF Lifecycle!Complete, Lifecycle!Retry, Lifecycle!Fail
<1>3. status[j] = "running"
  BY <1>1, Zenon DEF Attempted
<1>4. Tracked(count[j], "return", attempt[j], attempts[j], "running", f)
  BY <1>1, <1>3, Zenon DEF Followed
<1>5. /\ attempt[j] = attempts[j]
      /\ attempts[j] <= f => Tracked(count[j], "none", 0, attempts[j], "pending", f)
      /\ attempts[j] <= f /\ attempts[j] > MaxAttempts =>
             Tracked(count[j], "none", 0, attempts[j], "failed", f)
      /\ ~(attempts[j] <= f) => Tracked(count[j], "none", 0, attempts[j], "completed", f)
  BY <1>t, <1>4, TrackedReturns
<1>6. Tracked(count[j], "none", 0, attempts[j], status'[j], f) => Followed(j)'
  BY <1>1, <1>2, Zenon DEF Followed
<1>7. CASE attempts[j] <= f
  <2>1. Results(j.job, attempt[j]) = {"error"}
    BY <1>5, <1>7, FailsThenSucceeds, Zenon
  <2>2. Lifecycle!Retry(j) \/ Lifecycle!Fail(j)
    BY <1>1, <2>1
  <2>3. status'[j] = "pending" \/ (status'[j] = "failed" /\ attempts[j] > MaxAttempts)
    BY <1>t, <2>2 DEF Lifecycle!Retry, Lifecycle!Fail, Lifecycle!LastAttempt, Lifecycle!Move, JobType
  <2> QED BY <1>5, <1>6, <1>7, <2>3, Zenon
<1>8. CASE ~(attempts[j] <= f)
  <2>1. Results(j.job, attempt[j]) = {"ok"}
    BY <1>5, <1>8, FailsThenSucceeds, Zenon
  <2>2. status'[j] = "completed"
    BY <1>1, <2>1 DEF Lifecycle!Complete, Lifecycle!Move, JobType
  <2> QED BY <1>5, <1>6, <1>8, <2>2, Zenon
<1> QED BY <1>7, <1>8

\* And at every other step of a worker that has it.
LEMMA WorkerFollowed ==
    ASSUME JobType, Counters, NEW j \in Jobs, Attempted(j), Holds(j), Worker(j),
           Single(j), Handled(j), Followed(j)
    PROVE  Followed(j)'
<1> DEFINE f == j.job.Payload.FailTimes
           T(c, h, a, runs, st) == Tracked(c, h, a, runs, st, f)
<1>t. /\ attempts[j] \in Nat /\ count[j] \in Nat /\ f \in Nat
      /\ Counts(j.job) /\ j.job.Name \in Flaky /\ j \in Counting
  <2>1. j \in Jobs \ Left /\ j.job.Name = "flaky-fail-then-succeed"
    BY DEF Single
  <2> QED BY <2>1, FailsThenSucceeds DEF JobType, Counting
<1>f. /\ T(count[j], hpc[j], attempt[j], attempts[j], status[j])
      /\ T(count'[j], hpc'[j], attempt'[j], attempts'[j], status'[j]) => Followed(j)'
  BY Zenon DEF Followed
<1>1. CASE Claim(j) \/ GiveBack(j)
  <2>1. /\ status[j] \in Waiting /\ status'[j] \in {"pending", "held"}
        /\ UNCHANGED <<attempts, hpc, attempt, count>>
    BY <1>1 DEF JobType, Waiting, Claim, GiveBack, Lifecycle!Move, handlerVars
  <2>2. T(count[j], hpc[j], attempt[j], attempts[j], status'[j])
    BY <1>t, <1>f, <2>1, TrackedSteps, Zenon
  <2> QED BY <1>f, <2>1, <2>2, Zenon
<1>2. CASE NoHandler(j)
  <2>1. AllRegistered /\ ~Registered(j.job.Name)
    BY <1>2 DEF NoHandler, Lifecycle!Move, Handled
  <2> QED BY <2>1, ProcessJobs DEF AllRegistered, Registered, Single
<1>3. CASE StartHandler(j)
  <2>1. /\ status[j] = "held" /\ status'[j] = "running" /\ attempts'[j] = attempts[j] + 1
        /\ hpc'[j] = "load" /\ UNCHANGED <<count, attempt>>
    BY <1>t, <1>3 DEF JobType, StartHandler, Lifecycle!Run, Lifecycle!Move
  <2>2. hpc[j] = "none"
    BY <2>1, Zenon DEF Attempted
  <2>3. T(count[j], "load", attempt[j], attempts[j] + 1, "running")
    BY <1>t, <1>f, <2>1, <2>2, TrackedSteps, Zenon
  <2> QED BY <1>f, <2>1, <2>3, Zenon
<1>4. CASE LoadCounter(j) \/ StoreCounter(j)
  <2>1. /\ hpc[j] \in {"load", "store"} /\ hpc'[j] \in {"store", "add"}
        /\ UNCHANGED <<status, attempts, attempt, count>>
    BY <1>4 DEF JobType, LoadCounter, StoreCounter, jobVars
  <2>2. T(count[j], hpc'[j], attempt[j], attempts[j], status[j])
    BY <1>t, <1>f, <2>1, TrackedSteps, Zenon
  <2> QED BY <1>f, <2>1, <2>2, Zenon
<1>5. CASE AddFlaky(j)
  <2>1. status[j] # "new" /\ flakyAttempts[ID(j)] # None
    BY <1>t, <1>5 DEF AddFlaky, Attempted, Holds
  <2>2. flakyAttempts[ID(j)] = j
    BY <1>t, <2>1, OwnCounter, Zenon
  <2>3. /\ hpc[j] = "add" /\ hpc'[j] = "return" /\ UNCHANGED <<status, attempts>>
        /\ attempt'[j] = count[j] + 1 /\ count' = [count EXCEPT ![j] = count[j] + 1]
    BY <1>5, <2>2, AddsToOwn
  <2>4. count'[j] = count[j] + 1
    BY <2>3 DEF JobType
  <2>5. T(count[j] + 1, "return", count[j] + 1, attempts[j], status[j])
    BY <1>t, <1>f, <2>3, TrackedSteps, Zenon
  <2> QED BY <1>f, <2>3, <2>4, <2>5, Zenon
<1>6. CASE AddAlwaysError(j)
  BY <1>t, <1>6 DEF AddAlwaysError
<1>7. CASE HandlerReturns(j)
  BY <1>7, ReturnFollowed DEF Single
<1> QED BY <1>1, <1>2, <1>3, <1>4, <1>5, <1>6, <1>7 DEF Worker

\* Another job's worker does not touch the counter either.
LEMMA OthersFollowed ==
    ASSUME JobType, Counters, NEW j \in Jobs, Attempted(j), Holds(j), Worker(j),
           NEW k \in Jobs, k # j, Single(k), Followed(k)
    PROVE  Followed(k)'
<1>1. /\ status'[k] = status[k] /\ attempts'[k] = attempts[k]
      /\ hpc'[k] = hpc[k] /\ attempt'[k] = attempt[k]
  BY WorkerLocal
<1>2. count'[k] = count[k]
  <2>1. CASE UNCHANGED count
    BY <2>1
  <2>2. CASE AddFlaky(j)
    <3>1. j \in Counting /\ flakyAttempts[ID(j)] \in Jobs /\ status[j] # "new"
      BY <2>2, AddsToOwn DEF Attempted
    <3>2. flakyAttempts[ID(j)] # k
      <4>1. flakyAttempts[ID(j)] # None
        BY <3>1, HarnessAssumption
      <4> QED BY <3>1, <4>1, OwnCounter
    <3> QED BY <2>2, <3>2, AddsToOwn DEF JobType
  <2> QED BY <2>1, <2>2, CountKept
<1> QED BY <1>1, <1>2, Zenon DEF Followed

-----------------------------------------------------------------------------
(* The invariant holds *)

\* No job is new again, so one that shares its counter goes on sharing it.
LEMMA StillSingle ==
    ASSUME \A k \in Jobs : status[k] # "new" => status'[k] # "new", NEW j \in Jobs, Single(j)'
    PROVE  Single(j)
  BY DEF Single, Shared

\* A worker's step.
LEMMA WorkerInv == ASSUME JInv, NEW j \in Jobs, Worker(j), Registrations' PROVE JInv'
<1>1. JobType /\ Counters /\ Attempted(j) /\ Holds(j)
  BY DEF JInv
<1>2. JobType' /\ Counters'
  BY <1>1, WorkerType, WorkerCounters
<1>3. ASSUME NEW k \in Jobs PROVE Attempted(k)' /\ Holds(k)'
  <2>1. Attempted(k) /\ Holds(k)
    BY DEF JInv
  <2>2. Holds(k)'
    BY <1>1, <2>1, WorkerHolds
  <2>3. CASE k = j
    BY <1>1, <2>2, <2>3, WorkerAttempted
  <2>4. CASE k # j
    <3>1. status'[k] = status[k] /\ attempts'[k] = attempts[k] /\ hpc'[k] = hpc[k]
      BY <1>1, <2>4, WorkerLocal
    <3> QED BY <2>1, <2>2, <3>1 DEF Attempted, Budget
  <2> QED BY <2>3, <2>4
<1>4. ASSUME NEW k \in Jobs \ Left PROVE Handled(k)'
  <2>1. Handled(k)
    BY DEF JInv
  <2>2. CASE k = j
    BY <1>1, <2>1, <2>2, WorkerHandled
  <2>3. CASE k # j
    <3>1. status'[k] = status[k] /\ attempts'[k] = attempts[k] /\ UNCHANGED registered
      BY <1>1, <2>3, WorkerLocal
    <3> QED BY <2>1, <3>1 DEF Handled, AllRegistered, Budget
  <2> QED BY <2>2, <2>3
<1>5. ASSUME NEW k \in Jobs, Single(k)' PROVE Followed(k)'
  <2>1. \A i \in Jobs : status[i] # "new" => status'[i] # "new"
    BY <1>1, NotNewAgain
  <2>2. Single(k) /\ Followed(k)
    BY <1>5, <2>1, StillSingle DEF JInv
  <2>3. CASE k = j
    <3>1. Handled(j)
      BY <2>2, <2>3 DEF JInv, Single
    <3> QED BY <1>1, <2>2, <2>3, <3>1, WorkerFollowed
  <2>4. CASE k # j
    BY <1>1, <2>2, <2>4, OthersFollowed
  <2> QED BY <2>3, <2>4
<1> QED BY <1>2, <1>3, <1>4, <1>5 DEF JInv

\* A Dispatch: the job waits with no run used, and handlers are registered.
LEMMA DispatchInv == ASSUME JInv, Dispatches, Registrations', AllRegistered => AllRegistered' PROVE JInv'
<1>1. PICK j : j \notin Left /\ \E name : Stored(j, name)
  BY DEF Dispatches
<1>2. /\ status[j] = "new" /\ status' = [status EXCEPT ![j] = "pending"] /\ UNCHANGED attempts
      /\ UNCHANGED <<hpc, attempt, cell, flakyAttempts, count, added, AlwaysErrorAttempts>>
  BY <1>1, Zenon DEF Stored, Lifecycle!Move, Dispatches, handlerVars
<1>3. \A k \in Jobs : status'[k] = IF k = j THEN "pending" ELSE status[k]
  BY <1>2 DEF JInv, JobType
<1>4. JobType'
  BY <1>2, Zenon DEF JInv, JobType, Lifecycle!Statuses
<1>5. Counters'
  BY <1>2, <1>3, CountingIDs DEF JInv, Counters
<1>6. ASSUME NEW k \in Jobs PROVE Attempted(k)' /\ Holds(k)'
  <2>1. Attempted(k) /\ Holds(k)
    BY DEF JInv
  <2>2. Holds(k)'
    BY <1>2, <2>1 DEF Holds
  <2>3. Attempted(k)'
    BY <1>2, <1>3, <2>1 DEF Attempted, Waiting, Budget
  <2> QED BY <2>2, <2>3
<1>7. ASSUME NEW k \in Jobs \ Left PROVE Handled(k)'
  <2>1. Handled(k) /\ (mpc \in Calls => AllRegistered) /\ mpc \in Calls
    BY DEF JInv, Registrations, Dispatches
  <2> QED BY <1>2, <1>3, <2>1 DEF Handled, Budget
<1>8. ASSUME NEW k \in Jobs, Single(k)' PROVE Followed(k)'
  <2>1. Single(k) /\ Followed(k)
    BY <1>3, <1>8, StillSingle DEF JInv
  <2>2. CASE k # j
    BY <1>2, <1>3, <2>1, <2>2, Zenon DEF Followed
  <2>3. CASE k = j
    <3>1. /\ attempts[k] \in Nat /\ count[k] \in Nat /\ k.job.Payload.FailTimes \in Nat
          /\ status[k] \in Waiting /\ status'[k] = "pending"
      BY <1>2, <1>3, <2>1, <2>3, FailsThenSucceeds DEF JInv, JobType, Single, Waiting
    <3>2. Tracked(count[k], hpc[k], attempt[k], attempts[k], "pending", k.job.Payload.FailTimes)
      BY <2>1, <3>1, TrackedSteps, Zenon DEF Followed
    <3> QED BY <1>2, <3>1, <3>2, Zenon DEF Followed
  <2> QED BY <2>2, <2>3
<1> QED BY <1>4, <1>5, <1>6, <1>7, <1>8 DEF JInv

\* Any other step.
LEMMA IdleInv ==
    ASSUME JInv, UNCHANGED <<jobVars, handlerVars>>, Registrations', AllRegistered => AllRegistered'
    PROVE  JInv'
<1>1. UNCHANGED <<status, attempts, hpc, attempt, cell, flakyAttempts, count, added, AlwaysErrorAttempts>>
  BY DEF jobVars, handlerVars
<1>2. JobType' /\ Counters'
  BY <1>1 DEF JInv, JobType, Counters
<1>3. ASSUME NEW k \in Jobs PROVE Attempted(k)' /\ Holds(k)' /\ (Single(k)' => Single(k))
  BY <1>1, StillSingle DEF JInv, Attempted, Holds, Budget
<1>4. ASSUME NEW k \in Jobs \ Left PROVE Handled(k)'
  BY <1>1 DEF JInv, Handled, Budget
<1>5. ASSUME NEW k \in Jobs, Followed(k) PROVE Followed(k)'
  BY <1>1, <1>5 DEF Followed
<1> QED BY <1>2, <1>3, <1>4, <1>5 DEF JInv

\* Only RegisterAll registers, and main calls nothing else before it is done.
LEMMA RegistrationsStep ==
    ASSUME Registrations, [Next]_vars
    PROVE  Registrations' /\ (AllRegistered => AllRegistered')
<1>l. Len(HandlerNames) \in Nat
  BY SeedNames
<1>1. CASE RegisterAll
  <2>1. /\ registered' = registered + 1 /\ ~AllRegistered
        /\ mpc' = IF registered + 1 = Len(HandlerNames) THEN "sleep" ELSE "register"
    BY <1>1 DEF RegisterAll, Main
  <2>2. registered' \in 0 .. Len(HandlerNames)
    BY <1>l, <2>1 DEF Registrations, AllRegistered
  <2> QED BY <2>1, <2>2 DEF Registrations, AllRegistered, Calls, Loop, After
<1>2. CASE UNCHANGED registered /\ (mpc' \in Calls => mpc \in Calls)
  BY <1>2 DEF Registrations, AllRegistered
<1>3. CASE UNCHANGED <<mainVars>>
  BY <1>2, <1>3 DEF mainVars
<1>4. ASSUME MainStep, ~RegisterAll PROVE UNCHANGED registered /\ (mpc' \in Calls => mpc \in Calls)
  BY <1>4 DEF MainStep, Bootstrap, StartRpc, LookupQueueService, LongSleep, SeedAll, StressBegins,
     StressAdd, StressAcquire, StressWaited, StressReturn, Main, Calls, Loop, After
<1>5. CASE Fatal \/ Exit \/ Signal
  BY <1>2, <1>5 DEF Fatal, Exit, Signal, Calls, Loop, After
<1>6. ASSUME NEW i, StressStep(i) PROVE UNCHANGED mainVars
  BY <1>6, Zenon DEF StressStep, StressBody, StressReleases, StressDone
<1>7. ASSUME NEW j, NEW name, Worker(j) \/ ClientDispatch(j, name) PROVE UNCHANGED mainVars
  BY <1>7, Zenon DEF Worker, ClientDispatch, Claim, GiveBack, NoHandler, StartHandler, LoadCounter,
     StoreCounter, AddFlaky, AddAlwaysError, HandlerReturns, others
<1>8. SamplerEnds \/ UNCHANGED vars => UNCHANGED mainVars
  BY Zenon DEF SamplerEnds, vars
<1> QED BY <1>1, <1>2, <1>3, <1>4, <1>5, <1>6, <1>7, <1>8 DEF Next

\* The invariant holds at the start and at every step.
LEMMA JobsInvariant == Spec => []JInv
<1>1. Init => JInv
  <2> SUFFICES ASSUME Init PROVE JInv
    OBVIOUS
  <2>1. /\ status = [j \in Jobs |-> IF j \in Left /\ flags.left THEN "pending" ELSE "new"]
        /\ attempts = [j \in Jobs |-> 0] /\ mpc = "boot" /\ registered = 0
        /\ hpc = [j \in Jobs |-> "none"] /\ attempt = [j \in Jobs |-> 0]
        /\ cell = [j \in Jobs |-> None] /\ flakyAttempts = [id \in IDs |-> None]
        /\ count = [j \in Jobs |-> 0] /\ added = [id \in IDs |-> 0] /\ AlwaysErrorAttempts = 0
    BY DEF Init
  <2>2. Registrations
    BY <2>1, SeedNames DEF Registrations, Calls, Loop, After
  <2>3. JobType
    BY <2>1 DEF JobType, Lifecycle!Statuses
  <2>4. Counters
    BY <2>1 DEF Counters
  <2>5. \A j \in Jobs : Attempted(j) /\ Holds(j)
    BY <2>1, HarnessAssumption DEF Attempted, Holds, Budget
  <2>6. \A j \in Jobs \ Left : Handled(j)
    BY <2>1 DEF Handled
  <2>7. ASSUME NEW j \in Jobs, Single(j) PROVE Followed(j)
    <3>1. j.job.Payload.FailTimes \in Nat /\ j \notin Left
      BY <2>7, FailsThenSucceeds DEF Single
    <3>2. Tracked(0, "none", 0, 0, "new", j.job.Payload.FailTimes)
      BY <3>1 DEF Tracked
    <3> QED BY <2>1, <3>1, <3>2 DEF Followed
  <2> QED BY <2>2, <2>3, <2>4, <2>5, <2>6, <2>7 DEF JInv
<1>2. SInv /\ JInv /\ [Next]_vars => JInv'
  <2> SUFFICES ASSUME SInv, JInv, [Next]_vars PROVE JInv'
    OBVIOUS
  <2>1. Registrations' /\ (AllRegistered => AllRegistered')
    BY RegistrationsStep DEF JInv
  <2>2. CASE UNCHANGED <<jobVars, handlerVars>>
    BY <2>1, <2>2, IdleInv
  <2>3. CASE Dispatches
    BY <2>1, <2>3, DispatchInv
  <2>4. ASSUME NEW j \in Jobs, Worker(j) PROVE JInv'
    BY <2>1, <2>4, WorkerInv
  <2> QED BY <2>2, <2>3, <2>4, StepKinds
<1> QED BY <1>1, <1>2, StressInvariant, PTL DEF Spec

\* A job of the process ends as its handler decides: it fails only after one
\* run or all its retries, never for want of a handler, and a fail-then-succeed
\* job with a counter of its own completes right after its failures, for every
\* MaxAttempts, and fails only if MaxAttempts is too small.
THEOREM JobsEndAsHandled == Spec => []BenchOutcomes
<1>1. JInv => BenchOutcomes
  <2> SUFFICES ASSUME JInv, NEW j \in Jobs \ Left
               PROVE  /\ status[j] = "failed" =>
                             attempts[j] = (IF j.job.Retry THEN MaxAttempts + 1 ELSE 1)
                      /\ j.job.Name = "flaky-fail-then-succeed" /\ ~Shared(j) =>
                             /\ status[j] = "completed" => attempts[j] = j.job.Payload.FailTimes + 1
                             /\ status[j] = "failed" => j.job.Payload.FailTimes > MaxAttempts
    BY Zenon DEF BenchOutcomes
  <2>1. Handled(j) /\ (Single(j) => Followed(j))
    BY DEF JInv
  <2>2. status[j] = "failed" => attempts[j] = (IF j.job.Retry THEN MaxAttempts + 1 ELSE 1)
    BY <2>1 DEF Handled, Budget, RetryJobs
  <2>3. j.job.Name = "flaky-fail-then-succeed" /\ ~Shared(j) => Followed(j)
    BY <2>1 DEF Single
  <2> QED BY <2>2, <2>3, Zenon DEF Followed, Tracked
<1> QED BY <1>1, JobsInvariant, PTL

-----------------------------------------------------------------------------
(* What the counters count *)

\* The jobs of fail-error that count, and the last run of such a job that has.
ErrorJobs == {j \in Jobs : j.job.Name = "fail-error" /\ Counts(j.job)}
Passed(j) == IF hpc[j] = "add" THEN attempts[j] - 1 ELSE attempts[j]

\* The runs are finitely many.
LEMMA RunsFinite == IsFiniteSet(AlwaysErrorRuns) /\ Cardinality(AlwaysErrorRuns) \in Nat
<1>1. IsFiniteSet(ErrorJobs)
  BY JobsFinite DEF ErrorJobs
<1>2. IsFiniteSet(1 .. MaxAttempts + 1)
  BY FS_Interval, HarnessAssumption
<1>3. IsFiniteSet(ErrorJobs \X (1 .. MaxAttempts + 1))
  BY <1>1, <1>2, FS_Product, Zenon
<1>4. AlwaysErrorRuns \subseteq ErrorJobs \X (1 .. MaxAttempts + 1)
  BY DEF AlwaysErrorRuns, ErrorJobs
<1>5. IsFiniteSet(AlwaysErrorRuns)
  BY <1>3, <1>4, FS_Subset
<1> QED BY <1>5, FS_CardinalityType

\* They are the pairs of such a job and a number up to its last.
LEMMA RunsArePairs ==
    \A r : r \in AlwaysErrorRuns <=>
             r \in ErrorJobs \X (1 .. MaxAttempts + 1) /\ r[2] <= Passed(r[1])
  BY DEF AlwaysErrorRuns, ErrorJobs, Passed

\* Only AddAlwaysError adds a run, the current one of its job, and counts it.
LEMMA RunsStep ==
    ASSUME JInv, AlwaysErrorAttempts = Cardinality(AlwaysErrorRuns),
           UNCHANGED <<jobVars, handlerVars>> \/ Dispatches \/ \E j \in Jobs : Worker(j)
    PROVE  AlwaysErrorAttempts' = Cardinality(AlwaysErrorRuns')
<1>t. JobType
  BY DEF JInv
<1>s. ASSUME UNCHANGED AlwaysErrorAttempts, \A j \in ErrorJobs : Passed(j)' = Passed(j)
      PROVE  AlwaysErrorAttempts' = Cardinality(AlwaysErrorRuns')
  <2>1. AlwaysErrorRuns' = AlwaysErrorRuns
    BY <1>s DEF AlwaysErrorRuns, ErrorJobs, Passed
  <2> QED BY <1>s, <2>1
<1>1. CASE UNCHANGED <<jobVars, handlerVars>> \/ Dispatches
  BY <1>s, <1>1 DEF Passed, jobVars, handlerVars, Dispatches, Stored
<1>2. ASSUME NEW j \in Jobs, Worker(j) PROVE AlwaysErrorAttempts' = Cardinality(AlwaysErrorRuns')
  <2>a. /\ Attempted(j) /\ Holds(j) /\ attempts[j] \in Nat /\ MaxAttempts \in Nat
        /\ Budget(j) \in Nat /\ Budget(j) <= MaxAttempts
    BY HarnessAssumption DEF JInv, JobType, Budget
  <2>o. \A k \in Jobs \ {j} : Passed(k)' = Passed(k)
    BY <1>t, <1>2, WorkerLocal, Zenon DEF Passed
  <2>1. CASE AddAlwaysError(j)
    <3>1. /\ hpc[j] = "add" /\ hpc'[j] = "return" /\ UNCHANGED <<status, attempts>>
          /\ AlwaysErrorAttempts' = AlwaysErrorAttempts + 1
      BY <1>t, <2>1 DEF AddAlwaysError, JobType, jobVars
    <3>2. j \in ErrorJobs
      <4>1. Counts(j.job) /\ j.job.Name \notin Flaky
        BY <2>a, <2>1, <3>1 DEF Holds, AddAlwaysError
      <4>2. j.job.Name = "fail-error"
        BY <4>1, Zenon DEF Counts
      <4> QED BY <4>1, <4>2 DEF ErrorJobs
    <3>3. attempts[j] \in 1 .. MaxAttempts + 1
      BY <2>a, <3>1 DEF Attempted
    <3>4. Passed(j) = attempts[j] - 1 /\ Passed(j)' = attempts[j]
      BY <3>1 DEF Passed
    <3>5. AlwaysErrorRuns' = AlwaysErrorRuns \cup {<<j, attempts[j]>>}
      <4>1. \A r : r \in AlwaysErrorRuns' <=>
                     r \in ErrorJobs \X (1 .. MaxAttempts + 1) /\ r[2] <= Passed(r[1])'
        BY DEF AlwaysErrorRuns, ErrorJobs, Passed
      <4>2. ASSUME NEW k \in ErrorJobs, NEW n \in 1 .. MaxAttempts + 1
            PROVE  n <= Passed(k)' <=> n <= Passed(k) \/ (k = j /\ n = attempts[j])
        BY <2>a, <2>o, <3>3, <3>4, <4>2 DEF ErrorJobs
      <4> QED BY <3>2, <3>3, <4>1, <4>2, RunsArePairs
    <3>6. <<j, attempts[j]>> \notin AlwaysErrorRuns
      BY <2>a, <3>4, RunsArePairs
    <3>7. Cardinality(AlwaysErrorRuns') = Cardinality(AlwaysErrorRuns) + 1
      <4>1. Cardinality(AlwaysErrorRuns \cup {<<j, attempts[j]>>}) = Cardinality(AlwaysErrorRuns) + 1
        <5> HIDE DEF AlwaysErrorRuns
        <5> QED BY <3>6, RunsFinite, FS_AddElement, Zenon
      <4> QED BY <3>5, <4>1, Zenon
    <3> QED BY <3>1, <3>7
  <2>2. ASSUME ~AddAlwaysError(j), j \in ErrorJobs PROVE Passed(j)' = Passed(j)
    <3>0. Counts(j.job) /\ j.job.Name \notin Flaky
      BY <2>2 DEF ErrorJobs, Flaky
    <3>1. CASE Claim(j) \/ GiveBack(j) \/ NoHandler(j)
      BY <3>1 DEF Claim, GiveBack, NoHandler, handlerVars, Passed
    <3>2. CASE StartHandler(j)
      <4>1. status[j] = "held" /\ attempts'[j] = attempts[j] + 1 /\ hpc'[j] = "add"
        BY <1>t, <3>0, <3>2 DEF StartHandler, Lifecycle!Run, Lifecycle!Move, JobType
      <4>2. hpc[j] = "none"
        BY <2>a, <4>1 DEF Attempted
      <4> QED BY <2>a, <4>1, <4>2 DEF Passed
    <3>3. CASE LoadCounter(j) \/ StoreCounter(j)
      BY <2>a, <3>0, <3>3 DEF LoadCounter, StoreCounter, Holds, Counting
    <3>4. CASE AddFlaky(j)
      BY <3>0, <3>4 DEF AddFlaky
    <3>5. CASE HandlerReturns(j)
      <4>1. UNCHANGED attempts
        BY <3>5, Zenon DEF HandlerReturns, Lifecycle!Complete, Lifecycle!Retry, Lifecycle!Fail
      <4>2. hpc[j] = "return" /\ hpc'[j] = "none"
        BY <1>t, <3>5 DEF HandlerReturns, JobType
      <4> QED BY <4>1, <4>2 DEF Passed
    <3> QED BY <1>2, <2>2, <3>1, <3>2, <3>3, <3>4, <3>5 DEF Worker
  <2>3. ~AddAlwaysError(j) => UNCHANGED AlwaysErrorAttempts
    BY <1>2, Zenon DEF Worker, Claim, GiveBack, NoHandler, StartHandler, LoadCounter, StoreCounter,
       AddFlaky, HandlerReturns, handlerVars
  <2>4. CASE ~AddAlwaysError(j)
    <3>1. \A k \in ErrorJobs : Passed(k)' = Passed(k)
      BY <2>o, <2>2, <2>4 DEF ErrorJobs
    <3> QED BY <1>s, <2>3, <2>4, <3>1
  <2> QED BY <2>1, <2>4
<1> QED BY <1>1, <1>2

\* The increments of an ID are those of its one counter.
LEMMA AddedStep ==
    ASSUME JInv, NEW id \in IDs,
           added[id] = IF flakyAttempts[id] = None THEN 0 ELSE count[flakyAttempts[id]],
           UNCHANGED <<jobVars, handlerVars>> \/ Dispatches \/ \E j \in Jobs : Worker(j)
    PROVE  added'[id] = IF flakyAttempts'[id] = None THEN 0 ELSE count'[flakyAttempts'[id]]
<1>t. JobType /\ Counters
  BY DEF JInv
<1>1. CASE UNCHANGED <<jobVars, handlerVars>> \/ Dispatches
  BY <1>1 DEF handlerVars, Dispatches
<1>2. ASSUME NEW j \in Jobs, Worker(j)
      PROVE  added'[id] = IF flakyAttempts'[id] = None THEN 0 ELSE count'[flakyAttempts'[id]]
  <2>a. Attempted(j) /\ Holds(j)
    BY DEF JInv
  <2>1. CASE AddFlaky(j)
    <3> DEFINE own == flakyAttempts[ID(j)]
    <3>0. None \notin Jobs
      BY HarnessAssumption
    <3>1. /\ ID(j) \in IDs /\ own \in Jobs /\ UNCHANGED flakyAttempts
          /\ count' = [count EXCEPT ![own] = count[own] + 1]
          /\ added' = [added EXCEPT ![ID(j)] = added[ID(j)] + 1]
      BY <1>t, <2>a, <2>1, AddsToOwn, Zenon
    <3>2. count \in [Jobs -> Nat] /\ added \in [IDs -> Nat]
      BY <1>t DEF JobType
    <3>3. \A i \in IDs : flakyAttempts[i] # None => flakyAttempts[i] \in Jobs /\ ID(flakyAttempts[i]) = i
      BY <1>t, CountingIDs DEF Counters
    <3> HIDE DEF own
    <3>4. CASE id = ID(j)
      <4>1. flakyAttempts[id] = own
        BY <3>4 DEF own
      <4>2. added'[id] = added[id] + 1 /\ count'[own] = count[own] + 1
        BY <3>1, <3>2, <3>4
      <4>3. added[id] = count[own]
        BY <3>0, <3>1, <4>1
      <4> QED BY <3>0, <3>1, <4>1, <4>2, <4>3
    <3>5. CASE id # ID(j)
      <4>1. flakyAttempts[id] # None => flakyAttempts[id] # own
        BY <3>0, <3>1, <3>3, <3>5, Zenon DEF own
      <4>2. added'[id] = added[id] /\ \A k \in Jobs \ {own} : count'[k] = count[k]
        BY <3>1, <3>2, <3>5
      <4> QED BY <3>1, <3>3, <4>1, <4>2
    <3> QED BY <3>4, <3>5
  <2>2. CASE UNCHANGED <<count, added>>
    <3>1. CASE flakyAttempts'[id] = flakyAttempts[id]
      BY <2>2, <3>1
    <3>2. CASE flakyAttempts'[id] # flakyAttempts[id]
      <4>1. StoreCounter(j) /\ id = ID(j) /\ flakyAttempts'[id] = j /\ flakyAttempts[id] = None
        BY <1>t, <1>2, <2>a, <3>2, CounterStays
      <4>2. count[j] = 0
        <5> SUFFICES ASSUME count[j] # 0 PROVE FALSE
          OBVIOUS
        <5>1. PICK i \in IDs : flakyAttempts[i] = j
          BY <1>t DEF Counters
        <5>2. i = ID(j)
          BY <1>t, <5>1, HarnessAssumption DEF Counters
        <5> QED BY <4>1, <5>1, <5>2, HarnessAssumption
      <4> QED BY <2>2, <4>1, <4>2, HarnessAssumption
    <3> QED BY <3>1, <3>2
  <2> QED BY <1>2, <2>1, <2>2, CountKept
<1> QED BY <1>1, <1>2

\* No attempt is lost and none counted twice, whichever jobs share an ID and
\* however their handlers meet at the map.
THEOREM CountersAreExact == Spec => []CountersExact
<1>1. Init => CountersExact
  <2> SUFFICES ASSUME Init PROVE CountersExact
    OBVIOUS
  <2>1. /\ attempts = [j \in Jobs |-> 0] /\ hpc = [j \in Jobs |-> "none"]
        /\ flakyAttempts = [id \in IDs |-> None] /\ added = [id \in IDs |-> 0]
        /\ AlwaysErrorAttempts = 0
    BY DEF Init
  <2>2. AlwaysErrorRuns = {}
    <3>1. \A j \in ErrorJobs : Passed(j) = 0
      BY <2>1 DEF ErrorJobs, Passed
    <3> QED BY <3>1, RunsArePairs, HarnessAssumption
  <2>3. Cardinality(AlwaysErrorRuns) = 0
    BY <2>2, FS_EmptySet
  <2> QED BY <2>1, <2>3 DEF CountersExact
<1>2. SInv /\ JInv /\ CountersExact /\ [Next]_vars => CountersExact'
  <2> SUFFICES ASSUME SInv, JInv, CountersExact, [Next]_vars PROVE CountersExact'
    OBVIOUS
  <2>1. UNCHANGED <<jobVars, handlerVars>> \/ Dispatches \/ \E j \in Jobs : Worker(j)
    BY StepKinds
  <2>2. AlwaysErrorAttempts' = Cardinality(AlwaysErrorRuns')
    BY <2>1, RunsStep DEF CountersExact
  <2>3. \A id \in IDs : added'[id] = IF flakyAttempts'[id] = None THEN 0 ELSE count'[flakyAttempts'[id]]
    BY <2>1, AddedStep DEF CountersExact
  <2> QED BY <2>2, <2>3 DEF CountersExact
<1> QED BY <1>1, <1>2, StressInvariant, JobsInvariant, PTL DEF Spec

-----------------------------------------------------------------------------
(* Types *)

\* Every variable keeps its type and its bound: no job runs more often than its
\* budget, SeedAll has no more errors than entries, and the semaphore and the
\* WaitGroup of Stress stay within its flags.
THEOREM HarnessTypeCorrect == Spec => []TypeOK
<1>1. MainType /\ Seeding /\ JInv /\ DInv => TypeOK
  <2> SUFFICES ASSUME MainType, Seeding, JInv, DInv PROVE TypeOK
    OBVIOUS
  <2>1. attempts \in [Jobs -> 0 .. MaxAttempts + 1]
    <3>1. attempts \in [Jobs -> Nat] /\ MaxAttempts \in Nat
      BY HarnessAssumption DEF JInv, JobType
    <3>2. \A j \in Jobs : Budget(j) \in Nat /\ Budget(j) <= MaxAttempts /\ attempts[j] <= Budget(j) + 1
      <4> SUFFICES ASSUME NEW j \in Jobs
                   PROVE  Budget(j) \in Nat /\ Budget(j) <= MaxAttempts /\ attempts[j] <= Budget(j) + 1
        OBVIOUS
      <4>1. Attempted(j)
        BY DEF JInv
      <4>2. Budget(j) \in Nat /\ Budget(j) <= MaxAttempts /\ attempts[j] \in Nat
        BY <3>1 DEF Budget
      <4> QED BY <4>1, <4>2 DEF Attempted
    <3>3. \A j \in Jobs : attempts[j] \in 0 .. MaxAttempts + 1
      BY <3>1, <3>2
    <3> QED BY <3>1, <3>3
  <2>2. errs \in 0 .. Cardinality(Seeded) /\ next \in Nat
    BY SeededFinite DEF Seeding
  <2>3. registered \in 0 .. Len(HandlerNames) /\ JobType
    BY DEF JInv, Registrations
  <2>4. at \in 1 .. Len(QueueChannels)
    BY DEF DInv
  <2>5. /\ mpc \in {"boot", "rpc", "lookup", "register", "sleep", "seed", "stress", "acquire",
                    "sampling", "blocked", "exited"}
        /\ gor \in [1 .. MaxStress -> {"none", "run", "release", "done", "ended"}]
    BY DEF MainType, Before, Loop, After, Started
  <2> QED BY <2>1, <2>2, <2>3, <2>4, <2>5, Zenon DEF TypeOK, MainType, JobType
<1> QED BY <1>1, MainInvariant, JobsInvariant, DepthInvariant, PTL
=============================================================================
