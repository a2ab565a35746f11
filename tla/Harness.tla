------------------------------- MODULE Harness ------------------------------
(***************************************************************************)
(* The queuebench process on the redis backend: main, the shutdown         *)
(* goroutine, RegisterAll, SeedAll and Stress, with the sample handlers    *)
(* running in the workers, and clients that dispatch to channels by name   *)
(* and ask for the Depth.  A job moves as JobLifecycle says, which         *)
(* RedisQueue implements; here a move also needs what this module knows of *)
(* keys, handlers and results.                                             *)
(***************************************************************************)
EXTENDS BenchJobs, RedisDepth, FiniteSetsExt

CONSTANTS
    MaxAttempts,
    Scenarios,     \* command lines and surroundings of the process
    Seeded,        \* bound: the entries of SeedEntries that are dispatched
    MaxStress,     \* bound on --stress-jobs
    Clients,       \* how many jobs clients dispatch
    Names,         \* the queue names clients use
    Left,          \* jobs an earlier process has left pending
    None

ModeOf(scenario) == IF scenario.mode = "" THEN "hello" ELSE scenario.mode

\* A job is identified by who dispatches it, and with which number.
Entry(from, i, job) == [from |-> from, i |-> i, job |-> job]
StressJobs == UNION {{Entry("stress", i, job) : i \in 1 .. s.stress, job \in StressJobFor(ModeOf(s))} : s \in Scenarios}
Jobs ==
    {Entry("seed", i, SeedEntries[i]) : i \in Seeded} \cup StressJobs \cup Left
      \cup {Entry("client", i, NewHelloJob) : i \in Clients} \cup {Entry("sleep", 0, NewSleepJob)}
RetryJobs == {j \in Jobs : j.job.Retry}
ASSUME HarnessAssumption ==
    /\ IsFiniteSet(Jobs)
    /\ MaxStress \in Nat
    /\ \A s \in Scenarios : s.stress \in Int /\ s.stress <= MaxStress /\ s.concurrency \in Int
    /\ \A j \in Left : j.from = "left"
    /\ \A j \in Jobs \ Left : j.job.Payload # Malformed
    /\ MaxAttempts \in Nat
    /\ Seeded \subseteq 1 .. Len(SeedEntries)
    /\ Names \subseteq Seq(STRING)
    /\ None \notin Jobs

IDs == {j.job.Payload.ID : j \in {k \in Jobs : k.job.Name \in Flaky /\ Counts(k.job)}}

VARIABLES
    attempts,                \* JobLifecycle's count of handler starts
    flags,                   \* the scenario
    mpc, spc,                \* main; the shutdown goroutine
    registered,              \* how many of HandlerNames are registered
    errs,                    \* errors SeedAll has collected
    next, gor,               \* Stress: the loop's i; the dispatching goroutines
    wg, sem, sampler,        \* its WaitGroup, semaphore and sampler
    result,                  \* StressResult
    hpc, attempt, cell,      \* each running handler: step, its n, the counter it holds
    flakyAttempts, count,    \* the sync.Map from ID to a counter, and the counters
    added,                   \* history: increments per ID
    AlwaysErrorAttempts

stressVars == <<next, gor, wg, sem, sampler, result>>
handlerVars == <<hpc, attempt, cell, flakyAttempts, count, added, AlwaysErrorAttempts>>
mainVars == <<flags, mpc, spc, registered, errs>>
jobVars == <<status, attempts, channel>>
vars == <<jobVars, mainVars, stressVars, handlerVars, depthVars>>

Lifecycle == INSTANCE JobLifecycle

Init ==
    /\ flags \in Scenarios
    /\ status = [j \in Jobs |-> IF j \in Left /\ flags.left THEN "pending" ELSE "new"]
    /\ attempts = [j \in Jobs |-> 0]
    /\ channel = [j \in Jobs |-> QueueChannelDefault]
    /\ mpc = "boot" /\ spc = "none"
    /\ registered = 0 /\ errs = 0
    /\ next = 0 /\ gor = [i \in 1 .. MaxStress |-> "none"]
    /\ wg = 0 /\ sem = 0 /\ sampler = "off"
    /\ result = [Dispatched |-> 0, DispatchErrors |-> 0, ConstructErrors |-> 0]
    /\ hpc = [j \in Jobs |-> "none"]
    /\ attempt = [j \in Jobs |-> 0]
    /\ cell = [j \in Jobs |-> None]
    /\ flakyAttempts = [id \in IDs |-> None]
    /\ count = [j \in Jobs |-> 0]
    /\ added = [id \in IDs |-> 0]
    /\ AlwaysErrorAttempts = 0
    /\ DepthInit

-----------------------------------------------------------------------------
(* Dispatch of a job whose Queue is name *)

Stored(j, name) ==
    /\ Lifecycle!Move(j, "new", "pending")
    /\ channel' = [channel EXCEPT ![j] = Route(name)]
    /\ UNCHANGED attempts

\* An HSET that is refused, or whose reply is lost after redis carried it out.
MayStore(j, name) == Stored(j, name) \/ UNCHANGED jobVars

Bench == <<"j">>   \* the Queue "job" of every sample job

-----------------------------------------------------------------------------
(* main *)

Main(step, following) ==
    /\ mpc = step
    /\ mpc' = following
    /\ UNCHANGED <<flags, spc>>

\* LoadProviders boots the queue: its workers run from here on.
Bootstrap ==
    /\ Main("boot", "rpc")
    /\ UNCHANGED <<jobVars, registered, errs, stressVars, handlerVars>>

\* LoadProviders or rpcserver.Start fails, or there is no queue service.
Fatal ==
    /\ flags.fails
    /\ mpc \in {"boot", "rpc", "lookup"}
    /\ mpc' = "exited"
    /\ UNCHANGED <<jobVars, flags, spc, registered, errs, stressVars, handlerVars>>

StartRpc ==
    /\ Main("rpc", "lookup")
    /\ UNCHANGED <<jobVars, registered, errs, stressVars, handlerVars>>

LookupQueueService ==
    /\ Main("lookup", "register")
    /\ UNCHANGED <<jobVars, registered, errs, stressVars, handlerVars>>

AllRegistered == registered = Len(HandlerNames)

\* Mutant: the jobs are dispatched while the handlers are being registered.
RegisterAllLate ==
    /\ Main("register", "sleep")
    /\ registered' = 1
    /\ UNCHANGED <<jobVars, errs, stressVars, handlerVars>>

\* One RegisterHandler after the other.
RegisterAll ==
    /\ ~AllRegistered
    /\ Main("register", IF registered + 1 = Len(HandlerNames) THEN "sleep" ELSE "register")
    /\ registered' = registered + 1
    /\ UNCHANGED <<jobVars, errs, stressVars, handlerVars>>

Following(i) == LET rest == {k \in Seeded : k > i} IN IF rest = {} THEN Len(SeedEntries) + 1 ELSE Min(rest)
FirstSeed == IF flags.seed THEN Following(0) ELSE Len(SeedEntries) + 1

LongSleep ==
    /\ Main("sleep", "seed")
    /\ next' = FirstSeed
    /\ LET j == Entry("sleep", 0, NewSleepJob) IN
           IF flags.longSleep THEN MayStore(j, Bench) ELSE UNCHANGED jobVars
    /\ UNCHANGED <<registered, errs, gor, wg, sem, sampler, result, handlerVars>>

\* An entry that cannot be built or dispatched is noted, and the next one tried.
SeedAll ==
    /\ next <= Len(SeedEntries)
    /\ Main("seed", "seed")
    /\ next' = Following(next)
    /\ LET j == Entry("seed", next, SeedEntries[next]) IN
           \/ j.job # NoJob /\ Stored(j, Bench) /\ errs' \in {errs, errs + 1}
           \/ errs' = errs + 1 /\ UNCHANGED jobVars
    /\ UNCHANGED <<registered, gor, wg, sem, sampler, result, handlerVars>>

-----------------------------------------------------------------------------
(* Stress *)

Concurrency == IF flags.concurrency <= 0 THEN 16 ELSE flags.concurrency
Mode == ModeOf(flags)

\* Stress is called for a positive count only; it starts its sampler.
StressBegins ==
    /\ next > Len(SeedEntries)
    /\ Main("seed", IF flags.stress > 0 THEN "stress" ELSE "blocked")
    /\ next' = 1
    /\ sampler' = IF flags.stress > 0 THEN "on" ELSE "off"
    /\ UNCHANGED <<jobVars, registered, errs, gor, wg, sem, result, handlerVars>>

\* wg.Add(1) and then the semaphore, on which the loop may block.
StressAdd ==
    /\ next <= flags.stress
    /\ Main("stress", "acquire")
    /\ wg' = wg + 1
    /\ UNCHANGED <<jobVars, registered, errs, next, gor, sem, sampler, result, handlerVars>>

StressAcquire ==
    /\ sem < Concurrency
    /\ Main("acquire", "stress")
    /\ sem' = sem + 1
    /\ gor' = [gor EXCEPT ![next] = "run"]
    /\ next' = next + 1
    /\ UNCHANGED <<jobVars, registered, errs, wg, sampler, result, handlerVars>>

Tally(field) == result' = [result EXCEPT ![field] = @ + 1]

\* Mutant: a dispatch that fails counts as dispatched.
StressDispatchUncounted(i) ==
    \E job \in StressJobFor(Mode) : LET j == Entry("stress", i, job) IN
        /\ Tally("Dispatched")
        /\ MayStore(j, Bench)

\* The body of the i-th goroutine, up to its deferred calls.
StressDispatch(i) ==
    \/ StressJobFor(Mode) = {} /\ Tally("ConstructErrors") /\ UNCHANGED jobVars
    \/ \E job \in StressJobFor(Mode) : LET j == Entry("stress", i, job) IN
           \/ Stored(j, Bench) /\ Tally("Dispatched")
           \/ MayStore(j, Bench) /\ Tally("DispatchErrors")

StressBody(i) ==
    /\ gor[i] = "run"
    /\ StressDispatch(i)
    /\ gor' = [gor EXCEPT ![i] = "release"]
    /\ UNCHANGED <<mainVars, next, wg, sem, sampler, handlerVars>>

\* Mutant: a job that cannot be built keeps its slot.
StressReleaseKept(i) ==
    /\ gor' = [gor EXCEPT ![i] = "done"]
    /\ IF StressJobFor(Mode) = {} THEN UNCHANGED sem ELSE sem' = sem - 1

\* The deferred calls run last in, first out: the semaphore, then wg.Done.
StressRelease(i) ==
    /\ gor' = [gor EXCEPT ![i] = "done"]
    /\ sem' = sem - 1

StressReleases(i) ==
    /\ gor[i] = "release"
    /\ StressRelease(i)
    /\ UNCHANGED <<jobVars, mainVars, next, wg, sampler, result, handlerVars>>

StressDone(i) ==
    /\ gor[i] = "done"
    /\ gor' = [gor EXCEPT ![i] = "ended"]
    /\ wg' = wg - 1
    /\ UNCHANGED <<jobVars, mainVars, next, sem, sampler, result, handlerVars>>

\* wg.Wait, the drain window, close(stopSampler).
StressWaited ==
    /\ next > flags.stress
    /\ wg = 0
    /\ Main("stress", "sampling")
    /\ sampler' = "stopping"
    /\ UNCHANGED <<jobVars, registered, errs, next, gor, wg, sem, result, handlerVars>>

SamplerEnds ==
    /\ sampler = "stopping"
    /\ sampler' = "off"
    /\ UNCHANGED <<jobVars, mainVars, next, gor, wg, sem, result, handlerVars>>

StressReturn ==
    /\ sampler = "off"
    /\ Main("sampling", "blocked")
    /\ UNCHANGED <<jobVars, registered, errs, stressVars, handlerVars>>

-----------------------------------------------------------------------------
(* Workers: what JobLifecycle leaves open *)

Running == mpc \notin {"boot", "exited"}
Registered(name) == \E i \in 1 .. registered : HandlerNames[i] = name
others == <<mainVars, stressVars>>

Claim(j) ==
    /\ Claimable(channel[j])
    /\ Lifecycle!Move(j, "pending", "held")
    /\ UNCHANGED <<attempts, channel, others, handlerVars>>

\* Only a retried job is behind its gate.
GiveBack(j) ==
    /\ attempts[j] > 0
    /\ Lifecycle!Move(j, "held", "pending")
    /\ UNCHANGED <<attempts, channel, others, handlerVars>>

\* A job nobody handles is failed for good.
NoHandler(j) ==
    /\ ~Registered(j.job.Name)
    /\ Lifecycle!Move(j, "held", "failed")
    /\ UNCHANGED <<attempts, channel, others, handlerVars>>

StartHandler(j) ==
    /\ Registered(j.job.Name)
    /\ Lifecycle!Run(j)
    /\ hpc' = [hpc EXCEPT ![j] = IF ~Counts(j.job) THEN "return"
                                ELSE IF j.job.Name \in Flaky THEN "load" ELSE "add"]
    /\ UNCHANGED <<channel, others, attempt, cell, flakyAttempts, count, added, AlwaysErrorAttempts>>

ID(j) == j.job.Payload.ID

LoadCounter(j) ==
    /\ hpc[j] = "load"
    /\ cell' = [cell EXCEPT ![j] = flakyAttempts[ID(j)]]
    /\ hpc' = [hpc EXCEPT ![j] = IF flakyAttempts[ID(j)] = None THEN "store" ELSE "add"]
    /\ UNCHANGED <<jobVars, others, attempt, flakyAttempts, count, added, AlwaysErrorAttempts>>

\* Mutant: Store, which replaces a counter stored since the Load.
LoadOrStoreBlind(j) ==
    /\ cell' = [cell EXCEPT ![j] = j]
    /\ flakyAttempts' = [flakyAttempts EXCEPT ![ID(j)] = j]

\* The counter of whoever stored first; a new one is named by its creator.
LoadOrStore(j) ==
    LET kept == IF flakyAttempts[ID(j)] = None THEN j ELSE flakyAttempts[ID(j)] IN
    /\ cell' = [cell EXCEPT ![j] = kept]
    /\ flakyAttempts' = [flakyAttempts EXCEPT ![ID(j)] = kept]

StoreCounter(j) ==
    /\ hpc[j] = "store"
    /\ LoadOrStore(j)
    /\ hpc' = [hpc EXCEPT ![j] = "add"]
    /\ UNCHANGED <<jobVars, others, attempt, count, added, AlwaysErrorAttempts>>

AddFlaky(j) ==
    /\ hpc[j] = "add"
    /\ j.job.Name \in Flaky
    /\ count' = [count EXCEPT ![cell[j]] = @ + 1]
    /\ attempt' = [attempt EXCEPT ![j] = count[cell[j]] + 1]
    /\ added' = [added EXCEPT ![ID(j)] = @ + 1]
    /\ hpc' = [hpc EXCEPT ![j] = "return"]
    /\ UNCHANGED <<jobVars, others, cell, flakyAttempts, AlwaysErrorAttempts>>

AddAlwaysError(j) ==
    /\ hpc[j] = "add"
    /\ j.job.Name \notin Flaky
    /\ AlwaysErrorAttempts' = AlwaysErrorAttempts + 1
    /\ hpc' = [hpc EXCEPT ![j] = "return"]
    /\ UNCHANGED <<jobVars, others, attempt, cell, flakyAttempts, count, added>>

HandlerReturns(j) ==
    /\ hpc[j] = "return"
    /\ \E r \in Results(j.job, attempt[j]) :
           IF r = "ok" THEN Lifecycle!Complete(j) ELSE Lifecycle!Retry(j) \/ Lifecycle!Fail(j)
    /\ hpc' = [hpc EXCEPT ![j] = "none"]
    /\ attempt' = [attempt EXCEPT ![j] = 0]
    /\ cell' = [cell EXCEPT ![j] = None]
    /\ UNCHANGED <<channel, others, flakyAttempts, count, added, AlwaysErrorAttempts>>

Worker(j) ==
    \/ Claim(j) \/ GiveBack(j) \/ NoHandler(j) \/ StartHandler(j)
    \/ LoadCounter(j) \/ StoreCounter(j) \/ AddFlaky(j) \/ AddAlwaysError(j) \/ HandlerReturns(j)

-----------------------------------------------------------------------------
(* Clients and shutdown *)

ClientDispatch(j, name) ==
    /\ flags.clients
    /\ mpc = "blocked"
    /\ j.from = "client"
    /\ Stored(j, name)
    /\ UNCHANGED <<others, handlerVars>>

\* SIGINT or SIGTERM; main and the workers go on until the process exits.
Signal ==
    /\ flags.signal
    /\ spc = "none"
    /\ spc' = "closing"
    /\ UNCHANGED <<jobVars, flags, mpc, registered, errs, stressVars, handlerVars>>

\* Close has returned: os.Exit(0), whatever main is doing.
Exit ==
    /\ spc = "closing"
    /\ mpc' = "exited"
    /\ UNCHANGED <<jobVars, flags, spc, registered, errs, stressVars, handlerVars>>

MainStep ==
    \/ Bootstrap \/ StartRpc \/ LookupQueueService \/ RegisterAll \/ LongSleep \/ SeedAll
    \/ StressBegins \/ StressAdd \/ StressAcquire \/ StressWaited \/ StressReturn

StressStep(i) == StressBody(i) \/ StressReleases(i) \/ StressDone(i)

Next ==
    \/ /\ mpc # "exited"
       /\ MainStep \/ Fatal \/ SamplerEnds \/ \E i \in 1 .. MaxStress : StressStep(i)
       /\ Overtaken
    \/ /\ Running
       /\ \/ Signal \/ Exit
          \/ \E j \in Jobs : Worker(j) \/ \E name \in Names : ClientDispatch(j, name)
       /\ Overtaken
    \/ /\ flags.clients /\ mpc = "blocked"
       /\ Depth
       /\ UNCHANGED <<attempts, mainVars, stressVars, handlerVars>>

Spec == Init /\ [][Next]_vars

\* main and the goroutines of Stress run, and a Dispatch returns.
Fairness ==
    /\ WF_vars(mpc # "exited" /\ (MainStep \/ SamplerEnds) /\ Overtaken)
    /\ \A i \in 1 .. MaxStress : WF_vars(mpc # "exited" /\ StressStep(i) /\ Overtaken)

FairSpec == Spec /\ Fairness

-----------------------------------------------------------------------------
(* Properties. *)

TypeOK ==
    /\ flags \in Scenarios
    /\ status \in [Jobs -> Lifecycle!Statuses] /\ attempts \in [Jobs -> 0 .. MaxAttempts + 1]
    /\ channel \in [Jobs -> Range(QueueChannels)]
    /\ mpc \in {"boot", "rpc", "lookup", "register", "sleep", "seed", "stress", "acquire",
               "sampling", "blocked", "exited"}
    /\ spc \in {"none", "closing"}
    /\ registered \in 0 .. Len(HandlerNames) /\ errs \in 0 .. Cardinality(Seeded)
    /\ next \in Nat /\ gor \in [1 .. MaxStress -> {"none", "run", "release", "done", "ended"}]
    /\ wg \in 0 .. flags.stress \/ wg = 0
    /\ sem \in 0 .. Concurrency /\ sampler \in {"on", "stopping", "off"}
    /\ \A f \in DOMAIN result : result[f] \in 0 .. MaxStress
    /\ hpc \in [Jobs -> {"none", "load", "store", "add", "return"}]
    /\ attempt \in [Jobs -> Nat] /\ cell \in [Jobs -> Jobs \cup {None}]
    /\ flakyAttempts \in [IDs -> Jobs \cup {None}] /\ count \in [Jobs -> Nat]
    /\ AlwaysErrorAttempts \in Nat
    /\ dpc \in {"idle", "scan", "done", "error"} /\ at \in 1 .. Len(QueueChannels)

StoredStress == Cardinality({j \in StressJobs : status[j] # "new"})

\* When Stress waits for its sampler or has returned, every one of its
\* goroutines has been counted once, none is left, and the jobs in redis are
\* those it counted as dispatched plus at most those whose Dispatch failed.
StressAccounts ==
    mpc \in {"sampling", "blocked"} /\ flags.stress > 0 =>
        /\ result.Dispatched + result.DispatchErrors + result.ConstructErrors = flags.stress
        /\ wg = 0 /\ sem = 0
        /\ result.Dispatched <= StoredStress
        /\ StoredStress <= result.Dispatched + result.DispatchErrors

\* Stress returns, for any concurrency and mode, unless the process exits: its
\* loop never waits for good for a slot, nor for a goroutine.
StressReturns == mpc = "stress" ~> mpc \in {"blocked", "exited"}

\* Another job with the same ID is or was in redis.
Shared(j) ==
    \E k \in Jobs \ {j} :
        status[k] # "new" /\ k.job.Name \in Flaky /\ Counts(k.job) /\ ID(k) = ID(j)

\* A job that this process dispatches ends as its handler decides: it never
\* fails for want of a handler, it fails after one run or after all its retries,
\* and a fail-then-succeed job that shares its counter with no other completes
\* with the first run after FailTimes failures, if MaxAttempts allows that many.
BenchOutcomes ==
    \A j \in Jobs \ Left :
        /\ status[j] = "failed" =>
               attempts[j] = (IF j.job.Retry THEN MaxAttempts + 1 ELSE 1)
        /\ j.job.Name = "flaky-fail-then-succeed" /\ ~Shared(j) =>
               /\ status[j] = "completed" => attempts[j] = j.job.Payload.FailTimes + 1
               /\ status[j] = "failed" => j.job.Payload.FailTimes > MaxAttempts

\* The runs of fail-error jobs that have counted themselves, by number.
AlwaysErrorRuns ==
    {r \in {j \in Jobs : j.job.Name = "fail-error" /\ Counts(j.job)} \X (1 .. MaxAttempts + 1) :
        r[2] <= (IF hpc[r[1]] = "add" THEN attempts[r[1]] - 1 ELSE attempts[r[1]])}

\* The counters lose no attempt, also when two jobs with the same ID create
\* theirs at once: a flaky counter has one increment per handler that passed
\* it, and AlwaysErrorAttempts one per run of such a handler.
CountersExact ==
    /\ \A id \in IDs :
           added[id] = IF flakyAttempts[id] = None THEN 0 ELSE count[flakyAttempts[id]]
    /\ AlwaysErrorAttempts = Cardinality(AlwaysErrorRuns)

\* Depth, while keys come and go between its pages: it counts every job that
\* was pending all along, and no more than were pending at some time, but for
\* the keys SCAN returned again.
DepthBounds ==
    dpc = "done" =>
        /\ Cardinality(steady) <= total
        /\ total <= Cardinality(ever) + repeats

\* A job put on a channel can be claimed from it: the scanner rebuilds the key
\* that Dispatch wrote, whatever name the client used, as long as the default
\* channel itself has no separator in it.
RoutedClaimable ==
    \A j \in Jobs :
        status[j] # "new" /\ Claimable(QueueChannelDefault) => Claimable(channel[j])
=============================================================================
