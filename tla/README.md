# A TLA+ model of adele-queue

adele-queue is a job queue for the Adele framework, written in Go, with two
backends: a channel inside one process (*memory*) and a set of redis keys shared
by any number of processes (*redis*). This directory holds TLA+ models of both,
of how queues are configured, started and closed, and of the bench harness that
drives them; the TLC configurations that check the models on small instances;
and proofs, checked by TLAPS, of the main safety properties for every instance.

`PROJECT.json` lists components, runs, findings, hazards and theorems, and
maps every definition to the source lines it models.

## The system

| part | source | state | operations | interacts with |
|---|---|---|---|---|
| redis keys | `api/redis.go`, `api/types.go` | hashes `queues:<channel>:{pending,locked,completed,failed}:<id>` | RENAME, HSET, HGETALL, DEL, EXISTS, SCAN | dispatchers, workers, reapers |
| redis worker | `api/redis.go` | a connection, a SCAN page, a copy of a job, a stack of frames | `cursorScanRedisDb`, `handleRedisJob` | keys, handler registry, `systemShutdown` |
| reaper | `api/reaper.go` | a SCAN page, a copy of a job, counters | `reapStaleLocks`, `runReaperTick`, `requeueExpiredLock` | keys, `failed_jobs` |
| memory backend | `api/queue.go`, `api/memory.go` | channel `Jobs`, `pendingCount`, failed-jobs cache, sleeping goroutines | `Dispatch`, `worker`, `runHandler`, `addFailedJob`, `addCompletedJob`, `Depth`, `Close` | handlers, tables `jobs` and `failed_jobs` |
| handler registry | `api/queue.go` | name -> plain or ctx handler | `RegisterHandler`, `RegisterHandlerCtx` | both kinds of worker |
| lifecycle | `api/queue.go` | package variables `wg`, `systemShutdown`; `lifecycleCtx` | `Listen`, `Close` | every queue of the process |
| configuration | `api/queue.go`, `templates/queue.yml` | `Configuration`, `config/queue.yml` | `setConfigDefaults`, `loadConfig`, `buildQueue` | constructors |
| service provider | `provider.go` | the configuration given, the queue built | `Configure`, `Register`, `Boot` | configuration, lifecycle |
| routing | `api/queue.go`, `api/redis.go` | `QueueChannels` | channel choice in `Dispatch`, `RedisKeyspaceFormater` | key names |
| redis `Depth` | `api/queue.go` | none | SCAN over the pending keys | keys |
| bench harness | `cmd/queuebench`, `internal/bench` | semaphore, tallies, counters of the sample handlers | `main`, `RegisterAll`, `SeedAll`, `Stress`, fifteen sample jobs | the public API |

What is hard about it: a claim is a RENAME, and everything after it (stamping
`LockedAt`, reading the job, the retry gate, running the handler, writing back,
the final RENAME) is a sequence of separate commands, between which other
workers, the reapers of all processes, crashes and errors fall. The reaper takes
decisions on a copy of the job and carries them out several commands later. A
retried job leaves its locked key behind for the reaper to remove. On the memory
backend, sleeping goroutines hold jobs that neither `Depth` nor `Close` knows of.
All queues of a process count their goroutines in one WaitGroup and share one
shutdown flag, whichever of them is closed.

## Modules

| module | models |
|---|---|
| `RedisState` | the keys, `failed_jobs`, `systemShutdown`; what each redis command does; time |
| `RedisWorker` | one worker: `cursorScanRedisDb` and `handleRedisJob` |
| `Reaper` | one reaper: `reapStaleLocks`, `runReaperTick`, `requeueExpiredLock` |
| `RedisQueue` | the redis backend composed: the two above, `Dispatch`, `RegisterHandler`, `Close`, crash and restart, failing commands, time; the properties |
| `MemoryQueue` | the memory backend and its properties |
| `JobLifecycle` | the abstract specification of a job, which both backends implement |
| `Configuration` | `Configuration`, its defaults, the template, the channels of a built queue |
| `Lifecycle` | several queues of a process: `Configure`, `Register`, seeding `queue.yml`, `Listen`, `Close`, `wg` |
| `Channels` | the channel `Dispatch` chooses, `RedisKeyspaceFormater`, the channel a scanner reads in a key |
| `RedisDepth` | `Depth` on the redis backend |
| `BenchJobs` | the fifteen sample jobs: constructors and results of the handlers |
| `Harness` | the `queuebench` process: `main`, shutdown, seeding, `Stress`, the counters of the handlers, clients; composes the three above with `JobLifecycle` |
| `RedisShapeProofs`, `RedisQueueProofs` | the redis backend: types and shape of the hashes; exclusive claims |
| `RedisCountingProofs`, `RedisLifecycleProofs` | the redis backend while no lock expires: what is counted and which gates are open; attempts, losses, outcomes, the workers' loops and the refinement |
| `MemoryQueueProofs`, `LifecycleProofs` | theorems about the modules they are named after |
| `HarnessProofs`, `HarnessJobsProofs` | the harness: `Depth`, `Stress`, routing and the types of `main`; the jobs, their counters and outcomes |
| `MCRedisQueue`, `MCMemoryQueue`, `MCLifecycle`, `MCHarness` | constants of the instances |

### The redis model

Each redis command is one step, and so is each handler call. `wpc[w]` names the
command a worker issues next:

    scan -> sleep -> next -> stamp -> read -> activate -> lookup -> run
                      ^               |                              |
                      |             gate (not due: give back)        +-> complete, completeMove
                      +----------------------------------------------+-> retry
                                                                     +-> fail, failMove, failRow

A hash is a `Job` record with the fields that some decision reads: `ID`, `Retry`,
`RetryCounter`, `LockFor`, `ReservedAt`, `LockedAt`, `RetryAfter`. A missing key
is `NoKey`; HGETALL of a missing key, or of one that a single-field HSET has
created, yields the zero job, as `ScanStruct` does. `batch` is the rest of the
SCAN page, any subset of the existing keys. `cursorScanRedisDb` calls itself at
the end of each traversal, so `return` and `break` leave one frame: `depth`
counts the frames below, and the worker ends when the outermost one returns. The
reaper's `rpc` is the same for `runReaperTick` and `requeueExpiredLock`; `rsnap`
is its copy of the job, which may be stale.

Times are relative. `ReservedAt` and `LockedAt` are ages that saturate at
`MaxAge`, beyond every timeout; `RetryAfter` is the time to go. `Tick` moves all
of them, also in the copies held by workers and reapers.

Faults, at most `MaxFaults` of the kinds in `FaultKinds`: `crash` kills a process
at any point and starts it again (its handlers are registered anew, some time
later); `refused` fails one command, and the code's error path for that command
is taken; `connection` breaks a worker's only connection, after which every frame
returns. Dispatched jobs have distinct ids (uuid), and all are on one channel.

`executions`, `heldFor` and `dispatched` are history; `executions` saturates at
`MaxExecutions`, above the largest bound any property states.

`Reapers = {}` is the system while no lock reaches its timeout, for a reaper that
finds only recent locks writes nothing. Some properties hold in that regime only
and say so; the runs that expect a counterexample show why.

### The memory model

`phase[j]` is where the single copy of a job is: `sleeping` in a detached goroutine
(scheduled, or waiting for a retry), `sending` (a client or a handler blocked in the
send), `detached` (a detached goroutine blocked in the send), `taken` by a worker, or at
an outcome: `completed`, `failed`, `dropped` (no handler). `pendingCount` is increased
and decreased in the steps of their own that the code has. A worker looks the handler up
twice (`Admit`, `Invoke`), and names are registered at any time. A handler may dispatch
a job (`Parent`) and then blocks its worker. A ctx handler of a job in `CtxWaiters`
returns only when its context has ended. `Close` has three steps: end the context, close
the channel, wait. A send on the closed channel panics: that ends the process from a
detached goroutine (`crashed`), is recovered in a handler (which then returns or fails),
and refuses the job (`refused`, still counted) from a client, which is taken to recover.
Delays are left out: a sleeper may wake at any time.

### The abstract lifecycle and the refinements

`JobLifecycle` knows of a job only its status (`new`, `pending`, `held`, `running`,
`completed`, `failed`, `dropped`) and how often its handler was started. One claim
gives at most one run; a failed run leads back to `pending` while
`attempts <= MaxAttempts` and the job is retried, and to `failed` only otherwise;
outcomes are final. The refinement mappings are `JobStatus` in `RedisQueue` and
`MemoryQueue`, with `attempts <- executions`:

- redis: a job is `completed` or `failed` if that key exists, else `pending` if
  that key exists (a retried job's locked key may still be there), else, with a
  locked key, `running` if it has run more often than its hash says it was
  retried, and `held` if not. A crash is a stutter: the locked key stays.
- memory: sleeping, sending and detached copies are `pending`; a taken job is
  `running` once its runs outnumber its counted retries and `held` before; a send
  refused by the closed channel is `dropped`.

With expired locks the redis backend does not implement it, as the runs
`doc_jobs_survive` and `doc_attempts_reaped` show.

### The lifecycle model

Each queue is registered (`ppc`), listens (`lpc`) and is closed (`closing`);
its goroutines are counted by what they do (`idle`, `busy`, `hung`, `reaper`).
`loadConfig` is a stat, a create (which leaves an empty file, parsed as the zero
configuration), a write and a read, each a step; the write is one system call for
a file of this size. Each step may fail. `Configure` overwrites the fields whose
map value has the right type. `wg` is the WaitGroup of Go's library: a `Wait` that
was woken and finds the counter above zero again panics. `waiter` is the goroutine
a redis `Close` starts for it, which stays behind after a timeout. `NilPool` is
the first use of the pool of a redis queue whose application has no redis cache.
A redis worker reads `systemShutdown` without synchronisation and may take
another page after it is set. `late` and `unedited` are history.

### The harness model

`mpc` follows `main` from `LoadProviders`, which starts the workers, through
`RegisterAll` (one handler per step), the long sleep, `SeedAll` and `Stress` to
the final block; `spc` is the shutdown goroutine, which exits the process at any
point. `Stress` has its loop, one goroutine per job with its two deferred calls,
the semaphore, the WaitGroup and the sampler. A dispatch stores the job or not,
and an error is reported in either case. A job is a record of who dispatches it,
its number and what its constructor built. Jobs move by the actions of
`JobLifecycle`, constrained by what this module adds: a job is claimed only from a
channel whose key the scanner rebuilds, run only if its handler is registered,
and ends as its handler decides. The flaky handlers look up, create and increment
their counters in separate steps; `AlwaysErrorAttempts` is one atomic counter.

A queue name is a sequence of symbols, so that `RedisKeyspaceFormater` (drop `:`
and `,`, lower the case, hyphens for spaces) and the splitting of a key at `:` are
what they are in the code. `Depth` scans channel by channel; a page holds any
pending keys of the channel, and an iteration ends only when every key that was
there all the time has been returned (`due`). This is the guarantee of SCAN
(external); keys returned again are counted in `repeats`. `steady` and `ever` are the
jobs pending throughout the call and at some time in it.

## Runs

| run | instance | shows |
|---|---|---|
| `redis_workers` | 2 jobs (one retried), 2 workers in 2 processes, 1 fault, no reaper | claims are exclusive; `RetryCounter` of a pending job is the number of its runs; no job is lost; outcomes are single and final; `JobLifecycle` is implemented, so a job runs at most `MaxAttempts + 1` times |
| `redis_reaping` | a job without `Retry`, 2 workers in 2 processes, a reaper, 1 fault | the job runs at most once and its claim stays exclusive |
| `redis_reaping_retry` | a retried job, a worker, a reaper, `LockFor` below `LockTimeout`, 1 fault | no handler gets a blank or partly written job |
| `redis_liveness` | a retried job, 2 workers, fair, `Close` allowed | the job is settled; after `Close` the workers end, and not before |
| `redis_recovery` | a job, a worker, a reaper, 1 crash, fair | a crash at any point leaves a job that the reaper brings to an end |
| `memory_queue` | 3 jobs (one retried, which dispatches another, whose handler waits for its context), 2 workers, fair, `Close` at any time | `Depth` is exact, attempts bounded, one row per job, no nil handler called, the cache bounded, jobs are settled, `Close` returns, `JobLifecycle` is implemented |
| `queue_lifecycle` | 2 queues, one configured for redis (2 workers, a lock timeout of 1) or not, the other with an unknown backend, a wrong type or a negative `HighWaterMark`; `queue.yml` absent, seeded or edited; redis cache or none; a handler that hangs; fair | a built queue is sound; seeding races are harmless; a `Close` that returns has drained every queue; the four ways the process panics, and no other; one redis `Close` stops all redis queues; `Close` ends |
| `bench_harness` | 7 command lines: seeding two entries, alone and beside a left-over job with the same counter and a failing start, clients with 57 names on 4 channels and `Depth`, stress in every mode and an unknown one, concurrency 0, 1 and 2, a signal | tallies and stored jobs agree; `Stress` returns; jobs end as their handlers decide; no counter loses an increment; `Depth` is bounded by what was pending; a routed job can be claimed |

Four runs check what a document or a comment says and the code does not do; TLC
finds a counterexample in each:

| run | the claim | the counterexample |
|---|---|---|
| `doc_jobs_survive` | "jobs survive process restarts"; "the pending copy owns the retry state" | EXISTS pending, a claim, DEL locked: the key of the live claim is deleted, the worker reads a blank job and returns; the job is gone, without any fault |
| `doc_stale_locks` | only jobs whose `LockedAt` is older than the timeout are reaped | right after the claiming RENAME the hash has no `LockedAt` (or the previous attempt's), so the age of the job counts and a lock held for no time is reaped |
| `doc_attempts_reaped` | `MaxAttempts` bounds the retries | a slow worker and the reaper both write the job from their copies; the counter goes back and the job runs again |
| `doc_memory_close` | `Close` "waits for in-flight jobs to drain" | a job fails while `Close` waits and goes to a sleeping goroutine; `Close` returns without it |

### Bounds

One or two jobs and workers suffice for the races: every hazard listed is between one
holder of a job, one rival (a worker or a reaper) and one fault. `MaxAttempts` 1 and 2
give a first run, a counted retry and the last attempt. `LockTimeout` and `MaxAge` of 1
or 2 units distinguish a recent from an expired lock and, with `LockFor` 1, the two
timeouts. `MaxDepth` 1 gives an inner and an outermost frame. `MaxCounter` bounds
`RetryCounter` where the reaper increases it, `MaxRows` the counted rows. With
`HighWaterMark` 2 the cache of the memory model is reset. Two queues give every pair of
backends sharing `wg`, and two redis workers one that hangs and one that does not. In
the harness, three stress jobs exceed a concurrency of 2, two seeded entries are one
that panics and one that fails first and then succeeds, with a counter of its own or
shared with the left-over job, names of up to two of seven symbols reach every branch of
the formatter, and `MaxRepeats` 1 lets SCAN return a key twice. Each question has a
scenario of its own, so that the product of all is not explored. The theorems hold for
every value of these constants.

### Fairness

Weak fairness of each worker, each reaper and `Tick`: goroutines are scheduled, handlers
return, time passes; and of registration, which an application does at its start. Strong
fairness of "the page of this SCAN contains j": a complete iteration of SCAN returns
every key present throughout, so a job is not left out of every page for ever; the page
is otherwise free. In the memory model also of the wake-up of a sleeper, and of a
`Close` that has begun. In `Lifecycle` weak fairness of starting goroutines, finishing
jobs (other than the hung one), the waiter, the timer and the reaper's exit, and strong
fairness of a worker's exit: one that goes on taking pages reads the flag each time and
sees it in the end. In `Harness` of `main` and of the goroutines of `Stress`; of the
workers nothing is needed. Nothing is assumed of dispatches, faults, or whether `Close`
is called. Liveness with reapers is checked with crashes only: a lost connection ends a
worker for good, and with `DispatchAt` in the future the race of `doc_jobs_survive` can
lose the job.

## Proofs

### The redis backend

`RedisShapeProofs` and `RedisQueueProofs` prove, for any sets of jobs, workers,
processes and reapers and any bounds, from the assumptions on the constants in
`RedisState`, `RedisWorker`, `Reaper` and `RedisQueue` (types of the constants, and that
the special values differ from times, ids and hashes):

| theorem | states |
|---|---|
| `TypeCorrect` | `Spec => []TypeOK` |
| `HandlersGetWholeJobs` | `Spec => []RunsWholeJob` |
| `ClaimsAreExclusive` | `Spec => []ClaimExclusive` |
| `NonRetriedJobsRunAtMostOnce` | `Spec => []AtMostOnce` |

The inductive invariant is `IInv == TypeOK /\ Shape /\ ClaimExclusive /\ Once`.

- `Shape` is needed because any actor may write a hash of which another holds a
  copy. It says of every hash and every copy: `Retry` is set only for a job
  dispatched with it, and a gate (`RetryAfter`) is set only where `ID` is. A hash
  made by a single-field HSET has neither. So a worker that passes the gate holds
  a whole job, and only jobs dispatched with `Retry` are ever requeued.
- `Once` says that a job without `Retry` which is pending, or held by a worker
  that has not called the handler, has not run; and that a job not yet dispatched
  has left no trace. The second part is needed for `Dispatch`, the first for
  `StartHandler`.

`TypeStep`, `ShapeStep` and `OnceStep` each go through the actions one by one,
with the lemmas on what a kind of step (a write, a RENAME, a return) keeps.
`QuietStep` covers in `OnceStep` every step that makes no job pending, claims none
and starts no handler; the six others (`Dispatch`, `Claim`, `GiveBack`,
`StartHandler`, `Retry`, `Requeue`) have proofs of their own. `Requeue` is where
`ClaimExclusive` needs `Protected`: a reaper requeues only jobs with `Retry`.

### The redis backend while no lock expires

`RedisLifecycleProofs` proves, with the
invariants of `RedisCountingProofs` and the same generality but for `Reapers = {}`
(the first two theorems assume it, the properties of the others state it), with any
number of crashes, refused commands and lost connections:

| theorem | states |
|---|---|
| `RedisImplementsLifecycle` | `Spec => ImplementsLifecycle` |
| `AttemptsAreLimited` | `Spec => []MaxAttemptsBounds` |
| `AttemptsAreCounted` | `Spec => []AttemptsCounted` |
| `JobsAreNeverLost` | `Spec => []NeverLost` |
| `OutcomesAreSingle` | `Spec => []OneOutcome` |
| `WorkersGoOnUntilClosed` | `Spec => []WorkersRunUntilClosed` |

`IInv` says who may hold a job and that hashes are whole; it says nothing of what
has been counted in them. `RInv` adds that. `JobInv`: where a dispatched job is,
and that a pending hash is `Ready` (its `RetryCounter` is the number of runs, and an
attempt is left). `WorkerInv`: for each step of a worker that holds a job, how the
locked hash and the worker's copy compare with the runs (`HolderInv`), and that a
worker about to insert a row is the only one to do so (`RowInv`). `Alone` gets from
`IInv` and `RInv` that nobody else has a hand on a held job, so that by `Local` a
worker's step need only be checked for its own job. `LetGo` covers the steps with
which workers drop what they hold: returns, crashes, lost connections. The
refinement is again `Simulates`, from `Moves` and `Invisible`. `MaxAttemptsBounds` is
the property that `doc_attempts_reaped` violates: the theorem says that only an
expired lock can do so.

`WorkersRunUntilClosed` is about runs without faults and with gates that parse. A worker
ends early on a gate that does not parse or on a job it can no longer read. `RInv` excludes
the second; `GatesInv` adds that the gate of every pending job, and of every locked job a worker
has yet to look at, is a time.

### The memory backend

`MemoryQueueProofs` proves, for any finite sets of jobs and workers, any names,
`MaxAttempts` and `HighWaterMark`, from the assumptions in `MemoryQueue`:

| theorem | states |
|---|---|
| `MemoryImplementsLifecycle` | `Spec => ImplementsLifecycle` |
| `DepthIsExact` | `Spec => []DepthExact` |
| `AttemptsAreBounded` | `Spec => []AttemptsBounded` |
| `RowsAreSingle` | `Spec => []RecordedOnce` |
| `HandlersAreFound` | `Spec => []HandlerFound` |
| `CacheStaysBounded` | `Spec => []CacheBounded` |
| `TypesAreKept` | `Spec => []TypeOK` |

The inductive invariant is `MInv`. None of the properties is inductive alone,
because a job is settled in several steps of the worker that took it: `WorkerInv`
says, for each step of a worker, in which phase its job is and how its runs compare
with its `RetryCounter`; `OneOwner`, that no two workers have the same job; `JobInv`,
how rows, runs and outcome of a job fit together. `DepthExact` is a count of two
sets; its step lemmas say how each action changes one of them by one element.
The refinement is the lemma `Simulates`: under `MInv` every step changes the status
of at most one job by one move of `JobLifecycle` (`Moves`), or of none (`Invisible`).

### Configuration, seeding and Close

`LifecycleProofs` proves, for any queues, maps and edited file, from
`StringsAssumption` in `Configuration` (the strings the code names are strings) and
`LifecycleAssumption` in `Lifecycle` (the maps' values have the type of their field, or
are `WrongType`):

| theorem | states |
|---|---|
| `BuiltQueuesAreSound` | `BuildQueue` of any configuration is `Sound` |
| `QueuesAreWellConfigured` | `Spec => []WellConfigured` |
| `SeedingIsHarmless` | `Spec => []SeededAsTemplate` |
| `ClosesDrain` | `Spec => []DrainedOnReturn` |
| `PanicsAreExplained` | `Spec => []PanicsExplained` |
| `LifecycleTypeCorrect` | `Spec => []TypeOK` |

The invariant `LInv` adds what `queue.yml` can contain at each step of a seeding,
and that it exists when it is read. The key fact is that the zero configuration
and the template build the same queue (`SeedsAlike`).

For `Close` the invariant is `GInv`. `Counted`: `wg` is the number of goroutines of all queues
together, as the cardinality of a set of pairs (queue, number), so that a start and an exit
add and remove one element and no sum over queues is needed. `Waits`: how far a `Close` and
its waiter are, and that once the waiter is done, or woken, no goroutine is left unless one was
started late. A `Done` is always that of a counted goroutine, so `wg` stays in Nat and the
remaining panics are the four of `PanicsExplained`.

### Depth

`HarnessProofs` proves `DepthIsBounded`, `Spec => []DepthBounds`, for any list of
channels, scenarios and a finite set of jobs. The invariant `DInv` says that
`total` is the number of distinct keys returned plus the repeated ones, and that a
job pending all along that has not been returned is still owed (`Owed`): it is in a
channel to come, or in this one and in `due`. This needs `Routed`: a pending job is
on a configured channel.

### Stress

`HarnessProofs` also proves `StressAccountsForAll`, `Spec => []StressAccounts`, for any
scenarios (numbers of jobs up to any `MaxStress`, any concurrency and mode) and a
finite set of jobs, from `HarnessAssumption`. The property is about the end of `Stress`;
the invariant `SInv` follows its goroutines. `Looped`: the loop has started exactly the
goroutines below `next`. `Counted`: `wg`, `sem` and the sum of the tallies are the
numbers of goroutines that are at certain steps. `InRedis`: the two bounds on the
stored jobs hold all along. When `wg` is zero after the loop, no goroutine is between
start and end, so all have been tallied.

### Routing

`HarnessProofs` proves `RoutedJobsAreClaimable`, `Spec => []RoutedClaimable`, for any
names that are sequences of strings (part of `HarnessAssumption`), of any length. The
invariant is `Routes`: a job's channel is the default one or one the scanner reads out
of a key as it was put in. It rests on `FormattedNames`: what `RedisKeyspaceFormater`
returns contains no separator. The formatter is a recursive function, and the library's
induction theorems cannot be applied here; `LeastNumber` takes their place. It says that
a set of numbers has a least member, and follows from the well-foundedness of strict
inclusion on finite sets. That the function exists, and that its values have no
separator, is proved from a least prefix for which it fails.

### The jobs of the harness

`HarnessJobsProofs` proves, for any scenarios, jobs and jobs left behind, any
`MaxAttempts` and any interleaving of the handlers, from `HarnessAssumption`:

| theorem | states |
|---|---|
| `JobsEndAsHandled` | `Spec => []BenchOutcomes` |
| `CountersAreExact` | `Spec => []CountersExact` |
| `HarnessTypeCorrect` | `Spec => []TypeOK` |

`BenchOutcomes` speaks of jobs that have ended; the invariant `JInv` follows them there.
`Registrations`: every handler is registered before the process dispatches, so no job of
its own is dropped for want of one (`Handled`). `Attempted`: a waiting job has a run
left, and a handler is under way exactly while its job is running. `Holds` and
`Counters`: the counter a handler has looked up is the one in the map, it stays there,
and a counter that is not zero is in the map under the ID of the job that made it.
`Followed`: a fail-then-succeed job that shares its ID with no other job in redis
(`Single`) has a counter equal to its runs, so it gets its failures and then its
success; sharing is for ever, because no job is new again. `CountersExact` is then
inductive with `JInv`: the failed runs of always-error jobs are a set of pairs (job,
number) to which an increment adds one. `TypeOK` needs, besides, `MainType` and
`Seeding` of `HarnessProofs`: `SeedAll` has at most one error for each entry passed, and
the semaphore and the WaitGroup are within the bounds that `SInv` gives.

### Only model-checked

Every invariant that a passing run checks has a theorem, and so have both refinements. What is
left to TLC is everything under fairness (`EventuallySettled`, `ShutdownDrains`, `CloseReturns`,
`ShutdownStopsAll`, `CloseEnds`, `StressReturns`), which is out of the prover's reach, and the
counterexamples of the four runs above.

## Observations without a run

- The first retry of a redis job has no backoff: `Dispatch` always sets
  `RetryAfter`, so the branch `RetryAfter == ""` of `handleRedisJob` is never
  taken and the delay is `RetryCounter * 5 = 0` seconds (`api/redis.go:248-253`).
- A job runs up to `MaxAttempts + 1` times on both backends when no lock expires;
  the comment at `api/types.go:41` counts the initial attempt into `MaxAttempts`.
  `JobLifecycle` states the bound the code keeps. So `docs/bench-harness.md:143`,
  which expects `100 fail jobs x 5 attempts` for `max_attempts=5`, is one run per job
  short, and so is the comment on `maxAttemptsForExhaust`
  (`internal/bench/benchjobs/flaky_exhaust_retries.go:12`).
- `docs/bench-harness.md:255` has `redis_prefix` isolate a run; the field is stored and
  no key contains it.
- A configured channel that is not in the form `RedisKeyspaceFormater` gives (such
  as `Email`) is scanned and never routed to: its jobs go to the default channel. A
  default channel with a `:` is routed to, and its jobs are never claimed;
  `RoutedClaimable` excludes it. A channel listed twice is counted twice by `Depth`
  (the keys are repeated ones in `DepthBounds`).
- In `queuebench` the workers run before `RegisterAll`, so a job that an earlier
  process left pending may fail for want of a handler. `BenchOutcomes` is about
  the jobs this process dispatches.
- The redis backend accepts a `DispatchAt` that does not parse, although
  `api/queue.go:475` says it returns an error; the job's gate then ends every
  worker frame that reads it. The runs dispatch only times that parse; the proofs
  cover the others too.
- The memory failed-jobs cache receives every failure, not only permanent ones
  as `docs/queue.md:156` says, and `Depth` does not count sleeping jobs.
- With one worker, a handler that dispatches to its own memory queue without delay
  waits for itself. `EventuallySettled` of `memory_queue` has one such job and
  two workers.

## Not modelled

- Logging, payload contents and their encoding, durations and the readings of the
  sampler: nothing decides on them.
- `GetCompletedJobs` and `GetFailedJobs`: one SELECT each. `ReaperStats`: counters that
  are written and never read by the code.
- `New(nil)`, the branch of `loadConfig` without an application, which parses
  the embedded template and touches no file.
- `Name`, `Priority` and `Service` of the provider, and the aliases and forwarding
  calls of `queue.go`: no state.
- The growth of a redis worker's stack (`api/redis.go:124`): the model follows it
  up to `MaxDepth`; that it has no limit in the code is a fact with nothing to check.
- The rpc server and the set-up of the framework in the bench process: only
  whether they start is modelled.
