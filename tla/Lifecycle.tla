------------------------------ MODULE Lifecycle -----------------------------
(***************************************************************************)
(* The queues of one process: the service provider's Configure, Register   *)
(* and Boot, the loading and seeding of config/queue.yml, Listen and       *)
(* Close.  An application may have several queues (the provider's and      *)
(* those it builds with New); all of them count their goroutines in one    *)
(* package variable wg and share one systemShutdown.                       *)
(*                                                                         *)
(* The goroutines of a queue are counted, by what they do.  A busy worker  *)
(* is in a handler (memory) or on a page of keys (redis).                  *)
(***************************************************************************)
EXTENDS Configuration, FiniteSets

CONSTANTS
    Queues,
    ConfigMaps,    \* the maps Configure may be given, per queue
    Edited,        \* what an operator writes into queue.yml
    MayHang,       \* queues one of whose handlers may never return
    WrongType,     \* a map value of another type than the field's
    None

\* A value of the type of its field: what Configure's type assertions let by.
Asserted(f, v) ==
    /\ f \in {"Backend", "QueueChannelDefault"} => v \in Strings
    /\ f = "QueueChannels" => v \in Seq(Strings)
    /\ f \in {"WorkerCount", "MaxAttempts", "HighWaterMark", "RedisScanInterval",
              "LockTimeout", "ReaperInterval"} => v \in Int

ASSUME LifecycleAssumption ==
    /\ MayHang \subseteq Queues
    /\ Edited \in Config
    /\ None \notin Config \cup {ZeroConfig, Template}
    /\ \A q \in Queues : \A m \in ConfigMaps[q] : \A f \in DOMAIN m :
           m[f] # WrongType => Asserted(f, m[f])

VARIABLES
    redisCache,    \* the application's cache is a redis cache
    file,          \* queue.yml: None (absent) or its parsed content
    ppc,           \* step of each queue's Register
    config, hasConfig, service,       \* the provider's fields
    unedited,      \* history: the queue was built from a file nobody edited
    lpc,           \* "none", "listening" once Listen is called
    started,       \* workers Listen has started
    idle, busy, hung,                 \* worker goroutines of each queue
    reaper,        \* "none", "live", "exited"
    closing,       \* "open", "draining", "returned", "timedOut"
    waiter,        \* Close's wg.Wait: "none", "waiting", "woken", "done"
    wg, systemShutdown,               \* package variables
    late,          \* history: a goroutine was started after a Close began
    panicked       \* an unrecovered panic ended the process

provVars == <<redisCache, file, ppc, config, hasConfig, service, unedited>>
workVars == <<lpc, started, idle, busy, hung, reaper>>
procVars == <<wg, systemShutdown, late, panicked>>
vars == <<provVars, workVars, closing, waiter, procVars>>

Init ==
    /\ redisCache \in BOOLEAN
    /\ file \in {None, Edited}
    /\ ppc = [q \in Queues |-> "start"]
    /\ config = [q \in Queues |-> ZeroConfig]
    /\ hasConfig = [q \in Queues |-> FALSE]
    /\ service = [q \in Queues |-> None]
    /\ unedited = [q \in Queues |-> FALSE]
    /\ lpc = [q \in Queues |-> "none"]
    /\ started = [q \in Queues |-> 0]
    /\ idle = [q \in Queues |-> 0]
    /\ busy = [q \in Queues |-> 0]
    /\ hung = [q \in Queues |-> 0]
    /\ reaper = [q \in Queues |-> "none"]
    /\ closing = [q \in Queues |-> "open"]
    /\ waiter = [q \in Queues |-> "none"]
    /\ wg = 0
    /\ systemShutdown = FALSE
    /\ late = FALSE
    /\ panicked = FALSE

-----------------------------------------------------------------------------
(* Configure, Register and loadConfig *)

\* A key that is absent or of another type leaves the field alone.
Configure(q, m) ==
    /\ ppc[q] = "start"
    /\ config' = [config EXCEPT ![q] =
           [f \in DOMAIN @ |-> IF f \in DOMAIN m /\ m[f] # WrongType THEN m[f] ELSE @[f]]]
    /\ hasConfig' = [hasConfig EXCEPT ![q] = TRUE]
    /\ UNCHANGED <<redisCache, file, ppc, service, unedited, workVars, closing, waiter, procVars>>

At(q, step, next) ==
    /\ ppc[q] = step
    /\ ppc' = [ppc EXCEPT ![q] = next]

\* make([]string, 0, HighWaterMark) panics on a negative capacity.
Build(q, c, fromSeed) ==
    LET built == BuildQueue(c) IN
    /\ UNCHANGED <<redisCache, file, config, hasConfig, workVars, closing, waiter, wg, systemShutdown, late>>
    /\ \/ /\ built.HighWaterMark < 0
          /\ panicked' = TRUE
          /\ UNCHANGED <<service, unedited>>
       \/ /\ built.HighWaterMark >= 0
          /\ service' = [service EXCEPT ![q] = built]
          /\ unedited' = [unedited EXCEPT ![q] = fromSeed]
          /\ UNCHANGED panicked

\* NewWithConfig
RegisterConfigured(q) ==
    /\ hasConfig[q]
    /\ At(q, "start", "built")
    /\ Build(q, config[q], FALSE)

\* New: os.Stat decides whether to seed.
RegisterFromFile(q) ==
    /\ ~hasConfig[q]
    /\ At(q, "start", IF file = None THEN "create" ELSE "read")
    /\ UNCHANGED <<redisCache, file, config, hasConfig, service, unedited, workVars, closing, waiter, procVars>>

\* os.WriteFile creates or truncates the file, and then writes it.
SeedFile(q) ==
    /\ \/ At(q, "create", "write") /\ file' = ZeroConfig
       \/ At(q, "write", "read") /\ file' = Template
    /\ UNCHANGED <<redisCache, config, hasConfig, service, unedited, workVars, closing, waiter, procVars>>

ReadConfig(q) ==
    /\ At(q, "read", "built")
    /\ Build(q, file, file # Edited)

\* MkdirAll, WriteFile or ReadFile fails, or the file does not parse.
RegisterFails(q) ==
    /\ \E step \in {"create", "write", "read"} : At(q, step, "failed")
    /\ UNCHANGED <<redisCache, file, config, hasConfig, service, unedited, workVars, closing, waiter, procVars>>

-----------------------------------------------------------------------------
(* sync.WaitGroup.  A Wait that was blocked panics if, by the time it goes on,
   the counter has left zero again. *)

Add ==
    /\ wg' = wg + 1
    /\ late' = (late \/ \E r \in Queues : closing[r] # "open")

Done ==
    /\ wg' = wg - 1
    /\ waiter' = [r \in Queues |->
           IF waiter[r] = "waiting" /\ wg = 1 THEN "woken" ELSE waiter[r]]

Wait(q) ==
    /\ closing[q] # "open"
    /\ waiter[q] = "none"
    /\ waiter' = [waiter EXCEPT ![q] = IF wg = 0 THEN "done" ELSE "waiting"]
    /\ UNCHANGED <<provVars, workVars, closing, procVars>>

WaitReturns(q) ==
    /\ waiter[q] = "woken"
    /\ waiter' = [waiter EXCEPT ![q] = "done"]
    /\ IF wg = 0 THEN UNCHANGED panicked ELSE panicked' = TRUE
    /\ UNCHANGED <<provVars, workVars, closing, wg, systemShutdown, late>>

-----------------------------------------------------------------------------
(* Boot, Listen and the goroutines it starts *)

\* A provider without a service boots nothing.
Boot(q) ==
    /\ lpc[q] = "none"
    /\ service[q] # None
    /\ lpc' = [lpc EXCEPT ![q] = "listening"]
    /\ UNCHANGED <<provVars, started, idle, busy, hung, reaper, closing, waiter, procVars>>

Redis(q) == service[q] # None /\ service[q].Backend = "redis"

\* Mutant: the goroutine itself does wg.Add(1), which Close may miss.
StartWorkerUncounted(q) ==
    /\ lpc[q] = "listening"
    /\ started[q] < service[q].WorkerCount
    /\ started' = [started EXCEPT ![q] = @ + 1]
    /\ idle' = [idle EXCEPT ![q] = @ + 1]
    /\ late' = late
    /\ UNCHANGED <<provVars, lpc, busy, hung, reaper, closing, waiter, wg, systemShutdown, panicked>>

StartWorker(q) ==
    /\ lpc[q] = "listening"
    /\ started[q] < service[q].WorkerCount
    /\ Add
    /\ started' = [started EXCEPT ![q] = @ + 1]
    /\ idle' = [idle EXCEPT ![q] = @ + 1]
    /\ UNCHANGED <<provVars, lpc, busy, hung, reaper, closing, waiter, systemShutdown, panicked>>

StartReaper(q) ==
    /\ lpc[q] = "listening"
    /\ started[q] >= service[q].WorkerCount
    /\ Redis(q)
    /\ reaper[q] = "none"
    /\ Add
    /\ reaper' = [reaper EXCEPT ![q] = "live"]
    /\ UNCHANGED <<provVars, lpc, started, idle, busy, hung, closing, waiter, systemShutdown, panicked>>

\* Without a redis cache the pool is nil, and its first use panics.
NilPool(q) ==
    /\ idle[q] > 0 \/ (reaper[q] = "live" /\ ~systemShutdown)
    /\ Redis(q)
    /\ ~redisCache
    /\ panicked' = TRUE
    /\ UNCHANGED <<provVars, workVars, closing, waiter, wg, systemShutdown, late>>

Usable(q) == Redis(q) => redisCache

\* A memory worker receives until the channel is closed.  A redis worker may
\* still read the unsynchronised flag as unset and take one more page.
Take(q) ==
    /\ idle[q] > 0
    /\ Usable(q)
    /\ Redis(q) \/ closing[q] = "open"
    /\ idle' = [idle EXCEPT ![q] = @ - 1]
    /\ busy' = [busy EXCEPT ![q] = @ + 1]
    /\ UNCHANGED <<provVars, lpc, started, hung, reaper, closing, waiter, procVars>>

Finish(q) ==
    /\ busy[q] > 0
    /\ busy' = [busy EXCEPT ![q] = @ - 1]
    /\ idle' = [idle EXCEPT ![q] = @ + 1]
    /\ UNCHANGED <<provVars, lpc, started, hung, reaper, closing, waiter, procVars>>

\* A handler that never returns.
Hang(q) ==
    /\ q \in MayHang
    /\ busy[q] > 0
    /\ hung[q] = 0
    /\ busy' = [busy EXCEPT ![q] = @ - 1]
    /\ hung' = [hung EXCEPT ![q] = 1]
    /\ UNCHANGED <<provVars, lpc, started, idle, reaper, closing, waiter, procVars>>

\* Mutant: a redis worker looks only at its own queue's Close.
StopsOwn(q) == closing[q] # "open"

Stops(q) == IF Redis(q) THEN systemShutdown ELSE closing[q] # "open"

WorkerExit(q) ==
    /\ idle[q] > 0
    /\ Usable(q)
    /\ Stops(q)
    /\ idle' = [idle EXCEPT ![q] = @ - 1]
    /\ Done
    /\ UNCHANGED <<provVars, lpc, started, busy, hung, reaper, closing, systemShutdown, late, panicked>>

ReaperExit(q) ==
    /\ reaper[q] = "live"
    /\ systemShutdown
    /\ reaper' = [reaper EXCEPT ![q] = "exited"]
    /\ Done
    /\ UNCHANGED <<provVars, lpc, started, idle, busy, hung, closing, systemShutdown, late, panicked>>

-----------------------------------------------------------------------------
(* Close *)

\* redis: the flag of the process; memory: the channel of the queue.
Close(q) ==
    /\ service[q] # None
    /\ closing[q] = "open"
    /\ closing' = [closing EXCEPT ![q] = "draining"]
    /\ systemShutdown' = (systemShutdown \/ Redis(q))
    /\ UNCHANGED <<provVars, workVars, waiter, wg, late, panicked>>

\* Mutant: Close closes the channel on either backend.
CloseAgainEither(q) ==
    /\ service[q] # None
    /\ closing[q] # "open"
    /\ panicked' = TRUE
    /\ UNCHANGED <<provVars, workVars, closing, waiter, wg, systemShutdown, late>>

\* Closing a closed channel panics.
CloseAgain(q) ==
    /\ service[q] # None
    /\ ~Redis(q)
    /\ closing[q] # "open"
    /\ panicked' = TRUE
    /\ UNCHANGED <<provVars, workVars, closing, waiter, wg, systemShutdown, late>>

CloseReturns(q) ==
    /\ closing[q] = "draining"
    /\ waiter[q] = "done"
    /\ closing' = [closing EXCEPT ![q] = "returned"]
    /\ UNCHANGED <<provVars, workVars, waiter, procVars>>

\* Mutant: the redis backend waits without a limit.
NeverTimesOut(q) == FALSE

\* time.After(ReaperInterval + 5 s): the waiting goroutine is left behind.
TimesOut(q) == Redis(q) /\ closing[q] = "draining"

CloseTimesOut(q) ==
    /\ TimesOut(q)
    /\ closing' = [closing EXCEPT ![q] = "timedOut"]
    /\ UNCHANGED <<provVars, workVars, waiter, procVars>>

-----------------------------------------------------------------------------
Register(q) ==
    \/ RegisterConfigured(q) \/ RegisterFromFile(q) \/ SeedFile(q) \/ ReadConfig(q)
    \/ RegisterFails(q)

\* What the runtime runs once it is begun.
Runs(q) ==
    \/ StartWorker(q) \/ StartReaper(q) \/ NilPool(q) \/ Finish(q) \/ ReaperExit(q)
    \/ Wait(q) \/ WaitReturns(q) \/ CloseReturns(q) \/ CloseTimesOut(q)

EditFile ==
    /\ file = Template
    /\ file' = Edited
    /\ UNCHANGED <<redisCache, ppc, config, hasConfig, service, unedited, workVars, closing, waiter, procVars>>

Next ==
    \/ /\ ~panicked
       /\ \E q \in Queues :
              \/ \E m \in ConfigMaps[q] : Configure(q, m)
              \/ Register(q) \/ Boot(q) \/ Runs(q)
              \/ Take(q) \/ Hang(q) \/ WorkerExit(q)
              \/ Close(q) \/ CloseAgain(q)
    \/ EditFile

Spec == Init /\ [][Next]_vars

\* Goroutines run, handlers other than the hung ones return, timers fire, and
\* the write of systemShutdown becomes visible to a worker that keeps looking.
Fairness ==
    \A q \in Queues :
        /\ WF_vars(~panicked /\ StartWorker(q)) /\ WF_vars(~panicked /\ StartReaper(q))
        /\ WF_vars(~panicked /\ Finish(q)) /\ WF_vars(~panicked /\ (ReaperExit(q) \/ NilPool(q)))
        /\ WF_vars(~panicked /\ (Wait(q) \/ WaitReturns(q)))
        /\ WF_vars(~panicked /\ (CloseReturns(q) \/ CloseTimesOut(q)))
        /\ SF_vars(~panicked /\ WorkerExit(q))

FairSpec == Spec /\ Fairness

-----------------------------------------------------------------------------
(* Properties. *)

Live(q) == idle[q] + busy[q] + hung[q] + (IF reaper[q] = "live" THEN 1 ELSE 0)

TypeOK ==
    /\ redisCache \in BOOLEAN
    /\ file \in Config \cup {None}
    /\ ppc \in [Queues -> {"start", "create", "write", "read", "built", "failed"}]
    /\ config \in [Queues -> Config] /\ hasConfig \in [Queues -> BOOLEAN]
    /\ service \in [Queues -> Config \cup {None}] /\ unedited \in [Queues -> BOOLEAN]
    /\ lpc \in [Queues -> {"none", "listening"}]
    /\ started \in [Queues -> Nat]
    /\ idle \in [Queues -> Nat] /\ busy \in [Queues -> Nat] /\ hung \in [Queues -> 0 .. 1]
    /\ reaper \in [Queues -> {"none", "live", "exited"}]
    /\ closing \in [Queues -> {"open", "draining", "returned", "timedOut"}]
    /\ waiter \in [Queues -> {"none", "waiting", "woken", "done"}]
    /\ wg \in Nat
    /\ systemShutdown \in BOOLEAN /\ late \in BOOLEAN /\ panicked \in BOOLEAN

Sound(s) ==
    /\ s.Backend \in {"memory", "redis"}
    /\ s.ReaperInterval >= 1
    /\ s.ReaperInterval < s.LockTimeout \/ s.LockTimeout = 1
    /\ HasChannel(s.QueueChannels, s.QueueChannelDefault)

\* Whatever Configure and queue.yml say, a queue that is built has a backend it
\* knows, a ticker interval that does not panic and finds a stale lock before
\* it is twice as old as its timeout, and its default channel among its own.
WellConfigured == \A q \in Queues : service[q] # None => Sound(service[q])

\* Seeding is harmless: a queue built while another one creates, truncates or
\* writes queue.yml, or after a seeding that failed half way, is the queue the
\* template describes, as long as nobody has edited the file.
SeededAsTemplate == \A q \in Queues : unedited[q] => service[q] = Template

\* When Close returns without a timeout, no goroutine of any queue of the
\* process is left, unless one was started after a Close had begun.
DrainedOnReturn ==
    \A q \in Queues :
        closing[q] = "returned" /\ ~late => \A r \in Queues : Live(r) = 0

\* The process is brought down by a negative HighWaterMark, a redis backend
\* without a pool, a second Close of a memory queue, or a goroutine started
\* while a Close waits, and by nothing else in the lifecycle.
PanicsExplained ==
    panicked =>
        \/ late
        \/ \E q \in Queues :
               \/ ppc[q] = "built" /\ service[q] = None
               \/ service[q] # None /\ (~Usable(q) \/ (~Redis(q) /\ closing[q] # "open"))

\* systemShutdown is the whole process's: once any redis queue is closed, the
\* workers and the reaper of every redis queue end, of one that listens later
\* too, but for a handler that hangs.
ShutdownStopsAll ==
    \A q \in Queues :
        lpc[q] = "listening" /\ Redis(q) /\ systemShutdown ~>
            \/ reaper[q] = "exited" /\ Live(q) = hung[q]
            \/ panicked

\* A memory Close waits for wg, so for a hung handler and for every queue of the
\* process that has not been told to stop.
HeldUp(q) ==
    /\ service[q] # None /\ ~Redis(q)
    /\ \E r \in Queues : Live(r) > 0 /\ (hung[r] > 0 \/ ~Stops(r))

\* Close returns: on the redis backend always, on the memory backend unless it
\* is held up again and again by the goroutines of other queues.
CloseEnds ==
    \A q \in Queues :
        []<>HeldUp(q) \/ (closing[q] = "draining" ~> (closing[q] # "draining" \/ panicked))
=============================================================================
