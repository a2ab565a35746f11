-------------------------- MODULE LifecycleProofs ---------------------------
(***************************************************************************)
(* Proofs about Configuration and Lifecycle, for every set of queues, every *)
(* map given to Configure and every edited queue.yml.                      *)
(*                                                                         *)
(* WellConfigured is not inductive: a queue is built from the provider's   *)
(* configuration or from the file, so the invariant says what those hold   *)
(* at every step of Register (LInv).                                       *)
(*                                                                         *)
(* DrainedOnReturn is about a Close that has returned.  The invariant GInv *)
(* says that the shared WaitGroup counts the goroutines of all queues and  *)
(* what each step of a Close and of the goroutine it waits with has seen.  *)
(***************************************************************************)
EXTENDS Lifecycle, FiniteSetTheorems, TLAPS

\* The zero value, the template and an edited file are configurations.
LEMMA FilesFormed == ZeroConfig \in Config /\ Template \in Config /\ Edited \in Config
<1>1. "" \in Strings /\ "memory" \in Strings /\ "job" \in Strings
  BY StringsAssumption, Zenon
<1>2. <<>> \in Seq(Strings)
  OBVIOUS
<1>3. <<"job">> \in Seq(Strings)
  <2>1. "job" \in Strings
    BY <1>1, Zenon
  <2> QED BY ONLY <2>1
<1>4. 0 \in Int
  OBVIOUS
<1>5. ZeroConfig \in Config
  BY <1>1, <1>2, <1>4, Zenon DEF Config, ZeroConfig
<1>6. Template \in Config
  <2>1. "memory" \in Strings /\ "job" \in Strings
    BY <1>1, Zenon
  <2> QED BY ONLY <1>3, <2>1 DEF Config, Template
<1> QED BY <1>5, <1>6, LifecycleAssumption

\* setConfigDefaults: a lock timeout of at least 1 second, and a reaper
\* interval of at least 1 second below it, if there is one.
LEMMA ClampedBelow ==
    ASSUME NEW interval \in Int, interval >= 1, NEW timeout \in Int, timeout >= 1
    PROVE  /\ Clamped(interval, timeout) \in Int
           /\ Clamped(interval, timeout) >= 1
           /\ Clamped(interval, timeout) < timeout \/ timeout = 1
  BY DEF Clamped

\* buildQueue: the default channel is among the queue's channels.
LEMMA DefaultIncluded ==
    ASSUME NEW S, NEW channels \in Seq(S), NEW default
    PROVE  HasChannel(WithDefault(channels, default), default)
<1>1. CASE HasChannel(channels, default)
  BY <1>1 DEF WithDefault
<1>2. CASE ~HasChannel(channels, default)
  <2> DEFINE longer == Append(channels, default)
  <2>1. WithDefault(channels, default) = longer
    BY <1>2 DEF WithDefault
  <2>2. Len(channels) + 1 \in DOMAIN longer /\ longer[Len(channels) + 1] = default
    OBVIOUS
  <2> QED BY <2>1, <2>2 DEF HasChannel
<1> QED BY <1>1, <1>2

\* Whatever the configuration says, the queue built from it is sound.
THEOREM BuiltQueuesAreSound == \A c \in Config : BuildQueue(c) \in Config /\ Sound(BuildQueue(c))
<1> SUFFICES ASSUME NEW c \in Config PROVE BuildQueue(c) \in Config /\ Sound(BuildQueue(c))
  OBVIOUS
<1> DEFINE d == SetConfigDefaults(c)
           timeout == IfNotPositive(c.LockTimeout, 300)
           interval == IfNotPositive(c.ReaperInterval, 30)
           b == BuildQueue(c)
<1>1. /\ c.LockTimeout \in Int /\ c.ReaperInterval \in Int
      /\ c.QueueChannels \in Seq(Strings)
  BY DEF Config
<1>2. timeout \in Int /\ timeout >= 1 /\ interval \in Int /\ interval >= 1
  BY <1>1 DEF IfNotPositive
<1>3. /\ d.Backend \in {"memory", "redis"}
      /\ d.LockTimeout = timeout /\ d.ReaperInterval = Clamped(interval, timeout)
      /\ d.QueueChannels = c.QueueChannels
  BY DEF SetConfigDefaults
<1>4. /\ b.Backend = d.Backend /\ b.LockTimeout = d.LockTimeout
      /\ b.ReaperInterval = d.ReaperInterval
      /\ b.QueueChannelDefault = d.QueueChannelDefault
      /\ b.QueueChannels = WithDefault(d.QueueChannels, d.QueueChannelDefault)
  BY DEF BuildQueue, SetConfigDefaults
<1>5. d \in Config
  <2>1. Clamped(interval, timeout) \in Int
    BY <1>2, ClampedBelow
  <2> DEFINE default == IF c.QueueChannelDefault = "" THEN "job" ELSE c.QueueChannelDefault
             backend == IF c.Backend = "redis" THEN "redis" ELSE "memory"
  <2>2. "memory" \in Strings /\ "redis" \in Strings /\ "job" \in Strings
    BY StringsAssumption
  <2>3. default \in Strings /\ backend \in Strings
    BY <2>2, Zenon DEF Config
  <2>4. d = [Backend |-> backend, WorkerCount |-> IfZero(c.WorkerCount, 1),
             MaxAttempts |-> IfZero(c.MaxAttempts, 3),
             HighWaterMark |-> IfZero(c.HighWaterMark, 10000),
             RedisScanInterval |-> IfZero(c.RedisScanInterval, 1),
             QueueChannels |-> c.QueueChannels, QueueChannelDefault |-> default,
             LockTimeout |-> timeout, ReaperInterval |-> Clamped(interval, timeout)]
    BY DEF SetConfigDefaults
  <2> HIDE DEF d, default, backend, timeout, interval
  <2> QED BY <1>1, <1>2, <2>1, <2>3, <2>4 DEF Config, IfZero
<1>6. b \in Config
  <2>1. WithDefault(d.QueueChannels, d.QueueChannelDefault) \in Seq(Strings)
    BY <1>5 DEF WithDefault, Config
  <2>2. b = [d EXCEPT !.QueueChannels = WithDefault(d.QueueChannels, d.QueueChannelDefault)]
    BY DEF BuildQueue
  <2> QED BY <1>5, <2>1, <2>2, Zenon DEF Config
<1> HIDE DEF d, timeout, interval, b
<1>7. /\ Clamped(interval, timeout) >= 1
      /\ Clamped(interval, timeout) < timeout \/ timeout = 1
  BY <1>2, ClampedBelow
<1>8. HasChannel(b.QueueChannels, b.QueueChannelDefault)
  BY <1>1, <1>3, <1>4, DefaultIncluded
<1>9. Sound(b)
  BY <1>3, <1>4, <1>7, <1>8 DEF Sound
<1> QED BY <1>6, <1>9 DEF b

\* An empty or half-written file builds the queue of the template.
LEMMA SeedsAlike == BuildQueue(ZeroConfig) = Template /\ BuildQueue(Template) = Template
<1>1. SetConfigDefaults(ZeroConfig) = [Template EXCEPT !.QueueChannels = <<>>]
  BY DEF SetConfigDefaults, ZeroConfig, Template, IfZero, IfNotPositive, Clamped
<1>2. SetConfigDefaults(Template) = Template
  BY DEF SetConfigDefaults, Template, IfZero, IfNotPositive, Clamped
<1>3. WithDefault(<<>>, "job") = <<"job">> /\ WithDefault(<<"job">>, "job") = <<"job">>
  BY DEF WithDefault, HasChannel
<1>4. BuildQueue(ZeroConfig) = Template
  <2> DEFINE bare == [Template EXCEPT !.QueueChannels = <<>>]
  <2>1. bare.QueueChannels = <<>> /\ bare.QueueChannelDefault = "job"
    BY DEF Template
  <2>2. BuildQueue(ZeroConfig) = [bare EXCEPT !.QueueChannels = <<"job">>]
    BY <1>1, <1>3, <2>1, Zenon DEF BuildQueue
  <2>3. [bare EXCEPT !.QueueChannels = <<"job">>] = [Template EXCEPT !.QueueChannels = <<"job">>]
    BY Zenon
  <2>4. [Template EXCEPT !.QueueChannels = <<"job">>] = Template
    BY DEF Template
  <2> QED BY ONLY <2>2, <2>3, <2>4
<1>5. /\ Template.QueueChannels = <<"job">> /\ Template.QueueChannelDefault = "job"
      /\ [Template EXCEPT !.QueueChannels = <<"job">>] = Template
  BY DEF Template
<1>6. BuildQueue(Template) = Template
  BY ONLY <1>2, <1>3, <1>5 DEF BuildQueue
<1> QED BY <1>4, <1>6

-----------------------------------------------------------------------------
(* The invariant *)

\* The provider: its file, its configuration and its queue.
LInv ==
    /\ file \in {None, ZeroConfig, Template, Edited}
    /\ config \in [Queues -> Config]
    /\ ppc \in [Queues -> {"start", "create", "write", "read", "built", "failed"}]
    /\ \A q \in Queues : ppc[q] \in {"write", "read"} => file # None
    /\ service \in [Queues -> Config \cup {None}] /\ unedited \in [Queues -> BOOLEAN]
    /\ \A q \in Queues : ppc[q] # "built" => service[q] = None
    /\ WellConfigured
    /\ SeededAsTemplate

\* What Configure and Register do to the file, the provider and its queue.
Registers(q) ==
    \/ \E m \in ConfigMaps[q] : Configure(q, m)
    \/ RegisterConfigured(q) \/ RegisterFromFile(q) \/ SeedFile(q) \/ ReadConfig(q)
    \/ RegisterFails(q)

\* Every other step leaves them alone, but for an edit of the file.
LEMMA LifecycleStep ==
    [Next]_vars => (\E q \in Queues : Registers(q)) \/ EditFile \/ UNCHANGED provVars
  BY DEF Next, Register, Registers, Runs, vars, Boot, StartWorker, StartReaper, NilPool, Take,
         Finish, Hang, WorkerExit, ReaperExit, Wait, WaitReturns, Close, CloseAgain, CloseReturns,
         CloseTimesOut

\* Configure keeps the fields and their types.
LEMMA ConfigureFormed ==
    ASSUME NEW q \in Queues, NEW m \in ConfigMaps[q], Configure(q, m), LInv
    PROVE  config' \in [Queues -> Config]
<1> DEFINE c == config[q]
           d == [f \in DOMAIN c |-> IF f \in DOMAIN m /\ m[f] # WrongType THEN m[f] ELSE c[f]]
<1>1. config' = [config EXCEPT ![q] = d] /\ c \in Config
  BY DEF Configure, LInv
<1>2. DOMAIN c = DOMAIN ZeroConfig
  BY <1>1, Zenon DEF Config, ZeroConfig
<1>3. \A f \in DOMAIN c : d[f] = c[f] \/ Asserted(f, d[f])
  BY LifecycleAssumption
<1>4. d \in Config
  <2>1. d = [f \in DOMAIN ZeroConfig |-> d[f]]
    BY <1>2
  <2>2. \A f \in {"Backend", "QueueChannelDefault"} : d[f] \in Strings
    BY <1>1, <1>2, <1>3, Zenon DEF Config, ZeroConfig, Asserted
  <2>3. d["QueueChannels"] \in Seq(Strings)
    BY <1>1, <1>2, <1>3, Zenon DEF Config, ZeroConfig, Asserted
  <2>4. \A f \in {"WorkerCount", "MaxAttempts", "HighWaterMark", "RedisScanInterval",
                   "LockTimeout", "ReaperInterval"} : d[f] \in Int
    BY <1>1, <1>2, <1>3, Zenon DEF Config, ZeroConfig, Asserted
  <2> HIDE DEF d
  <2> QED BY <2>1, <2>2, <2>3, <2>4, Zenon DEF Config, ZeroConfig
<1> QED BY <1>1, <1>4 DEF LInv

\* A queue is built sound, and as the template unless the file was edited.
LEMMA Builds ==
    ASSUME NEW q \in Queues, NEW c \in Config, NEW fromSeed \in BOOLEAN,
           fromSeed => c \in {ZeroConfig, Template}, Build(q, c, fromSeed), LInv,
           ppc' = [ppc EXCEPT ![q] = "built"]
    PROVE  LInv'
<1>1. /\ BuildQueue(c) \in Config /\ Sound(BuildQueue(c))
      /\ fromSeed => BuildQueue(c) = Template
  BY BuiltQueuesAreSound, SeedsAlike
<1>2. UNCHANGED <<file, config>>
  BY DEF Build
<1>3. CASE UNCHANGED <<service, unedited>>
  BY <1>2, <1>3 DEF LInv, WellConfigured, SeededAsTemplate
<1>4. CASE /\ service' = [service EXCEPT ![q] = BuildQueue(c)]
           /\ unedited' = [unedited EXCEPT ![q] = fromSeed]
  <2>1. service' \in [Queues -> Config \cup {None}] /\ unedited' \in [Queues -> BOOLEAN]
    BY <1>1, <1>4 DEF LInv
  <2>2. WellConfigured' /\ SeededAsTemplate'
    BY <1>1, <1>4 DEF LInv, WellConfigured, SeededAsTemplate
  <2>3. \A r \in Queues : ppc'[r] # "built" => service'[r] = None
    BY <1>4 DEF LInv
  <2> QED BY <1>2, <2>1, <2>2, <2>3 DEF LInv
<1> QED BY <1>3, <1>4 DEF Build

\* The invariant holds at the start and at every step.
LEMMA LifecycleInvariant == Spec => []LInv
<1>1. Init => LInv
  BY FilesFormed DEF Init, LInv, WellConfigured, SeededAsTemplate
<1>2. LInv /\ [Next]_vars => LInv'
  <2> SUFFICES ASSUME LInv, [Next]_vars PROVE LInv'
    OBVIOUS
  <2> USE DEF LInv
  <2>1. ASSUME NEW q \in Queues, NEW m \in ConfigMaps[q], Configure(q, m) PROVE LInv'
    BY <2>1, ConfigureFormed, Zenon DEF Configure, WellConfigured, SeededAsTemplate
  <2>2. ASSUME NEW q \in Queues, RegisterConfigured(q) PROVE LInv'
    <3>1. Build(q, config[q], FALSE) /\ ppc' = [ppc EXCEPT ![q] = "built"]
      BY <2>2, Zenon DEF RegisterConfigured, At
    <3> QED BY <3>1, Builds
  <2>3. ASSUME NEW q \in Queues, ReadConfig(q) PROVE LInv'
    <3> DEFINE fromSeed == file # Edited
    <3>1. file # None /\ Build(q, file, fromSeed) /\ ppc' = [ppc EXCEPT ![q] = "built"]
      BY <2>3 DEF ReadConfig, At
    <3>2. /\ file \in Config /\ fromSeed \in BOOLEAN
          /\ fromSeed => file \in {ZeroConfig, Template}
      BY <3>1, FilesFormed
    <3> HIDE DEF fromSeed
    <3> QED BY <3>1, <3>2, Builds
  <2>4. ASSUME NEW q \in Queues, RegisterFromFile(q) \/ SeedFile(q) \/ RegisterFails(q) PROVE LInv'
    <3>1. None \notin {ZeroConfig, Template}
      BY LifecycleAssumption
    <3>2. UNCHANGED <<config, service, unedited>>
      BY <2>4 DEF RegisterFromFile, SeedFile, RegisterFails
    <3>3. file' \in {None, ZeroConfig, Template, Edited} /\ (file # None => file' # None)
      BY <2>4, <3>1 DEF RegisterFromFile, SeedFile, RegisterFails
    <3>4. PICK to \in {"create", "write", "read", "failed"} : ppc' = [ppc EXCEPT ![q] = to]
      BY <2>4 DEF RegisterFromFile, SeedFile, RegisterFails, At
    <3>5. \A r \in Queues : ppc'[r] \in {"write", "read"} => file' # None
      BY <2>4, <3>1, <3>3 DEF RegisterFromFile, SeedFile, RegisterFails, At
    <3>6. ppc[q] # "built"
      BY <2>4 DEF RegisterFromFile, SeedFile, RegisterFails, At
    <3>7. \A r \in Queues : ppc'[r] # "built" => service'[r] = None
      BY <3>2, <3>4, <3>6
    <3> QED BY <3>2, <3>3, <3>4, <3>5, <3>7 DEF WellConfigured, SeededAsTemplate
  <2>5. CASE EditFile
    BY <2>5, LifecycleAssumption DEF EditFile, WellConfigured, SeededAsTemplate
  <2>6. CASE UNCHANGED provVars
    BY <2>6 DEF provVars, WellConfigured, SeededAsTemplate
  <2> QED BY <2>1, <2>2, <2>3, <2>4, <2>5, <2>6, LifecycleStep DEF Registers
<1> QED BY <1>1, <1>2, PTL DEF Spec

\* Every queue the provider builds is well configured, whatever Configure was
\* given and queue.yml holds (setConfigDefaults, buildQueue).
THEOREM QueuesAreWellConfigured == Spec => []WellConfigured
<1>1. LInv => WellConfigured
  BY DEF LInv
<1> QED BY <1>1, LifecycleInvariant, PTL

\* However the seedings of queue.yml interleave and fail, a queue built from a
\* file nobody edited is the template's (loadConfig).
THEOREM SeedingIsHarmless == Spec => []SeededAsTemplate
<1>1. LInv => SeededAsTemplate
  BY DEF LInv
<1> QED BY <1>1, LifecycleInvariant, PTL

-----------------------------------------------------------------------------
(***************************************************************************)
(* The goroutines.  The package variable wg counts those of all queues, so *)
(* the invariant has to add up Live(q) over the queues: it says wg is the  *)
(* size of the set of their goroutines, which a start extends and an exit  *)
(* shrinks by one element.                                                 *)
(***************************************************************************)
Goroutines == {g \in Queues \X Nat : 1 <= g[2] /\ g[2] <= Live(g[1])}

Counted == IsFiniteSet(Goroutines) /\ wg = Cardinality(Goroutines)

\* The types of the counters and flags of the process.
Typed ==
    /\ redisCache \in BOOLEAN /\ hasConfig \in [Queues -> BOOLEAN]
    /\ lpc \in [Queues -> {"none", "listening"}]
    /\ started \in [Queues -> Nat]
    /\ idle \in [Queues -> Nat] /\ busy \in [Queues -> Nat] /\ hung \in [Queues -> 0 .. 1]
    /\ reaper \in [Queues -> {"none", "live", "exited"}]
    /\ closing \in [Queues -> {"open", "draining", "returned", "timedOut"}]
    /\ waiter \in [Queues -> {"none", "waiting", "woken", "done"}]
    /\ systemShutdown \in BOOLEAN /\ late \in BOOLEAN /\ panicked \in BOOLEAN

\* A Wait goes on at zero, and unless a goroutine was started late wg stays there.
Waits(r) ==
    /\ ~late /\ waiter[r] \in {"woken", "done"} => wg = 0
    /\ waiter[r] # "none" => closing[r] # "open"
    /\ closing[r] = "returned" => waiter[r] = "done"

GInv == Typed /\ Counted /\ \A r \in Queues : Waits(r)

\* The number of goroutines of a queue.
LEMMA LiveType == ASSUME Typed, NEW q \in Queues PROVE Live(q) \in Nat
  BY DEF Typed, Live

\* A goroutine starts,
LEMMA OneMore ==
    ASSUME Typed, Typed', Counted, NEW q \in Queues, Live(q)' = Live(q) + 1,
           \A r \in Queues \ {q} : Live(r)' = Live(r), wg' = wg + 1
    PROVE  Counted'
<1> DEFINE g == <<q, Live(q) + 1>>
<1>1. \A r \in Queues : Live(r) \in Nat /\ Live(r)' \in Nat
  BY LiveType DEF Typed, Live
<1>2. Goroutines' = Goroutines \cup {g}
  BY <1>1 DEF Goroutines
<1>3. g \notin Goroutines
  BY <1>1 DEF Goroutines
<1> HIDE DEF g
<1> QED BY <1>2, <1>3, FS_AddElement DEF Counted

\* or ends.
LEMMA OneLess ==
    ASSUME Typed, Typed', Counted, NEW q \in Queues, Live(q) > 0, Live(q)' = Live(q) - 1,
           \A r \in Queues \ {q} : Live(r)' = Live(r), wg' = wg - 1
    PROVE  Counted' /\ wg \in Nat /\ wg >= 1
<1> DEFINE g == <<q, Live(q)>>
<1>1. \A r \in Queues : Live(r) \in Nat /\ Live(r)' \in Nat
  BY LiveType DEF Typed, Live
<1>2. Goroutines' = Goroutines \ {g}
  BY <1>1 DEF Goroutines
<1>3. g \in Goroutines
  BY <1>1 DEF Goroutines
<1> HIDE DEF g
<1>4. Cardinality(Goroutines) \in Nat /\ Cardinality(Goroutines) >= 1
  <2>1. Cardinality(Goroutines) \in Nat /\ Cardinality(Goroutines) # 0
    BY <1>3, FS_CardinalityType, FS_EmptySet DEF Counted
  <2> QED BY <2>1
<1> QED BY <1>2, <1>3, <1>4, FS_RemoveElement DEF Counted

\* Every other step leaves the numbers alone.
LEMMA NoMore ==
    ASSUME Counted, \A r \in Queues : Live(r)' = Live(r), UNCHANGED wg
    PROVE  Counted'
<1>1. Goroutines' = Goroutines
  BY DEF Goroutines
<1> QED BY <1>1 DEF Counted

\* A start sets late if any Close has begun, so no Wait has gone on before it.
LEMMA Starts ==
    ASSUME GInv, Typed', NEW q \in Queues, Live(q)' = Live(q) + 1,
           \A r \in Queues \ {q} : Live(r)' = Live(r), Add, UNCHANGED <<closing, waiter>>
    PROVE  GInv'
<1>1. Counted'
  BY OneMore DEF GInv, Add
<1>2. ASSUME NEW r \in Queues PROVE Waits(r)'
  <2>1. Waits(r)
    BY DEF GInv
  <2>2. ~late' => closing[r] = "open"
    BY DEF Add
  <2> QED BY <2>1, <2>2 DEF Waits
<1> QED BY <1>1, <1>2 DEF GInv

\* An exit wakes the waiting Closes when wg reaches zero; before it, wg was not
\* zero, so none had gone on.
LEMMA Ends ==
    ASSUME GInv, Typed', NEW q \in Queues, Live(q) > 0, Live(q)' = Live(q) - 1,
           \A r \in Queues \ {q} : Live(r)' = Live(r), Done, UNCHANGED <<closing, late>>
    PROVE  GInv'
<1>1. Counted' /\ wg \in Nat /\ wg >= 1 /\ wg' = wg - 1
  BY OneLess DEF GInv, Done
<1>2. ASSUME NEW r \in Queues PROVE Waits(r)'
  <2>1. Waits(r)
    BY DEF GInv
  <2>2. waiter'[r] = IF waiter[r] = "waiting" /\ wg = 1 THEN "woken" ELSE waiter[r]
    BY DEF Done
  <2> QED BY <1>1, <2>1, <2>2 DEF Waits
<1> QED BY <1>1, <1>2 DEF GInv

\* Every step keeps the count, and a Wait goes on only at zero.
LEMMA GStep == ASSUME GInv, [Next]_vars PROVE GInv'
<1> USE DEF provVars, workVars, procVars
<1>1. CASE /\ UNCHANGED <<redisCache, started, idle, busy, hung, reaper, closing, waiter>>
           /\ UNCHANGED <<wg, systemShutdown, late>>
           /\ lpc' \in [Queues -> {"none", "listening"}]
           /\ hasConfig' \in [Queues -> BOOLEAN]
           /\ panicked' \in BOOLEAN
  <2>1. Typed'
    BY <1>1 DEF GInv, Typed
  <2>2. Counted'
    BY <1>1, NoMore DEF GInv, Live
  <2> QED BY <1>1, <2>1, <2>2 DEF GInv, Waits
<1>2. ASSUME NEW q \in Queues, Take(q) \/ Finish(q) \/ Hang(q) PROVE GInv'
  <2>1. UNCHANGED <<redisCache, hasConfig, lpc, started, reaper, closing, waiter, procVars>>
    BY <1>2 DEF Take, Finish, Hang
  <2>2. Typed'
    BY <1>2, <2>1 DEF GInv, Typed, Take, Finish, Hang
  <2>3. ASSUME NEW r \in Queues PROVE Live(r)' = Live(r)
    BY <1>2, <2>1 DEF GInv, Typed, Live, Take, Finish, Hang
  <2>4. Counted'
    BY <2>1, <2>3, NoMore DEF GInv
  <2> QED BY <2>1, <2>2, <2>4 DEF GInv, Waits
<1>3. ASSUME NEW q \in Queues, StartWorker(q) PROVE GInv'
  <2>1. Typed'
    BY <1>3 DEF GInv, Typed, StartWorker, Add
  <2>2. Live(q)' = Live(q) + 1 /\ \A r \in Queues \ {q} : Live(r)' = Live(r)
    BY <1>3 DEF GInv, Typed, Live, StartWorker
  <2> QED BY <1>3, <2>1, <2>2, Starts DEF StartWorker
<1>4. ASSUME NEW q \in Queues, StartReaper(q) PROVE GInv'
  <2>1. Typed'
    BY <1>4 DEF GInv, Typed, StartReaper, Add
  <2>2. Live(q)' = Live(q) + 1 /\ \A r \in Queues \ {q} : Live(r)' = Live(r)
    BY <1>4 DEF GInv, Typed, Live, StartReaper
  <2> QED BY <1>4, <2>1, <2>2, Starts DEF StartReaper
<1>5. ASSUME NEW q \in Queues, WorkerExit(q) PROVE GInv'
  <2>1. Typed'
    BY <1>5 DEF GInv, Typed, WorkerExit, Done
  <2>2. Live(q) > 0 /\ Live(q)' = Live(q) - 1 /\ \A r \in Queues \ {q} : Live(r)' = Live(r)
    BY <1>5 DEF GInv, Typed, Live, WorkerExit
  <2> QED BY <1>5, <2>1, <2>2, Ends DEF WorkerExit
<1>6. ASSUME NEW q \in Queues, ReaperExit(q) PROVE GInv'
  <2>1. Typed'
    BY <1>6 DEF GInv, Typed, ReaperExit, Done
  <2>2. Live(q) > 0 /\ Live(q)' = Live(q) - 1 /\ \A r \in Queues \ {q} : Live(r)' = Live(r)
    BY <1>6 DEF GInv, Typed, Live, ReaperExit
  <2> QED BY <1>6, <2>1, <2>2, Ends DEF ReaperExit
<1>7. ASSUME NEW q \in Queues,
             \/ Wait(q) \/ WaitReturns(q) \/ Close(q) \/ CloseReturns(q) \/ CloseTimesOut(q)
      PROVE  GInv'
  <2>1. UNCHANGED <<provVars, workVars, wg, late>>
    BY <1>7 DEF Wait, WaitReturns, Close, CloseReturns, CloseTimesOut
  <2>2. Typed'
    BY <1>7, <2>1
       DEF GInv, Typed, Wait, WaitReturns, Close, CloseReturns, CloseTimesOut, Redis
  <2>3. Counted'
    BY <2>1, NoMore DEF GInv, Live
  <2>4. ASSUME NEW r \in Queues PROVE Waits(r)'
    BY <1>7, <2>1
       DEF GInv, Typed, Waits, Wait, WaitReturns, Close, CloseReturns, CloseTimesOut, TimesOut
  <2> QED BY <2>2, <2>3, <2>4 DEF GInv
<1>8. ASSUME NEW q \in Queues, Registers(q) \/ Boot(q) \/ NilPool(q) \/ CloseAgain(q)
      PROVE  GInv'
  <2>1. panicked' \in BOOLEAN /\ hasConfig' \in [Queues -> BOOLEAN]
    BY <1>8 DEF Registers, Configure, RegisterConfigured, RegisterFromFile, SeedFile, ReadConfig,
                RegisterFails, Build, Boot, NilPool, CloseAgain, GInv, Typed
  <2>2. lpc' \in [Queues -> {"none", "listening"}]
    BY <1>8 DEF Registers, Configure, RegisterConfigured, RegisterFromFile, SeedFile, ReadConfig,
                RegisterFails, Build, Boot, NilPool, CloseAgain, GInv, Typed
  <2> QED BY <1>1, <1>8, <2>1, <2>2
          DEF Registers, Configure, RegisterConfigured, RegisterFromFile, SeedFile, ReadConfig,
              RegisterFails, Build, Boot, NilPool, CloseAgain
<1>9. CASE EditFile \/ UNCHANGED vars
  BY <1>1, <1>9 DEF EditFile, vars, GInv, Typed
<1> QED BY <1>2, <1>3, <1>4, <1>5, <1>6, <1>7, <1>8, <1>9 DEF Next, Register, Registers, Runs

\* wg counts the goroutines in every reachable state.
LEMMA GInvariant == Spec => []GInv
<1>1. Init => GInv
  <2> SUFFICES ASSUME Init PROVE GInv
    OBVIOUS
  <2>1. Typed
    <3>1. 0 \in Nat /\ 0 \in 0 .. 1
      OBVIOUS
    <3> QED BY <3>1, Zenon DEF Init, Typed
  <2>2. \A r \in Queues : Live(r) = 0
    BY DEF Init, Live
  <2>3. Goroutines = {}
    BY <2>2 DEF Goroutines
  <2>4. Counted
    BY <2>3, FS_EmptySet DEF Init, Counted
  <2> QED BY <2>1, <2>4 DEF Init, GInv, Waits
<1> QED BY <1>1, GStep, PTL DEF Spec

\* When Close returns before its timeout, every goroutine of every queue of the
\* process has ended, unless one was started after a Close had begun.
THEOREM ClosesDrain == Spec => []DrainedOnReturn
<1>1. GInv => DrainedOnReturn
  <2> SUFFICES ASSUME GInv, NEW q \in Queues, closing[q] = "returned", ~late, NEW r \in Queues
               PROVE  Live(r) = 0
    BY DEF DrainedOnReturn
  <2>1. wg = 0
    BY DEF GInv, Waits
  <2>2. Goroutines = {}
    BY <2>1, FS_EmptySet DEF GInv, Counted
  <2>3. Live(r) \in Nat
    BY LiveType DEF GInv
  <2>4. Live(r) >= 1 => <<r, 1>> \in Goroutines
    BY <2>3 DEF Goroutines
  <2> QED BY <2>2, <2>3, <2>4
<1> QED BY <1>1, GInvariant, PTL

\* Every variable keeps its type, and in particular wg is never negative: no
\* order of starts, exits and Closes makes wg.Done panic.
THEOREM LifecycleTypeCorrect == Spec => []TypeOK
<1>1. LInv /\ GInv => TypeOK
  <2> SUFFICES ASSUME LInv, GInv PROVE TypeOK
    OBVIOUS
  <2>1. wg \in Nat
    BY FS_CardinalityType DEF GInv, Counted
  <2>2. file \in Config \cup {None}
    BY FilesFormed DEF LInv
  <2> QED BY <2>1, <2>2 DEF LInv, GInv, Typed, TypeOK
<1> QED BY <1>1, LifecycleInvariant, GInvariant, PTL

\* The lifecycle panics for the four known reasons only.  After a panic nothing
\* but an edit of the file happens, so the reason stays visible.
THEOREM PanicsAreExplained == Spec => []PanicsExplained
<1>1. Init => PanicsExplained
  BY DEF Init, PanicsExplained
<1>2. LInv /\ GInv /\ PanicsExplained /\ [Next]_vars => PanicsExplained'
  <2> SUFFICES ASSUME LInv, GInv, PanicsExplained, [Next]_vars, panicked' PROVE PanicsExplained'
    BY DEF PanicsExplained
  <2> USE DEF provVars, workVars, procVars
  <2>1. CASE panicked
    <3>1. UNCHANGED <<redisCache, ppc, service, closing, late>>
      BY <2>1 DEF Next, EditFile, vars
    <3> QED BY <2>1, <3>1 DEF PanicsExplained, Usable, Redis
  <2>2. CASE ~panicked
    <3>1. PICK q \in Queues :
              \/ RegisterConfigured(q) \/ ReadConfig(q) \/ NilPool(q) \/ WaitReturns(q)
              \/ CloseAgain(q)
      BY <2>2 DEF Next, EditFile, vars, Register, Runs, Configure, RegisterFromFile, SeedFile,
                  RegisterFails, Boot, StartWorker, StartReaper, Take, Finish, Hang, WorkerExit,
                  ReaperExit, Wait, Close, CloseReturns, CloseTimesOut
    <3>2. CASE RegisterConfigured(q) \/ ReadConfig(q)
      BY <2>2, <3>2
         DEF RegisterConfigured, ReadConfig, Build, At, LInv, PanicsExplained
    <3>3. CASE NilPool(q)
      BY <3>3 DEF NilPool, Usable, Redis, PanicsExplained
    <3>4. CASE WaitReturns(q)
      BY <2>2, <3>4 DEF WaitReturns, GInv, Waits, PanicsExplained
    <3>5. CASE CloseAgain(q)
      BY <3>5 DEF CloseAgain, Redis, PanicsExplained
    <3> QED BY <3>1, <3>2, <3>3, <3>4, <3>5
  <2> QED BY <2>1, <2>2
<1> QED BY <1>1, <1>2, LifecycleInvariant, GInvariant, PTL DEF Spec
=============================================================================
