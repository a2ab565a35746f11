--------------------------- MODULE HarnessProofs ----------------------------
(***************************************************************************)
(* Proofs about Harness, for every list of channels, every set of jobs and *)
(* whatever the workers, the clients and the shutdown do meanwhile.        *)
(*                                                                         *)
(* Depth is within its bounds.  DepthBounds is about a finished call.  The *)
(* invariant DInv follows the call: the sum counts the distinct keys       *)
(* returned and the repeated ones, and a job pending all along has been    *)
(* returned, is owed by the current SCAN iteration, or is in a channel     *)
(* still to come.                                                          *)
(*                                                                         *)
(* Stress accounts for every job, for every number of jobs, concurrency    *)
(* and mode.  StressAccounts is about the end.  The invariant SInv follows *)
(* the goroutines: the loop has started exactly those below next; the      *)
(* WaitGroup, the semaphore and the tallies count goroutines by how far    *)
(* they are; and a job is in redis only if its goroutine has tallied it.   *)
(*                                                                         *)
(* Routed jobs can be claimed, for names of every length.  What            *)
(* RedisKeyspaceFormater, a recursive function, computes is proved from a  *)
(* least counterexample (LeastNumber).                                     *)
(*                                                                         *)
(* MainType and Seeding are what main is at and how far SeedAll has come.  *)
(***************************************************************************)
EXTENDS Harness, FiniteSetTheorems, WellFoundedInduction, TLAPS

\* A job that is pending is in one of the channels, and stays in it.
Routed ==
    /\ DOMAIN status = Jobs /\ DOMAIN channel = Jobs
    /\ \A j \in Jobs : channel[j] \in Range(QueueChannels)

\* A job pending all along that the call has not returned yet will still be.
Owed(j) ==
    \E i \in at .. Len(QueueChannels) :
        QueueChannels[i] = channel[j] /\ (i = at => j \in due)

DInv ==
    /\ Routed
    /\ at \in 1 .. Len(QueueChannels)
    /\ repeats \in Nat
    /\ returned \subseteq ever /\ ever \subseteq Jobs /\ steady \subseteq Pending
    /\ total = Cardinality(returned) + repeats \/ dpc = "error"
    /\ dpc = "idle" => returned = {} /\ at = 1
    /\ dpc = "scan" => Pending \subseteq ever /\ \A j \in steady \ returned : Owed(j)
    /\ dpc = "done" => steady \subseteq returned

\* Dispatch puts a job on a configured channel (Route).
LEMMA RouteConfigured == \A name : Route(name) \in Range(QueueChannels)
  BY ChannelsAssumption DEF Route

\* What a step outside Depth may do to a job's key.
Elsewhere ==
    /\ DOMAIN status' = Jobs /\ DOMAIN channel' = Jobs
    /\ \A j \in Jobs : /\ channel'[j] \in Range(QueueChannels)
                       /\ status[j] # "new" => channel'[j] = channel[j]

\* A stored job was new and is on a configured channel.
LEMMA StoredElsewhere == ASSUME NEW j, NEW name, Routed, Stored(j, name) PROVE Elsewhere
<1>1. Route(name) \in Range(QueueChannels)
  BY RouteConfigured
<1> QED BY <1>1 DEF Routed, Elsewhere, Stored, Lifecycle!Move

\* A job that moves keeps its channel.
LEMMA MovedElsewhere ==
    ASSUME Routed, UNCHANGED channel,
           UNCHANGED status \/ \E j, from, to : Lifecycle!Move(j, from, to)
    PROVE  Elsewhere
  BY DEF Routed, Elsewhere, Lifecycle!Move

\* So does every step of main, of the shutdown goroutine, of Stress, of the
\* workers and of the clients.
LEMMA MainElsewhere ==
    ASSUME Routed, MainStep \/ Fatal \/ SamplerEnds \/ Signal \/ Exit
    PROVE  Elsewhere
<1>1. CASE LongSleep
  BY <1>1, StoredElsewhere, MovedElsewhere DEF LongSleep, MayStore, jobVars
<1>2. CASE SeedAll
  BY <1>2, StoredElsewhere, MovedElsewhere DEF SeedAll, jobVars
<1>3. CASE UNCHANGED jobVars
  BY <1>3, MovedElsewhere DEF jobVars
<1> QED BY <1>1, <1>2, <1>3 DEF MainStep, Fatal, SamplerEnds, Signal, Exit, Bootstrap, StartRpc,
        LookupQueueService, RegisterAll, StressBegins, StressAdd, StressAcquire, StressWaited,
        StressReturn

\* The goroutines of Stress.
LEMMA StressElsewhere == ASSUME Routed, NEW i, StressStep(i) PROVE Elsewhere
<1>1. CASE StressBody(i)
  BY <1>1, StoredElsewhere, MovedElsewhere DEF StressBody, StressDispatch, MayStore, jobVars
<1>2. CASE UNCHANGED jobVars
  BY <1>2, MovedElsewhere DEF jobVars
<1> QED BY <1>1, <1>2 DEF StressStep, StressReleases, StressDone

\* The workers.
LEMMA WorkerElsewhere == ASSUME Routed, NEW j, Worker(j) PROVE Elsewhere
<1>1. CASE UNCHANGED jobVars
  BY <1>1, MovedElsewhere DEF jobVars
<1>2. CASE Claim(j) \/ GiveBack(j) \/ NoHandler(j) \/ StartHandler(j)
  BY <1>2, MovedElsewhere DEF Claim, GiveBack, NoHandler, StartHandler, Lifecycle!Run
<1>3. CASE HandlerReturns(j)
  BY <1>3, MovedElsewhere DEF HandlerReturns, Lifecycle!Complete, Lifecycle!Retry, Lifecycle!Fail
<1> QED BY <1>1, <1>2, <1>3 DEF Worker, LoadCounter, StoreCounter, AddFlaky, AddAlwaysError

\* A step is one of Depth or one elsewhere.
LEMMA HarnessStep ==
    DInv /\ [Next]_vars =>
        \/ Depth
        \/ Elsewhere /\ Overtaken
        \/ UNCHANGED <<status, channel, depthVars>>
<1> SUFFICES ASSUME DInv, Next PROVE Depth \/ (Elsewhere /\ Overtaken)
  BY DEF vars, jobVars
<1>1. Routed
  BY DEF DInv
<1>2. ASSUME NEW j, NEW name, ClientDispatch(j, name) PROVE Elsewhere
  BY <1>1, <1>2, StoredElsewhere DEF ClientDispatch
<1> QED BY <1>1, <1>2, MainElsewhere, StressElsewhere, WorkerElsewhere DEF Next
-----------------------------------------------------------------------------
(* The invariant *)

\* Every set of jobs is finite.
LEMMA JobsFinite == \A S : S \subseteq Jobs => IsFiniteSet(S) /\ Cardinality(S) \in Nat
  BY HarnessAssumption, FS_Subset, FS_CardinalityType

\* A page adds its new keys to those returned and the others to the repeats.
LEMMA PageCounts ==
    ASSUME DInv, NEW keys, NEW last, Page(keys, last),
           total' = total + Cardinality(keys), returned' = returned \cup keys
    PROVE  /\ total' = Cardinality(returned') + repeats'
           /\ repeats' \in Nat
           /\ keys \subseteq Pending /\ keys \subseteq Jobs
<1>1. keys \subseteq Pending /\ keys \subseteq Jobs /\ returned \subseteq Jobs
  BY DEF DInv, Routed, Page, Pending, PendingIn
<1>2. /\ IsFiniteSet(keys) /\ IsFiniteSet(returned)
      /\ Cardinality(keys) \in Nat /\ Cardinality(returned) \in Nat
      /\ Cardinality(keys \cap returned) \in Nat
  BY <1>1, JobsFinite
<1>3. Cardinality(returned \cup keys)
        = Cardinality(returned) + Cardinality(keys) - Cardinality(returned \cap keys)
  BY <1>2, FS_Union
<1>4. keys \cap returned = returned \cap keys
  OBVIOUS
<1>5. /\ total = Cardinality(returned) + repeats /\ repeats \in Nat
      /\ repeats' = repeats + Cardinality(keys \cap returned)
  BY DEF DInv, Page
<1> QED BY <1>1, <1>2, <1>3, <1>4, <1>5

\* The invariant holds at the start and at every step.
LEMMA DepthInvariant == Spec => []DInv
<1>1. Init => DInv
  <2> SUFFICES ASSUME Init PROVE DInv
    OBVIOUS
  <2>1. Routed
    BY ChannelsAssumption DEF Init, Routed
  <2>2. Len(QueueChannels) \in Nat \ {0}
    BY ChannelsAssumption DEF Range
  <2>3. total = Cardinality(returned) + repeats /\ repeats = 0 /\ returned = {}
    BY FS_EmptySet DEF Init, DepthInit
  <2> QED BY <2>1, <2>2, <2>3 DEF Init, DepthInit, DInv
<1>2. DInv /\ [Next]_vars => DInv'
  <2> SUFFICES ASSUME DInv, [Next]_vars PROVE DInv'
    OBVIOUS
  <2>n. Len(QueueChannels) \in Nat
    BY ChannelsAssumption
  <2>p. Pending \subseteq Jobs
    BY DEF DInv, Routed, Pending
  <2>1. CASE UNCHANGED <<status, channel, depthVars>>
    BY <2>1 DEF DInv, Routed, Owed, Pending, depthVars
  <2>2. CASE DepthCall
    <3>1. /\ UNCHANGED <<status, channel, at, total, returned, repeats>>
          /\ returned = {} /\ at = 1 /\ due' = PendingIn(QueueChannels[1])
          /\ steady' = Pending /\ ever' = Pending /\ dpc' = "scan" /\ dpc = "idle"
      BY <2>2 DEF DepthCall, DInv
    <3>2. Routed' /\ Pending' = Pending
      BY <3>1 DEF DInv, Routed, Pending
    <3>3. ASSUME NEW j \in steady' PROVE Owed(j)'
      <4>1. channel[j] \in Range(QueueChannels) /\ j \in Pending
        BY <2>p, <3>1, <3>3 DEF DInv, Routed
      <4>2. PICK i \in 1 .. Len(QueueChannels) : QueueChannels[i] = channel[j]
        <5>1. DOMAIN QueueChannels = 1 .. Len(QueueChannels)
          BY ChannelsAssumption
        <5> QED BY ONLY <4>1, <5>1 DEF Range
      <4>3. i = 1 => j \in due'
        BY <3>1, <4>1, <4>2 DEF PendingIn
      <4> QED BY <3>1, <4>2, <4>3 DEF Owed
    <3> QED BY <2>p, <3>1, <3>2, <3>3 DEF DInv
  <2>3. CASE DepthError
    BY <2>3 DEF DepthError, DInv, Routed, Pending
  <2>4. ASSUME NEW keys, DepthNext(keys) PROVE DInv'
    <3>1. /\ UNCHANGED <<status, channel, dpc, at, steady, ever>> /\ dpc = "scan"
          /\ returned' = returned \cup keys /\ due' = due \ keys
      BY <2>4 DEF DepthNext, Page
    <3>2. /\ total' = Cardinality(returned') + repeats' /\ repeats' \in Nat
          /\ keys \subseteq Pending
      BY <2>4, PageCounts, Zenon DEF DepthNext
    <3>3. Routed' /\ Pending' = Pending
      BY <3>1 DEF DInv, Routed, Pending
    <3>4. ASSUME NEW j \in steady' \ returned' PROVE Owed(j)'
      <4>1. Owed(j) /\ j \notin keys
        BY <3>1, <3>4 DEF DInv
      <4> QED BY <3>1, <4>1 DEF Owed
    <3> QED BY <3>1, <3>2, <3>3, <3>4 DEF DInv
  <2>5. ASSUME NEW keys, DepthLast(keys) PROVE DInv'
    <3>1. /\ UNCHANGED <<status, channel, steady, ever>> /\ dpc = "scan"
          /\ returned' = returned \cup keys /\ due \subseteq keys
      BY <2>5 DEF DepthLast, Page
    <3>2. /\ total' = Cardinality(returned') + repeats' /\ repeats' \in Nat
          /\ keys \subseteq Pending
      BY <2>5, PageCounts, Zenon DEF DepthLast
    <3>3. Routed' /\ Pending' = Pending
      BY <3>1 DEF DInv, Routed, Pending
    <3>4. ASSUME NEW j \in steady \ returned'
          PROVE  \E i \in at + 1 .. Len(QueueChannels) : QueueChannels[i] = channel[j]
      <4>1. Owed(j) /\ j \notin due
        BY <3>1, <3>4 DEF DInv
      <4> QED BY <2>n, <4>1 DEF Owed, DInv
    <3>5. CASE at = Len(QueueChannels) /\ dpc' = "done" /\ at' = at
      <4>1. steady \subseteq returned'
        BY <2>n, <3>4, <3>5
      <4> QED BY <3>1, <3>2, <3>3, <3>5, <4>1 DEF DInv
    <3>6. CASE /\ at # Len(QueueChannels) /\ dpc' = dpc /\ at' = at + 1
               /\ due' = PendingIn(QueueChannels[at + 1])
      <4>1. ASSUME NEW j \in steady \ returned' PROVE Owed(j)'
        <5>1. j \in Pending
          BY <4>1 DEF DInv
        <5>2. PICK i \in at + 1 .. Len(QueueChannels) : QueueChannels[i] = channel[j]
          BY <3>4, <4>1
        <5>3. i = at + 1 => j \in due'
          BY <3>6, <5>1, <5>2 DEF PendingIn
        <5> QED BY <3>1, <3>6, <5>2, <5>3 DEF Owed
      <4>2. at + 1 \in 1 .. Len(QueueChannels)
        BY <2>n, <3>6 DEF DInv
      <4> QED BY <3>1, <3>2, <3>3, <3>6, <4>1, <4>2 DEF DInv
    <3> QED BY <2>5, <3>5, <3>6 DEF DepthLast
  <2>6. CASE Elsewhere /\ Overtaken
    <3>1. /\ UNCHANGED <<dpc, at, total, returned, repeats>>
          /\ steady' = steady \cap Pending' /\ due' = due \cap Pending'
          /\ ever' = IF dpc = "scan" THEN ever \cup Pending' ELSE ever
      BY <2>6 DEF Overtaken
    <3>2. Routed'
      BY <2>6 DEF Elsewhere, Routed
    <3>3. Pending' \subseteq Jobs
      BY <3>2 DEF Routed, Pending
    <3>4. ASSUME dpc = "scan", NEW j \in steady' \ returned' PROVE Owed(j)'
      <4>1. Owed(j) /\ j \in Pending /\ j \in Pending' /\ j \in Jobs
        BY <2>p, <3>1, <3>4 DEF DInv
      <4>2. channel'[j] = channel[j]
        BY <2>6, <4>1 DEF Elsewhere, Pending
      <4> QED BY <3>1, <4>1, <4>2 DEF Owed
    <3> QED BY <3>1, <3>2, <3>3, <3>4 DEF DInv
  <2> QED BY <2>1, <2>2, <2>3, <2>4, <2>5, <2>6, HarnessStep DEF Depth
<1> QED BY <1>1, <1>2, PTL DEF Spec

\* A call of Depth that succeeds returns at least the number of jobs pending
\* all along, and at most the number pending at some time plus the keys SCAN
\* returned again.
THEOREM DepthIsBounded == Spec => []DepthBounds
<1>1. DInv => DepthBounds
  <2> SUFFICES ASSUME DInv, dpc = "done"
               PROVE  Cardinality(steady) <= total /\ total <= Cardinality(ever) + repeats
    BY DEF DepthBounds
  <2>1. /\ steady \subseteq returned /\ returned \subseteq ever /\ ever \subseteq Jobs
        /\ total = Cardinality(returned) + repeats /\ repeats \in Nat
    BY DEF DInv
  <2>2. /\ Cardinality(steady) <= Cardinality(returned)
        /\ Cardinality(returned) <= Cardinality(ever)
    BY <2>1, JobsFinite, FS_Subset
  <2>3. Cardinality(steady) \in Nat /\ Cardinality(returned) \in Nat /\ Cardinality(ever) \in Nat
    BY <2>1, JobsFinite
  <2> QED BY <2>1, <2>2, <2>3
<1> QED BY <1>1, DepthInvariant, PTL

-----------------------------------------------------------------------------
(* Stress *)

\* The goroutines whose step is in S.
Gors(S) == {i \in 1 .. MaxStress : gor[i] \in S}

Started == {"run", "release", "done", "ended"}
Tallied == {"release", "done", "ended"}
Waited == {"run", "release", "done"}
Slotted == {"run", "release"}

Before == {"boot", "rpc", "lookup", "register", "sleep", "seed"}
Loop == {"stress", "acquire"}
After == {"sampling", "blocked"}

StressType ==
    /\ flags \in Scenarios
    /\ DOMAIN status = Jobs
    /\ mpc \in Before \cup Loop \cup After
    /\ gor \in [1 .. MaxStress -> {"none"} \cup Started]
    /\ result \in [Dispatched : Nat, DispatchErrors : Nat, ConstructErrors : Nat]
    /\ wg \in Int /\ sem \in Int

\* How far the loop is.
Looped ==
    /\ mpc \in Before => Gors(Started) = {}
    /\ mpc \in Loop =>
           /\ next \in 1 .. flags.stress + 1
           /\ Gors(Started) = 1 .. next - 1
           /\ mpc = "acquire" => next <= flags.stress
    /\ mpc \in After => Gors(Started) = 1 .. flags.stress /\ Gors(Waited) = {}

\* What the counters count.
Counted ==
    /\ result.Dispatched + result.DispatchErrors + result.ConstructErrors = Cardinality(Gors(Tallied))
    /\ wg = Cardinality(Gors(Waited)) + (IF mpc = "acquire" THEN 1 ELSE 0)
    /\ sem = Cardinality(Gors(Slotted))

InRedis ==
    /\ result.Dispatched <= StoredStress
    /\ StoredStress <= result.Dispatched + result.DispatchErrors

Live == StressType /\ Looped /\ Counted /\ InRedis

\* A process that has exited is not followed any further.
SInv == mpc = "exited" \/ Live
-----------------------------------------------------------------------------
(* Counting *)

\* Every set of goroutines is finite.
LEMMA GorsFinite == \A S : IsFiniteSet(Gors(S)) /\ Cardinality(Gors(S)) \in Nat
<1> TAKE S
<1>1. IsFiniteSet(1 .. MaxStress)
  BY HarnessAssumption, FS_Interval
<1>2. Gors(S) \in SUBSET (1 .. MaxStress)
  BY DEF Gors
<1>3. IsFiniteSet(Gors(S))
  BY <1>1, <1>2, FS_Subset, Zenon
<1> QED BY <1>3, FS_CardinalityType

\* The stress jobs stored in redis are finitely many.
LEMMA StoredFinite ==
    LET stored == {j \in StressJobs : status[j] # "new"}
    IN  IsFiniteSet(stored) /\ Cardinality(stored) \in Nat
<1> DEFINE stored == {j \in StressJobs : status[j] # "new"}
<1>1. stored \in SUBSET Jobs
  BY DEF Jobs
<1>2. IsFiniteSet(stored)
  BY <1>1, HarnessAssumption, FS_Subset
<1> QED BY <1>2, FS_CardinalityType

\* Goroutine i leaves one step for another: a set of steps it enters counts
\* one more, one it leaves one less.
LEMMA GorMoves ==
    ASSUME StressType, NEW i \in 1 .. MaxStress, NEW to, gor' = [gor EXCEPT ![i] = to], NEW S
    PROVE  /\ gor[i] \notin S /\ to \in S =>
                  /\ Gors(S)' = Gors(S) \cup {i}
                  /\ Cardinality(Gors(S)') = Cardinality(Gors(S)) + 1
           /\ gor[i] \in S /\ to \notin S =>
                  /\ Gors(S)' = Gors(S) \ {i}
                  /\ Cardinality(Gors(S)') = Cardinality(Gors(S)) - 1
           /\ (gor[i] \in S <=> to \in S) => Gors(S)' = Gors(S)
<1>1. \A k \in 1 .. MaxStress : gor'[k] = IF k = i THEN to ELSE gor[k]
  BY DEF StressType
<1>2. gor[i] \notin S /\ to \in S => Gors(S)' = Gors(S) \cup {i} /\ i \notin Gors(S)
  BY <1>1 DEF Gors
<1>3. gor[i] \in S /\ to \notin S => Gors(S)' = Gors(S) \ {i} /\ i \in Gors(S)
  BY <1>1 DEF Gors
<1>4. (gor[i] \in S <=> to \in S) => Gors(S)' = Gors(S)
  BY <1>1 DEF Gors
<1> QED BY <1>2, <1>3, <1>4, GorsFinite, FS_AddElement, FS_RemoveElement

\* While no goroutine moves, nothing is counted differently.
LEMMA GorsStay == ASSUME UNCHANGED gor, NEW S PROVE Gors(S)' = Gors(S)
  BY DEF Gors
-----------------------------------------------------------------------------
(* Jobs in redis *)

\* A step that neither stores a stress job nor takes one back.
Quiet ==
    /\ DOMAIN status' = Jobs
    /\ \A j \in StressJobs : status'[j] # "new" <=> status[j] # "new"

\* Such a step leaves the number of stored stress jobs as it is.
LEMMA QuietStored == ASSUME Quiet PROVE StoredStress' = StoredStress
<1>1. {j \in StressJobs : status'[j] # "new"} = {j \in StressJobs : status[j] # "new"}
  BY DEF Quiet
<1> QED BY <1>1 DEF StoredStress

\* The jobs of Stress are told from the others by who dispatches them.
LEMMA FromStress == \A j \in StressJobs : j.from = "stress" /\ j \in Jobs
  BY DEF StressJobs, Jobs, Entry

\* Dispatch of any other job is such a step.
LEMMA StoredQuiet ==
    ASSUME StressType, NEW j, NEW name, Stored(j, name), j.from # "stress"
    PROVE  Quiet
  BY FromStress DEF StressType, Stored, Lifecycle!Move, Quiet

\* So is every move of a job that is in redis already.
LEMMA MovedQuiet ==
    ASSUME StressType,
           \/ UNCHANGED status
           \/ \E j, from, to : from # "new" /\ to # "new" /\ Lifecycle!Move(j, from, to)
    PROVE  Quiet
  BY FromStress DEF StressType, Lifecycle!Move, Quiet

\* A stress job that is stored was not there before.
LEMMA StoredCounts ==
    ASSUME StressType, NEW j \in StressJobs, NEW name, Stored(j, name)
    PROVE  DOMAIN status' = Jobs /\ StoredStress' = StoredStress + 1
<1> DEFINE stored == {k \in StressJobs : status[k] # "new"}
<1>1. status[j] = "new" /\ status' = [status EXCEPT ![j] = "pending"] /\ DOMAIN status = Jobs
  BY DEF Stored, Lifecycle!Move, StressType
<1>2. \A k \in StressJobs : status'[k] = IF k = j THEN "pending" ELSE status[k]
  BY <1>1, FromStress
<1>3. stored' = stored \cup {j} /\ j \notin stored
  BY <1>1, <1>2
<1>4. IsFiniteSet(stored)
  BY StoredFinite
<1>5. Cardinality(stored \cup {j}) = Cardinality(stored) + 1
  BY <1>3, <1>4, FS_AddElement
<1> QED BY <1>1, <1>3, <1>5 DEF StoredStress
-----------------------------------------------------------------------------
(* The invariant *)

\* Before the loop and between its steps, whatever the others do.
LEMMA Undisturbed ==
    ASSUME Live, Quiet, UNCHANGED <<flags, gor, wg, sem, result>>,
           \/ UNCHANGED <<mpc, next>>
           \/ mpc \in Before /\ mpc' \in Before
    PROVE  Live'
<1>1. StoredStress' = StoredStress
  BY QuietStored
<1>2. \A S : Gors(S)' = Gors(S)
  BY GorsStay
<1>3. StressType'
  BY DEF Live, StressType, Quiet
<1>4. Looped'
  BY <1>2 DEF Live, Looped, Before, Loop, After
<1>5. Counted'
  BY <1>2 DEF Live, Counted, Before
<1>6. InRedis'
  BY <1>1 DEF Live, InRedis
<1> QED BY <1>3, <1>4, <1>5, <1>6 DEF Live

\* main up to its call of Stress: it may store seeds and the sleep job.
LEMMA BeforeStress ==
    ASSUME Live,
           Bootstrap \/ StartRpc \/ LookupQueueService \/ RegisterAll \/ LongSleep \/ SeedAll
    PROVE  Live'
<1>1. UNCHANGED <<flags, gor, wg, sem, result>> /\ mpc \in Before /\ mpc' \in Before
  BY DEF Bootstrap, StartRpc, LookupQueueService, RegisterAll, LongSleep, SeedAll, Main, stressVars,
         Before
<1>2. StressType
  BY DEF Live
<1>3. ASSUME LongSleep PROVE Quiet
  <2>1. Entry("sleep", 0, NewSleepJob).from # "stress"
    BY DEF Entry
  <2> QED BY <1>2, <1>3, <2>1, StoredQuiet, MovedQuiet DEF LongSleep, MayStore, jobVars
<1>4. ASSUME SeedAll PROVE Quiet
  <2>1. Entry("seed", next, SeedEntries[next]).from # "stress"
    BY DEF Entry
  <2> QED BY <1>2, <1>4, <2>1, StoredQuiet, MovedQuiet DEF SeedAll, jobVars
<1>5. ASSUME UNCHANGED jobVars PROVE Quiet
  BY <1>2, <1>5, MovedQuiet DEF jobVars
<1>6. Quiet
  BY <1>3, <1>4, <1>5 DEF Bootstrap, StartRpc, LookupQueueService, RegisterAll
<1> QED BY <1>1, <1>6, Undisturbed

\* The loop of Stress, and its two waits.
LEMMA LoopSteps ==
    ASSUME Live, StressBegins \/ StressAdd \/ StressAcquire \/ StressWaited \/ StressReturn
    PROVE  Live'
<1>t. /\ StressType /\ flags' = flags /\ UNCHANGED <<status, result>>
      /\ flags.stress \in Int /\ flags.stress <= MaxStress /\ MaxStress \in Nat
  BY HarnessAssumption DEF Live, StressType, StressBegins, StressAdd, StressAcquire, StressWaited,
     StressReturn, Main, jobVars, stressVars
<1>q. StoredStress' = StoredStress /\ InRedis'
  <2>1. StoredStress' = StoredStress
    BY <1>t, MovedQuiet, QuietStored
  <2> QED BY <1>t, <2>1 DEF Live, InRedis
<1>g. UNCHANGED gor => \A S : Gors(S)' = Gors(S)
  BY GorsStay
<1>1. CASE StressBegins
  <2>1. /\ UNCHANGED <<gor, wg, sem>> /\ next' = 1 /\ mpc = "seed"
        /\ mpc' = IF flags.stress > 0 THEN "stress" ELSE "blocked"
    BY <1>1 DEF StressBegins, Main
  <2>2. Gors(Started) = {} /\ Gors(Waited) = {}
    BY <2>1 DEF Live, Looped, Before, Gors, Started, Waited
  <2>3. StressType'
    BY <1>t, <2>1 DEF StressType, Loop, After
  <2>4. Looped'
    <3>1. 1 .. next' - 1 = {} /\ (~(flags.stress > 0) => 1 .. flags.stress = {})
      BY <1>t, <2>1
    <3>2. next' \in Nat /\ (flags.stress > 0 => next' \in 1 .. flags.stress + 1)
      BY <1>t, <2>1
    <3> QED BY <1>t, <1>g, <2>1, <2>2, <3>1, <3>2, Zenon DEF Looped, Before, Loop, After
  <2>5. Counted'
    BY <1>t, <1>g, <2>1 DEF Live, Counted
  <2> QED BY <1>q, <2>3, <2>4, <2>5 DEF Live
<1>2. CASE StressAdd
  <2>1. /\ UNCHANGED <<gor, sem, next>> /\ wg' = wg + 1 /\ next <= flags.stress
        /\ mpc = "stress" /\ mpc' = "acquire"
    BY <1>2 DEF StressAdd, Main
  <2>2. StressType'
    BY <1>t, <2>1 DEF StressType, Loop
  <2>3. Looped'
    BY <1>t, <1>g, <2>1 DEF Live, Looped, Before, Loop, After
  <2>4. Counted'
    BY <1>t, <1>g, <2>1, GorsFinite DEF Live, Counted
  <2> QED BY <1>q, <2>2, <2>3, <2>4 DEF Live
<1>3. CASE StressAcquire
  <2>1. /\ wg' = wg /\ sem' = sem + 1 /\ gor' = [gor EXCEPT ![next] = "run"] /\ next' = next + 1
        /\ mpc = "acquire" /\ mpc' = "stress"
    BY <1>3 DEF StressAcquire, Main
  <2>2. /\ next \in 1 .. flags.stress /\ next \in 1 .. MaxStress
        /\ Gors(Started) = 1 .. next - 1
    BY <1>t, <2>1 DEF Live, Looped, Loop
  <2>3. gor[next] = "none"
    <3>1. next \notin Gors(Started)
      BY <2>2
    <3> QED BY <1>t, <2>2, <3>1 DEF Gors, StressType
  <2>i. PICK i \in 1 .. MaxStress : i = next
    BY <2>2
  <2>m. gor' = [gor EXCEPT ![i] = "run"] /\ gor[i] = "none"
    BY <2>1, <2>3, <2>i
  <2>s. Gors(Started)' = Gors(Started) \cup {i}
    BY <1>t, <2>m, GorMoves, Zenon DEF Started
  <2>4. /\ Gors(Tallied)' = Gors(Tallied)
        /\ Cardinality(Gors(Waited)') = Cardinality(Gors(Waited)) + 1
        /\ Cardinality(Gors(Slotted)') = Cardinality(Gors(Slotted)) + 1
    <3>1. Gors(Tallied)' = Gors(Tallied)
      <4>1. gor[i] \notin Tallied /\ "run" \notin Tallied
        BY <2>m DEF Tallied
      <4> QED BY <1>t, <2>m, <4>1, GorMoves, Zenon
    <3>2. Cardinality(Gors(Waited)') = Cardinality(Gors(Waited)) + 1
      BY <1>t, <2>m, GorMoves, Zenon DEF Waited
    <3>3. Cardinality(Gors(Slotted)') = Cardinality(Gors(Slotted)) + 1
      BY <1>t, <2>m, GorMoves, Zenon DEF Slotted
    <3> QED BY <3>1, <3>2, <3>3
  <2>5. StressType'
    <3>1. gor' \in [1 .. MaxStress -> {"none"} \cup Started]
      BY <1>t, <2>m DEF StressType, Started
    <3> QED BY <1>t, <2>1, <3>1 DEF StressType, Loop
  <2>6. Looped'
    BY <1>t, <2>1, <2>2, <2>i, <2>s DEF Looped, Before, Loop, After
  <2>7. Counted'
    BY <1>t, <2>1, <2>4, GorsFinite DEF Live, Counted
  <2> QED BY <1>q, <2>5, <2>6, <2>7 DEF Live
<1>4. CASE StressWaited
  <2>1. /\ UNCHANGED <<gor, wg, sem, next>> /\ next > flags.stress /\ wg = 0
        /\ mpc = "stress" /\ mpc' = "sampling"
    BY <1>4 DEF StressWaited, Main
  <2>2. Gors(Waited) = {}
    <3>1. Cardinality(Gors(Waited)) = 0
      BY <2>1, GorsFinite DEF Live, Counted
    <3> QED BY <3>1, GorsFinite, FS_EmptySet
  <2>3. Gors(Started) = 1 .. flags.stress
    BY <1>t, <2>1 DEF Live, Looped, Loop
  <2>4. StressType'
    BY <1>t, <2>1 DEF StressType, After
  <2>5. Looped'
    BY <1>t, <1>g, <2>1, <2>2, <2>3 DEF Looped, Before, Loop, After
  <2>6. Counted'
    BY <1>t, <1>g, <2>1 DEF Live, Counted
  <2> QED BY <1>q, <2>4, <2>5, <2>6 DEF Live
<1>5. CASE StressReturn
  <2>1. UNCHANGED <<gor, wg, sem, next>> /\ mpc = "sampling" /\ mpc' = "blocked"
    BY <1>5 DEF StressReturn, Main, stressVars
  <2>2. StressType'
    BY <1>t, <2>1 DEF StressType, After
  <2>3. Looped'
    BY <1>t, <1>g, <2>1 DEF Live, Looped, Before, Loop, After
  <2>4. Counted'
    BY <1>t, <1>g, <2>1 DEF Live, Counted
  <2> QED BY <1>q, <2>2, <2>3, <2>4 DEF Live
<1> QED BY <1>1, <1>2, <1>3, <1>4, <1>5

\* A goroutine tallies its job once, and counts as dispatched only what it
\* has stored.
LEMMA BodyTallies ==
    ASSUME Live, NEW i \in 1 .. flags.stress, StressDispatch(i)
    PROVE  /\ DOMAIN status' = Jobs
           /\ result' \in [Dispatched : Nat, DispatchErrors : Nat, ConstructErrors : Nat]
           /\ result'.Dispatched + result'.DispatchErrors + result'.ConstructErrors
                = result.Dispatched + result.DispatchErrors + result.ConstructErrors + 1
           /\ InRedis'
<1>t. StressType /\ InRedis
  BY DEF Live
<1>r. result \in [Dispatched : Nat, DispatchErrors : Nat, ConstructErrors : Nat]
  BY <1>t DEF StressType
<1>n. StoredStress \in Nat
  BY StoredFinite DEF StoredStress
<1>1. UNCHANGED jobVars => DOMAIN status' = Jobs /\ StoredStress' = StoredStress
  BY <1>t, MovedQuiet, QuietStored DEF jobVars, Quiet
<1>2. CASE Tally("ConstructErrors") /\ UNCHANGED jobVars
  BY <1>t, <1>r, <1>n, <1>1, <1>2 DEF Tally, InRedis
<1>3. ASSUME NEW job \in StressJobFor(Mode),
             LET j == Entry("stress", i, job) IN
                 \/ Stored(j, Bench) /\ Tally("Dispatched")
                 \/ MayStore(j, Bench) /\ Tally("DispatchErrors")
      PROVE  /\ DOMAIN status' = Jobs
             /\ result' \in [Dispatched : Nat, DispatchErrors : Nat, ConstructErrors : Nat]
             /\ result'.Dispatched + result'.DispatchErrors + result'.ConstructErrors
                  = result.Dispatched + result.DispatchErrors + result.ConstructErrors + 1
             /\ InRedis'
  <2>1. PICK j : j = Entry("stress", i, job)
    OBVIOUS
  <2>2. j \in StressJobs
    BY <1>t, <2>1 DEF StressJobs, StressType, Mode
  <2>3. Stored(j, Bench) => DOMAIN status' = Jobs /\ StoredStress' = StoredStress + 1
    BY <1>t, <2>2, StoredCounts
  <2>4. CASE Stored(j, Bench) /\ Tally("Dispatched")
    BY <1>t, <1>r, <1>n, <2>3, <2>4 DEF Tally, InRedis
  <2>5. CASE MayStore(j, Bench) /\ Tally("DispatchErrors")
    <3>1. DOMAIN status' = Jobs /\ StoredStress' \in {StoredStress, StoredStress + 1}
      BY <1>1, <2>3, <2>5 DEF MayStore
    <3> QED BY <1>t, <1>r, <1>n, <3>1, <2>5 DEF Tally, InRedis
  <2> QED BY <1>3, <2>1, <2>4, <2>5
<1> QED BY <1>2, <1>3 DEF StressDispatch

\* The goroutines of Stress.
LEMMA GoroutineSteps == ASSUME Live, NEW i \in 1 .. MaxStress, StressStep(i) PROVE Live'
<1>t. /\ StressType /\ UNCHANGED <<flags, mpc, next>>
      /\ flags.stress \in Int /\ flags.stress <= MaxStress /\ MaxStress \in Nat
  BY HarnessAssumption DEF Live, StressType, StressStep, StressBody, StressReleases, StressDone,
     mainVars
<1>s. gor[i] \in Waited
  BY DEF StressStep, StressBody, StressReleases, StressDone, Waited
<1>l. mpc \in Loop
  <2>1. i \in Gors(Started) /\ i \in Gors(Waited)
    BY <1>s DEF Gors, Started, Waited
  <2> QED BY <1>t, <2>1 DEF Live, Looped, StressType
<1>i. i \in 1 .. flags.stress
  <2>1. i \in Gors(Started)
    BY <1>s DEF Gors, Started, Waited
  <2> QED BY <1>t, <1>l, <2>1 DEF Live, Looped
<1>f. ASSUME NEW to \in Started, gor' = [gor EXCEPT ![i] = to]
      PROVE  gor' \in [1 .. MaxStress -> {"none"} \cup Started] /\ Gors(Started)' = Gors(Started)
  <2>1. gor[i] \in Started
    BY <1>s DEF Started, Waited
  <2>2. Gors(Started)' = Gors(Started)
    BY <1>t, <1>f, <2>1, GorMoves, Zenon
  <2> QED BY <1>t, <1>f, <2>2 DEF StressType
<1>o. Gors(Started)' = Gors(Started) => Looped'
  BY <1>t, <1>l DEF Live, Looped, Before, Loop, After
<1>1. CASE StressBody(i)
  <2>1. /\ gor[i] = "run" /\ gor' = [gor EXCEPT ![i] = "release"] /\ UNCHANGED <<wg, sem>>
        /\ StressDispatch(i)
    BY <1>1 DEF StressBody
  <2>2. /\ DOMAIN status' = Jobs
        /\ result' \in [Dispatched : Nat, DispatchErrors : Nat, ConstructErrors : Nat]
        /\ result'.Dispatched + result'.DispatchErrors + result'.ConstructErrors
             = result.Dispatched + result.DispatchErrors + result.ConstructErrors + 1
        /\ InRedis'
    BY <1>i, <2>1, BodyTallies
  <2>3. gor' \in [1 .. MaxStress -> {"none"} \cup Started] /\ Gors(Started)' = Gors(Started)
    BY <1>f, <2>1 DEF Started
  <2>4. Cardinality(Gors(Tallied)') = Cardinality(Gors(Tallied)) + 1
    BY <1>t, <2>1, GorMoves, Zenon DEF Tallied
  <2>5. Gors(Waited)' = Gors(Waited)
    BY <1>t, <2>1, GorMoves, Zenon DEF Waited
  <2>6. Gors(Slotted)' = Gors(Slotted)
    BY <1>t, <2>1, GorMoves, Zenon DEF Slotted
  <2>7. StressType'
    BY <1>t, <2>1, <2>2, <2>3 DEF StressType
  <2>8. Counted'
    BY <1>t, <2>1, <2>2, <2>4, <2>5, <2>6 DEF Live, Counted
  <2> QED BY <1>o, <2>2, <2>3, <2>7, <2>8 DEF Live
<1>u. ASSUME UNCHANGED jobVars, UNCHANGED result PROVE InRedis' /\ DOMAIN status' = Jobs
  <2>1. StoredStress' = StoredStress /\ DOMAIN status' = Jobs
    BY <1>t, <1>u, MovedQuiet, QuietStored DEF jobVars, Quiet
  <2> QED BY <1>u, <2>1 DEF Live, InRedis
<1>2. CASE StressReleases(i)
  <2>1. /\ gor[i] = "release" /\ gor' = [gor EXCEPT ![i] = "done"] /\ sem' = sem - 1
        /\ UNCHANGED <<wg, result>> /\ UNCHANGED jobVars
    BY <1>2 DEF StressReleases, StressRelease
  <2>2. gor' \in [1 .. MaxStress -> {"none"} \cup Started] /\ Gors(Started)' = Gors(Started)
    BY <1>f, <2>1 DEF Started
  <2>3. Gors(Tallied)' = Gors(Tallied)
    BY <1>t, <2>1, GorMoves, Zenon DEF Tallied
  <2>4. Gors(Waited)' = Gors(Waited)
    BY <1>t, <2>1, GorMoves, Zenon DEF Waited
  <2>5. Cardinality(Gors(Slotted)') = Cardinality(Gors(Slotted)) - 1
    <3>1. gor[i] \in Slotted /\ "done" \notin Slotted
      BY <2>1 DEF Slotted
    <3> QED BY <1>t, <2>1, <3>1, GorMoves, Zenon
  <2>6. StressType'
    BY <1>t, <1>u, <2>1, <2>2 DEF StressType
  <2>7. Counted'
    BY <1>t, <2>1, <2>3, <2>4, <2>5 DEF Live, Counted
  <2> QED BY <1>o, <1>u, <2>1, <2>2, <2>6, <2>7 DEF Live
<1>3. CASE StressDone(i)
  <2>1. /\ gor[i] = "done" /\ gor' = [gor EXCEPT ![i] = "ended"] /\ wg' = wg - 1
        /\ UNCHANGED <<sem, result>> /\ UNCHANGED jobVars
    BY <1>3 DEF StressDone
  <2>2. gor' \in [1 .. MaxStress -> {"none"} \cup Started] /\ Gors(Started)' = Gors(Started)
    BY <1>f, <2>1 DEF Started
  <2>3. Gors(Tallied)' = Gors(Tallied)
    BY <1>t, <2>1, GorMoves, Zenon DEF Tallied
  <2>4. Cardinality(Gors(Waited)') = Cardinality(Gors(Waited)) - 1
    <3>1. gor[i] \in Waited /\ "ended" \notin Waited
      BY <2>1 DEF Waited
    <3> QED BY <1>t, <2>1, <3>1, GorMoves, Zenon
  <2>5. Gors(Slotted)' = Gors(Slotted)
    <3>1. gor[i] \notin Slotted /\ "ended" \notin Slotted
      BY <2>1 DEF Slotted
    <3> QED BY <1>t, <2>1, <3>1, GorMoves, Zenon
  <2>6. StressType'
    BY <1>t, <1>u, <2>1, <2>2 DEF StressType
  <2>7. Counted'
    BY <1>t, <2>1, <2>3, <2>4, <2>5, GorsFinite DEF Live, Counted
  <2> QED BY <1>o, <1>u, <2>1, <2>2, <2>6, <2>7 DEF Live
<1> QED BY <1>1, <1>2, <1>3 DEF StressStep

\* The workers move jobs that are in redis already; clients store other jobs.
LEMMA OthersQuiet ==
    ASSUME Live, NEW j, NEW name, Worker(j) \/ ClientDispatch(j, name)
    PROVE  Quiet /\ UNCHANGED <<flags, gor, wg, sem, result, mpc, next>>
<1>t. StressType
  BY DEF Live
<1>1. UNCHANGED others
  BY Zenon DEF Worker, ClientDispatch, Claim, GiveBack, NoHandler, StartHandler, LoadCounter,
     StoreCounter, AddFlaky, AddAlwaysError, HandlerReturns
<1>2. CASE ClientDispatch(j, name)
  <2>1. Stored(j, name) /\ j.from # "stress"
    BY <1>2 DEF ClientDispatch
  <2> QED BY <1>t, <1>1, <2>1, StoredQuiet DEF others, mainVars, stressVars
<1>3. ASSUME Worker(j) PROVE Quiet
  <2>1. CASE UNCHANGED jobVars
    BY <1>t, <2>1, MovedQuiet DEF jobVars
  <2>2. CASE Claim(j) \/ GiveBack(j) \/ NoHandler(j) \/ StartHandler(j)
    BY <1>t, <2>2, MovedQuiet DEF Claim, GiveBack, NoHandler, StartHandler, Lifecycle!Run
  <2>3. CASE HandlerReturns(j)
    BY <1>t, <2>3, MovedQuiet DEF HandlerReturns, Lifecycle!Complete, Lifecycle!Retry,
       Lifecycle!Fail
  <2> QED BY <1>3, <2>1, <2>2, <2>3 DEF Worker, LoadCounter, StoreCounter, AddFlaky, AddAlwaysError
<1> QED BY <1>1, <1>2, <1>3 DEF others, mainVars, stressVars

\* The invariant holds at the start and at every step.
LEMMA StressInvariant == Spec => []SInv
<1>1. Init => SInv
  <2> SUFFICES ASSUME Init PROVE Live
    BY DEF SInv
  <2>1. \A S : "none" \notin S => Gors(S) = {}
    BY DEF Init, Gors
  <2>2. Cardinality(Gors(Tallied)) = 0 /\ Cardinality(Gors(Waited)) = 0 /\ Cardinality(Gors(Slotted)) = 0
    BY <2>1, FS_EmptySet DEF Tallied, Waited, Slotted
  <2>3. StressType
    BY DEF Init, StressType, Before
  <2>4. Looped
    BY <2>1 DEF Init, Looped, Before, Loop, After, Started
  <2>5. Counted
    BY <2>2 DEF Init, Counted
  <2>6. StoredStress = 0
    <3>1. \A j \in StressJobs : j \in Jobs /\ j \notin Left
      BY FromStress, HarnessAssumption
    <3>2. {j \in StressJobs : status[j] # "new"} = {}
      BY <3>1 DEF Init
    <3> QED BY <3>2, FS_EmptySet DEF StoredStress
  <2>7. InRedis
    BY <2>6 DEF Init, InRedis
  <2> QED BY <2>3, <2>4, <2>5, <2>7 DEF Live
<1>2. SInv /\ [Next]_vars => SInv'
  <2> SUFFICES ASSUME SInv, [Next]_vars PROVE mpc' = "exited" \/ Live'
    BY DEF SInv
  <2>1. CASE mpc = "exited"
    BY <2>1 DEF Next, Running, vars, mainVars
  <2>2. CASE Live
    <3>1. CASE MainStep
      BY <2>2, <3>1, BeforeStress, LoopSteps DEF MainStep
    <3>2. ASSUME NEW i \in 1 .. MaxStress, StressStep(i) PROVE Live'
      BY <2>2, <3>2, GoroutineSteps
    <3>3. ASSUME NEW j, NEW name, Worker(j) \/ ClientDispatch(j, name) PROVE Live'
      BY <2>2, <3>3, OthersQuiet, Undisturbed
    <3>4. CASE UNCHANGED <<status, flags, gor, wg, sem, result, mpc, next>>
      <4>1. Quiet
        BY <2>2, <3>4, MovedQuiet DEF Live
      <4> QED BY <2>2, <3>4, <4>1, Undisturbed
    <3>5. CASE Fatal \/ Exit
      BY <3>5 DEF Fatal, Exit
    <3>6. CASE SamplerEnds \/ Signal
      BY <3>4, <3>6 DEF SamplerEnds, Signal, jobVars, mainVars, stressVars
    <3>7. CASE Depth /\ UNCHANGED <<mainVars, stressVars>>
      BY <3>4, <3>7, Zenon DEF Depth, DepthCall, DepthError, DepthNext, DepthLast, mainVars, stressVars
    <3>8. CASE UNCHANGED vars
      BY <3>4, <3>8 DEF vars, jobVars, mainVars, stressVars
    <3> QED BY <3>1, <3>2, <3>3, <3>5, <3>6, <3>7, <3>8 DEF Next
  <2> QED BY <2>1, <2>2 DEF SInv
<1> QED BY <1>1, <1>2, PTL DEF Spec

\* When Stress waits for its sampler or has returned, it has tallied each of
\* its jobs once, no goroutine, WaitGroup count or semaphore slot is left, and
\* redis holds the jobs counted as dispatched and at most those in error.
THEOREM StressAccountsForAll == Spec => []StressAccounts
<1>1. SInv => StressAccounts
  <2> SUFFICES ASSUME SInv, mpc \in {"sampling", "blocked"}, flags.stress > 0
               PROVE  /\ result.Dispatched + result.DispatchErrors + result.ConstructErrors
                           = flags.stress
                      /\ wg = 0 /\ sem = 0
                      /\ result.Dispatched <= StoredStress
                      /\ StoredStress <= result.Dispatched + result.DispatchErrors
    BY DEF StressAccounts
  <2>1. Live /\ Gors(Started) = 1 .. flags.stress /\ Gors(Waited) = {}
    BY DEF SInv, Live, Looped, After
  <2>2. Gors(Tallied) = Gors(Started) /\ Gors(Slotted) = {}
    BY <2>1 DEF Gors, Tallied, Started, Waited, Slotted
  <2>3. flags.stress \in Int
    BY <2>1, HarnessAssumption DEF Live, StressType
  <2>4. Cardinality(Gors(Tallied)) = flags.stress
    BY <2>1, <2>2, <2>3, FS_Interval
  <2>5. Cardinality(Gors(Waited)) = 0 /\ Cardinality(Gors(Slotted)) = 0
    BY <2>1, <2>2, FS_EmptySet
  <2> QED BY <2>1, <2>4, <2>5 DEF Live, Counted, InRedis
<1> QED BY <1>1, StressInvariant, PTL

-----------------------------------------------------------------------------
(* Least numbers *)

\* A set of numbers that has a member has a least one, because the intervals
\* below its members are well-founded by inclusion.  What a recursive function
\* computes is proved with it, from a least counterexample.
LEMMA LeastNumber ==
    ASSUME NEW T \in SUBSET Nat, T # {}
    PROVE  \E m \in T : \A k \in T : m <= k
<1> DEFINE Below == {0 .. n : n \in T}
<1>1. Below \subseteq FiniteSubsetsOf(Nat)
  <2>1. \A n \in T : 0 .. n \in SUBSET Nat /\ IsFiniteSet(0 .. n)
    BY FS_Interval
  <2> QED BY <2>1 DEF FiniteSubsetsOf
<1>2. IsWellFoundedOn(StrictSubsetOrdering(Nat), FiniteSubsetsOf(Nat))
  BY FS_StrictSubsetOrderingWellFounded
<1>3. Below # {}
  BY Zenon
<1>4. PICK x \in Below : \A y \in Below : ~(<<y, x>> \in StrictSubsetOrdering(Nat))
  BY <1>1, <1>2, <1>3, WFMin, Zenon
<1>5. PICK m \in T : x = 0 .. m
  BY <1>4
<1>6. ASSUME NEW k \in T PROVE m <= k
  <2> SUFFICES ASSUME k < m PROVE FALSE
    OBVIOUS
  <2>1. /\ 0 .. k \subseteq 0 .. m /\ 0 .. k # 0 .. m
        /\ 0 .. k \in SUBSET Nat /\ 0 .. m \in SUBSET Nat
    <3>1. m \in 0 .. m /\ m \notin 0 .. k
      OBVIOUS
    <3> QED BY <3>1
  <2>2. <<0 .. k, 0 .. m>> \in StrictSubsetOrdering(Nat)
    BY <2>1, Zenon DEF StrictSubsetOrdering
  <2> QED BY <1>4, <1>5, <2>2, Zenon
<1> QED BY <1>6

-----------------------------------------------------------------------------
(* Routing *)

\* f is what RedisKeyspaceFormater computes for the first symbols of a name.
Formats(f, name, last) ==
    f = [n \in 0 .. last |->
            IF n = 0 THEN <<>>
            ELSE IF name[n] \in {":", ","} THEN f[n - 1]
            ELSE Append(f[n - 1], Formatted(name[n]))]

\* The formatter is defined for every name.
LEMMA FormatsExists == \A name : \A last \in Nat : \E f : Formats(f, name, last)
<1> TAKE name
<1> DEFINE T == {last \in Nat : ~\E f : Formats(f, name, last)}
<1> SUFFICES ASSUME T # {} PROVE FALSE
  OBVIOUS
<1>1. PICK m \in T : \A k \in T : m <= k
  BY LeastNumber, Zenon
<1>2. m # 0
  <2>1. \A n \in 0 .. 0 : n = 0
    OBVIOUS
  <2>2. \E f : Formats(f, name, 0)
    <3> WITNESS [n \in 0 .. 0 |-> <<>>]
    <3> QED BY <2>1, Zenon DEF Formats
  <2> QED BY <2>2
<1>3. PICK f : Formats(f, name, m - 1)
  BY <1>1, <1>2
<1> DEFINE last == IF name[m] \in {":", ","} THEN f[m - 1] ELSE Append(f[m - 1], Formatted(name[m]))
           g == [n \in 0 .. m |-> IF n = m THEN last ELSE f[n]]
<1>4. m - 1 \in Nat /\ \A n \in 0 .. m : n # m => n \in 0 .. m - 1
  BY <1>2
<1>5. ASSUME NEW n \in 0 .. m
      PROVE  g[n] = IF n = 0 THEN <<>>
                    ELSE IF name[n] \in {":", ","} THEN g[n - 1]
                    ELSE Append(g[n - 1], Formatted(name[n]))
  <2>1. n # 0 => n - 1 \in 0 .. m /\ n - 1 # m /\ g[n - 1] = f[n - 1]
    <3> HIDE DEF last
    <3> QED BY <1>4
  <2>2. CASE n = m
    BY <1>2, <2>1, <2>2
  <2>3. CASE n # m
    <3>1. g[n] = f[n] /\ n \in 0 .. m - 1
      BY <1>4, <2>3
    <3>2. f[n] = IF n = 0 THEN <<>>
                 ELSE IF name[n] \in {":", ","} THEN f[n - 1]
                 ELSE Append(f[n - 1], Formatted(name[n]))
      BY <1>3, <3>1 DEF Formats
    <3> QED BY <2>1, <3>1, <3>2
  <2> QED BY <2>2, <2>3
<1>6. Formats(g, name, m)
  BY <1>5 DEF Formats
<1> QED BY <1>6

\* No formatted name has the separator of the key in it.
LEMMA FormattedNames ==
    ASSUME NEW S, NEW name \in Seq(S)
    PROVE  LET c == RedisKeyspaceFormater(name)
           IN  (\E R : c \in Seq(R)) /\ \A i \in DOMAIN c : c[i] # ":"
<1> DEFINE first == CHOOSE f : Formats(f, name, Len(name))
<1>1. Formats(first, name, Len(name))
  BY FormatsExists
<1>2. RedisKeyspaceFormater(name) = first[Len(name)]
  BY DEF RedisKeyspaceFormater, Formats
<1> HIDE DEF first
<1> DEFINE R == {Formatted(name[n]) : n \in 1 .. Len(name)}
           T == {n \in 0 .. Len(name) : ~(/\ first[n] \in Seq(R)
                                         /\ \A i \in 1 .. Len(first[n]) : first[n][i] # ":")}
<1>3. T = {}
  <2> SUFFICES ASSUME T # {} PROVE FALSE
    BY Zenon
  <2>1. PICK m \in T : \A k \in T : m <= k
    <3>1. T \in SUBSET Nat
      OBVIOUS
    <3> QED BY <3>1, LeastNumber, Zenon
  <2>2. first[m] = IF m = 0 THEN <<>>
                   ELSE IF name[m] \in {":", ","} THEN first[m - 1]
                   ELSE Append(first[m - 1], Formatted(name[m]))
    BY <1>1 DEF Formats
  <2>3. m # 0
    <3>1. m = 0 => first[m] \in Seq(R) /\ Len(first[m]) = 0
      BY <2>2
    <3> QED BY <3>1
  <2>4. /\ first[m - 1] \in Seq(R)
        /\ \A i \in 1 .. Len(first[m - 1]) : first[m - 1][i] # ":"
    <3>1. m - 1 \in 0 .. Len(name) /\ m - 1 \notin T
      BY <2>1, <2>3
    <3> QED BY <3>1
  <2>5. CASE name[m] \in {":", ","}
    BY <2>2, <2>3, <2>4, <2>5
  <2>6. CASE name[m] \notin {":", ","}
    <3>1. Formatted(name[m]) \in R /\ Formatted(name[m]) # ":"
      <4>1. m \in 1 .. Len(name)
        BY <2>3
      <4>2. DOMAIN Lower = {"A", "B"} /\ Lower["A"] = "a" /\ Lower["B"] = "b"
        BY DEF Lower
      <4> QED BY <2>6, <4>1, <4>2 DEF Formatted
    <3>2. first[m] = Append(first[m - 1], Formatted(name[m]))
      BY <2>2, <2>3, <2>6
    <3> HIDE DEF R
    <3>3. /\ first[m] \in Seq(R)
          /\ \A i \in 1 .. Len(first[m]) : first[m][i] # ":"
      BY <2>4, <3>1, <3>2
    <3> QED BY <3>3
  <2> QED BY <2>5, <2>6
<1>4. /\ first[Len(name)] \in Seq(R)
      /\ \A i \in 1 .. Len(first[Len(name)]) : first[Len(name)][i] # ":"
  <2>1. Len(name) \in 0 .. Len(name)
    OBVIOUS
  <2> QED BY <1>3, <2>1, Zenon
<1> HIDE DEF R
<1>5. DOMAIN first[Len(name)] = 1 .. Len(first[Len(name)])
  BY <1>4
<1> QED BY <1>2, <1>4, <1>5

-----------------------------------------------------------------------------
(* Steps *)

\* From here on main dispatches jobs, itself or through Stress.
Calls == {"sleep", "seed"} \cup Loop \cup After

\* A Dispatch of this process or of a client.
Dispatches ==
    /\ mpc \in Calls
    /\ \E j : j \notin Left /\ \E name \in Names \cup {Bench} : Stored(j, name)
    /\ UNCHANGED handlerVars

\* Who is the dispatcher tells the jobs of this process from those left.
LEMMA NotLeft == \A from, i, job : from # "left" => Entry(from, i, job) \notin Left
  BY HarnessAssumption DEF Entry

\* A step dispatches a job, is a worker's, or leaves jobs and handlers alone.
LEMMA StepKinds ==
    ASSUME SInv, [Next]_vars
    PROVE  UNCHANGED <<jobVars, handlerVars>> \/ Dispatches \/ \E j \in Jobs : Worker(j)
<1> DEFINE Kind == UNCHANGED <<jobVars, handlerVars>> \/ Dispatches \/ \E j \in Jobs : Worker(j)
<1> SUFFICES Kind
  OBVIOUS
<1>s. ASSUME mpc \in Calls, NEW j, j \notin Left, NEW name \in Names \cup {Bench}, Stored(j, name),
             UNCHANGED handlerVars
      PROVE  Kind
  BY <1>s, Zenon DEF Dispatches
<1>1. CASE LongSleep
  <2>1. Entry("sleep", 0, NewSleepJob) \notin Left /\ Bench \in Names \cup {Bench} /\ mpc \in Calls
    BY <1>1, NotLeft DEF LongSleep, Main, Calls
  <2> QED BY <1>1, <1>s, <2>1 DEF LongSleep, MayStore
<1>2. CASE SeedAll
  <2>1. Entry("seed", next, SeedEntries[next]) \notin Left /\ Bench \in Names \cup {Bench} /\ mpc \in Calls
    BY <1>2, NotLeft DEF SeedAll, Main, Calls
  <2>2. UNCHANGED handlerVars
    BY <1>2 DEF SeedAll
  <2>3. Stored(Entry("seed", next, SeedEntries[next]), Bench) \/ UNCHANGED jobVars
    BY <1>2, Zenon DEF SeedAll
  <2> QED BY <1>s, <2>1, <2>2, <2>3
<1>3. ASSUME NEW i \in 1 .. MaxStress, StressStep(i), mpc # "exited" PROVE Kind
  <2>1. CASE StressBody(i)
    <3>1. mpc \in Loop
      <4>1. i \in Gors(Started) /\ i \in Gors(Waited) /\ Live
        BY <1>3, <2>1 DEF StressBody, Gors, Started, Waited, SInv
      <4> QED BY <4>1 DEF Live, Looped, StressType
    <3>2. ASSUME NEW job PROVE Entry("stress", i, job) \notin Left
      BY NotLeft
    <3>3. \/ UNCHANGED jobVars
          \/ \E job : Stored(Entry("stress", i, job), Bench)
      BY <2>1, Zenon DEF StressBody, StressDispatch, MayStore
    <3>4. UNCHANGED handlerVars
      BY <2>1 DEF StressBody
    <3>5. mpc \in Calls /\ Bench \in Names \cup {Bench}
      BY <3>1 DEF Calls
    <3> QED BY <1>s, <3>2, <3>3, <3>4, <3>5
  <2>2. CASE StressReleases(i) \/ StressDone(i)
    BY <2>2 DEF StressReleases, StressDone
  <2> QED BY <1>3, <2>1, <2>2 DEF StressStep
<1>4. ASSUME NEW j, NEW name \in Names, ClientDispatch(j, name) PROVE Kind
  <2>1. mpc \in Calls /\ Stored(j, name) /\ UNCHANGED handlerVars /\ j.from # "left"
    BY <1>4 DEF ClientDispatch, Calls, After
  <2>2. j \notin Left
    BY <2>1, HarnessAssumption
  <2> QED BY <1>s, <2>1, <2>2
<1>5. CASE \/ Bootstrap \/ StartRpc \/ LookupQueueService \/ RegisterAll
           \/ StressBegins \/ StressAdd \/ StressAcquire \/ StressWaited \/ StressReturn
           \/ Fatal \/ SamplerEnds \/ Signal \/ Exit
  BY <1>5, Zenon DEF Bootstrap, StartRpc, LookupQueueService, RegisterAll, StressBegins, StressAdd,
     StressAcquire, StressWaited, StressReturn, Fatal, SamplerEnds, Signal, Exit
<1>6. CASE Depth /\ UNCHANGED <<attempts, mainVars, stressVars, handlerVars>>
  BY <1>6, Zenon DEF Depth, DepthCall, DepthError, DepthNext, DepthLast, jobVars
<1>7. CASE UNCHANGED vars
  BY <1>7, Zenon DEF vars
<1> QED BY <1>1, <1>2, <1>3, <1>4, <1>5, <1>6, <1>7 DEF Next, MainStep

-----------------------------------------------------------------------------
(* Where jobs are routed *)

\* A channel a job is put on can be read out of its key again.
Routes ==
    /\ Routed
    /\ \A j \in Jobs : channel[j] = QueueChannelDefault \/ Claimable(channel[j])

\* A formatted name is read out of its key as it was put in.
LEMMA FormattedClaimable ==
    ASSUME NEW S, NEW name \in Seq(S) PROVE Claimable(RedisKeyspaceFormater(name))
<1>1. {i \in DOMAIN RedisKeyspaceFormater(name) : RedisKeyspaceFormater(name)[i] = ":"} = {}
  BY FormattedNames
<1> HIDE DEF RedisKeyspaceFormater
<1> QED BY <1>1, Zenon DEF Claimable, KeyQueue

\* So a job goes to the default channel or to one that can be read.
LEMMA RouteClaimable ==
    \A name \in Names \cup {Bench} : Route(name) = QueueChannelDefault \/ Claimable(Route(name))
<1> TAKE name \in Names \cup {Bench}
<1>1. \E S : name \in Seq(S)
  <2>1. Bench \in Seq({"j"})
    BY DEF Bench
  <2> QED BY <2>1, HarnessAssumption
<1>2. Claimable(RedisKeyspaceFormater(name))
  BY <1>1, FormattedClaimable
<1> QED BY <1>2, Zenon DEF Route

\* Every step keeps the jobs where they can be found.
LEMMA RoutesInvariant == Spec => []Routes
<1>1. Init => Routes
  BY ChannelsAssumption DEF Init, Routes, Routed
<1>2. SInv /\ Routes /\ [Next]_vars => Routes'
  <2> SUFFICES ASSUME SInv, Routes, [Next]_vars PROVE Routes'
    OBVIOUS
  <2>1. CASE UNCHANGED jobVars
    BY <2>1 DEF jobVars, Routes, Routed
  <2>2. ASSUME NEW j, NEW name \in Names \cup {Bench}, Stored(j, name) PROVE Routes'
    <3>1. /\ DOMAIN status' = Jobs /\ DOMAIN channel' = Jobs
          /\ \A k \in Jobs : channel'[k] \in {channel[k], Route(name)}
      BY <2>2 DEF Stored, Lifecycle!Move, Routes, Routed
    <3> QED BY <3>1, RouteClaimable, RouteConfigured DEF Routes, Routed
  <2>3. ASSUME NEW j \in Jobs, Worker(j) PROVE Routes'
    <3>1. UNCHANGED channel
      BY <2>3, Zenon DEF Worker, Claim, GiveBack, NoHandler, StartHandler, LoadCounter, StoreCounter,
         AddFlaky, AddAlwaysError, HandlerReturns, jobVars
    <3>2. Elsewhere
      BY <2>3, WorkerElsewhere DEF Routes
    <3> QED BY <3>1, <3>2 DEF Elsewhere, Routes, Routed
  <2> QED BY <2>1, <2>2, <2>3, StepKinds DEF Dispatches
<1> QED BY <1>1, <1>2, StressInvariant, PTL DEF Spec

\* Whatever name a client dispatches to, the scanner rebuilds the key of the
\* job, so that it can be claimed, if the default channel has no separator.
THEOREM RoutedJobsAreClaimable == Spec => []RoutedClaimable
<1>1. Routes => RoutedClaimable
  BY DEF Routes, RoutedClaimable
<1> QED BY <1>1, RoutesInvariant, PTL

-----------------------------------------------------------------------------
(* Types of main *)

\* The entries of SeedAll have the handlers of RegisterAll, one each.
LEMMA SeedNames ==
    /\ Len(SeedEntries) = 15 /\ Len(HandlerNames) = 15
    /\ \A i \in 1 .. 15 : SeedEntries[i].Name = HandlerNames[i]
    /\ \A i \in 1 .. 15 : i # 10 => HandlerNames[i] # "flaky-fail-then-succeed"
    /\ SeedEntries[10] = NewFailThenSucceedJob("flaky-1", 2)
<1>1. /\ NewFailThenSucceedJob("flaky-1", 2).Name = "flaky-fail-then-succeed"
      /\ NewIntermittentJob("flaky-2", 50).Name = "flaky-intermittent"
      /\ NewExhaustRetriesJob("flaky-3").Name = "flaky-exhaust-retries"
  BY Zenon DEF NewFailThenSucceedJob, NewIntermittentJob, NewExhaustRetriesJob, Job
<1>2. \A i \in 1 .. 15 : i \in {1, 2, 3, 4, 5, 6, 7, 8, 9, 10, 11, 12, 13, 14, 15}
  OBVIOUS
<1> QED BY <1>1, <1>2 DEF SeedEntries, HandlerNames, NewHelloJob, NewSumJob, NewCounterJob, NewSleepJob,
    NewBusyLoopJob, NewFanoutJob, NewAlwaysErrorJob, NewPanicJob, NewNilDerefJob, NewLargePayloadJob,
    NewUnicodeJob, NewNestedPayloadJob, Job

\* SeedAll has an error at most for each of the entries it has passed.
Seeding ==
    /\ errs \in Nat /\ next \in Nat /\ errs <= Cardinality(Seeded)
    /\ mpc \in Before \ {"seed"} => errs = 0
    /\ mpc = "seed" => /\ next \in Seeded \/ next > Len(SeedEntries)
                       /\ errs <= Cardinality({k \in Seeded : k < next})

\* What main, its goroutines and Depth are at.
MainType ==
    /\ flags \in Scenarios
    /\ channel \in [Jobs -> Range(QueueChannels)]
    /\ mpc \in Before \cup Loop \cup After \cup {"exited"}
    /\ spc \in {"none", "closing"} /\ sampler \in {"on", "stopping", "off"}
    /\ gor \in [1 .. MaxStress -> {"none"} \cup Started]
    /\ wg \in 0 .. flags.stress \/ wg = 0
    /\ sem \in 0 .. Concurrency
    /\ \A f \in DOMAIN result : result[f] \in 0 .. MaxStress
    /\ dpc \in {"idle", "scan", "done", "error"}

\* The entries of SeedAll that are dispatched are finitely many.
LEMMA SeededFinite ==
    /\ Seeded \subseteq Nat \ {0} /\ Len(SeedEntries) = 15
    /\ \A S : S \subseteq Seeded =>
           IsFiniteSet(S) /\ Cardinality(S) \in Nat /\ Cardinality(S) <= Cardinality(Seeded)
<1>1. Seeded \subseteq Nat \ {0} /\ Len(SeedEntries) = 15
  BY SeedNames, HarnessAssumption
<1>2. IsFiniteSet(Seeded)
  <2>1. PICK n \in Nat : n = Len(SeedEntries)
    BY <1>1
  <2>2. IsFiniteSet(1 .. n)
    BY FS_Interval
  <2> QED BY <2>1, <2>2, HarnessAssumption, FS_Subset, Zenon
<1> QED BY <1>1, <1>2, FS_Subset, FS_CardinalityType

\* The entry after i is one of them and is past i, or there is none left.
LEMMA FollowingIsNext ==
    ASSUME NEW i \in 0 .. 15
    PROVE  /\ Following(i) \in Nat /\ Following(i) > i
           /\ Following(i) \in Seeded \/ Following(i) > Len(SeedEntries)
<1> DEFINE rest == {k \in Seeded : k > i}
<1>1. CASE rest = {}
  BY <1>1, SeededFinite DEF Following
<1>2. CASE rest # {}
  <2>1. rest \in SUBSET Nat
    <3>1. Seeded \subseteq Nat \ {0}
      BY SeededFinite
    <3> QED BY <3>1, Zenon
  <2>2. \E m \in rest : \A k \in rest : m <= k
    BY <1>2, <2>1, LeastNumber, Zenon
  <2>3. Min(rest) \in rest
    BY <2>2 DEF Min
  <2>4. Following(i) = Min(rest)
    BY <1>2 DEF Following
  <2>5. Following(i) \in rest
    BY <2>3, <2>4
  <2> QED BY <2>1, <2>5
<1> QED BY <1>1, <1>2

\* SeedAll counts at most one error for an entry and goes on to the next.
LEMMA SeedingStep == ASSUME Seeding, MainType, [Next]_vars PROVE Seeding'
<1>n. Cardinality(Seeded) \in Nat /\ Len(SeedEntries) = 15
  BY SeededFinite
<1>1. CASE LongSleep
  <2>1. mpc = "sleep" /\ mpc' = "seed" /\ next' = FirstSeed /\ UNCHANGED errs
    BY <1>1 DEF LongSleep, Main
  <2>2. next' \in Nat /\ (next' \in Seeded \/ next' > Len(SeedEntries))
    BY <1>n, <2>1, FollowingIsNext DEF FirstSeed
  <2>3. errs = 0 /\ Cardinality({k \in Seeded : k < next'}) \in Nat
    BY <2>1, SeededFinite DEF Seeding, Before
  <2> QED BY <1>n, <2>1, <2>2, <2>3 DEF Seeding, Before
<1>2. CASE SeedAll
  <2>1. /\ mpc = "seed" /\ mpc' = "seed" /\ next <= Len(SeedEntries) /\ next' = Following(next)
        /\ errs' \in {errs, errs + 1}
    BY <1>2 DEF SeedAll, Main
  <2>2. next \in Seeded /\ next \in 0 .. 15 /\ errs <= Cardinality({k \in Seeded : k < next})
    BY <1>n, <2>1 DEF Seeding
  <2>3. next' \in Nat /\ next' > next /\ (next' \in Seeded \/ next' > Len(SeedEntries))
    BY <2>1, <2>2, FollowingIsNext, Zenon
  <2> DEFINE past == {k \in Seeded : k < next}
             passed == {k \in Seeded : k < next'}
  <2>4. Cardinality(past \cup {next}) = Cardinality(past) + 1 /\ Cardinality(past) \in Nat
    <3>1. past \subseteq Seeded /\ next \notin past
      BY <2>2
    <3>2. IsFiniteSet(past) /\ Cardinality(past) \in Nat
      BY <3>1, SeededFinite
    <3> QED BY <3>1, <3>2, FS_AddElement
  <2>5. past \cup {next} \subseteq passed
    <3>1. Seeded \subseteq Nat \ {0}
      BY SeededFinite
    <3>2. \A k \in Seeded : k < next => k < next'
      BY <2>2, <2>3, <3>1
    <3>3. next < next'
      BY <2>2, <2>3
    <3> QED BY <2>2, <3>2, <3>3, Zenon
  <2>6. /\ IsFiniteSet(passed) /\ Cardinality(passed) \in Nat
        /\ Cardinality(passed) <= Cardinality(Seeded)
    BY SeededFinite
  <2>7. Cardinality(past \cup {next}) <= Cardinality(passed)
    BY <2>5, <2>6, FS_Subset
  <2>8. errs' \in Nat /\ errs' <= Cardinality(passed)
    BY <2>1, <2>2, <2>4, <2>6, <2>7 DEF Seeding
  <2> HIDE DEF past, passed
  <2>9. errs' <= Cardinality(Seeded)
    BY <1>n, <2>6, <2>8
  <2> QED BY <2>1, <2>3, <2>8, <2>9 DEF Seeding, Before, passed
<1>3. CASE /\ UNCHANGED errs /\ next' \in Nat /\ mpc' # "seed"
           /\ mpc' \in Before => mpc \in Before \ {"seed"}
  BY <1>3 DEF Seeding
<1>4. CASE UNCHANGED <<errs, next, mpc>>
  BY <1>4 DEF Seeding
<1>5. CASE Bootstrap \/ StartRpc \/ LookupQueueService \/ RegisterAll \/ StressBegins \/ StressAdd
           \/ StressAcquire \/ StressWaited \/ StressReturn \/ Fatal \/ Exit
  <2>1. UNCHANGED errs /\ mpc' # "seed" /\ (mpc' \in Before => mpc \in Before \ {"seed"})
    BY <1>5 DEF Bootstrap, StartRpc, LookupQueueService, RegisterAll, StressBegins, StressAdd,
       StressAcquire, StressWaited, StressReturn, Fatal, Exit, Main, Before
  <2>2. next' \in {next, next + 1, 1}
    BY <1>5 DEF Bootstrap, StartRpc, LookupQueueService, RegisterAll, StressBegins, StressAdd,
       StressAcquire, StressWaited, StressReturn, Fatal, Exit, stressVars
  <2> QED BY <1>3, <2>1, <2>2 DEF Seeding
<1>6. ASSUME NEW i, StressStep(i) PROVE UNCHANGED <<errs, next, mpc>>
  BY <1>6, Zenon DEF StressStep, StressBody, StressReleases, StressDone, mainVars
<1>7. ASSUME NEW j, NEW name, Worker(j) \/ ClientDispatch(j, name) PROVE UNCHANGED <<errs, next, mpc>>
  BY <1>7, Zenon DEF Worker, ClientDispatch, Claim, GiveBack, NoHandler, StartHandler, LoadCounter,
     StoreCounter, AddFlaky, AddAlwaysError, HandlerReturns, others, mainVars, stressVars
<1>8. SamplerEnds \/ Signal \/ UNCHANGED vars \/ UNCHANGED <<mainVars, stressVars>>
        => UNCHANGED <<errs, next, mpc>>
  BY Zenon DEF SamplerEnds, Signal, vars, mainVars, stressVars
<1> QED BY <1>1, <1>2, <1>4, <1>5, <1>6, <1>7, <1>8 DEF Next, MainStep

\* What the goroutines of Stress count is within the flags.
Within ==
    \/ mpc = "exited"
    \/ /\ gor \in [1 .. MaxStress -> {"none"} \cup Started]
       /\ wg \in 0 .. flags.stress \/ wg = 0
       /\ sem \in Nat
       /\ \A f \in DOMAIN result : result[f] \in 0 .. MaxStress

\* It follows from what is counted.
LEMMA StressWithin == SInv => Within
<1> SUFFICES ASSUME Live PROVE Within
  BY DEF SInv, Within
<1>t. /\ StressType /\ Looped /\ Counted /\ MaxStress \in Nat /\ flags.stress \in Int
      /\ gor \in [1 .. MaxStress -> {"none"} \cup Started]
      /\ result \in [Dispatched : Nat, DispatchErrors : Nat, ConstructErrors : Nat]
  BY HarnessAssumption DEF Live, StressType
<1>c. /\ Cardinality(Gors(Waited)) \in Nat /\ Cardinality(Gors(Slotted)) \in Nat
      /\ Cardinality(Gors(Tallied)) \in Nat
  BY GorsFinite
<1>1. Cardinality(Gors(Tallied)) <= MaxStress
  <2>1. IsFiniteSet(1 .. MaxStress) /\ Cardinality(1 .. MaxStress) = MaxStress
    BY <1>t, FS_Interval
  <2>2. Gors(Tallied) \subseteq 1 .. MaxStress
    BY DEF Gors
  <2>3. Cardinality(Gors(Tallied)) <= Cardinality(1 .. MaxStress)
    BY <2>1, <2>2, FS_Subset, Zenon
  <2> QED BY <2>1, <2>3
<1>2. \A f \in DOMAIN result : result[f] \in 0 .. MaxStress
  <2>1. DOMAIN result = {"Dispatched", "DispatchErrors", "ConstructErrors"}
    BY <1>t
  <2>2. /\ result.Dispatched \in 0 .. MaxStress /\ result.DispatchErrors \in 0 .. MaxStress
        /\ result.ConstructErrors \in 0 .. MaxStress
    BY <1>t, <1>c, <1>1 DEF Counted
  <2> QED BY <2>1, <2>2
<1>3. Gors(Waited) \subseteq Gors(Started)
  BY DEF Gors, Waited, Started
<1>4. CASE mpc \in Before \cup After
  <2>1. Gors(Waited) = {}
    BY <1>t, <1>3, <1>4 DEF Looped
  <2>2. Cardinality(Gors(Waited)) = 0
    BY <2>1, FS_EmptySet
  <2>3. wg = 0
    BY <1>t, <1>4, <2>2 DEF Counted, Before, After
  <2> QED BY <1>t, <1>c, <1>2, <2>3 DEF Counted, Within
<1>5. CASE mpc \in Loop
  <2>1. PICK n \in Nat : n = next - 1 /\ n <= flags.stress /\ (mpc = "acquire" => n < flags.stress)
    BY <1>t, <1>5 DEF Looped
  <2>2. IsFiniteSet(1 .. n) /\ Cardinality(1 .. n) = n
    BY FS_Interval
  <2>3. Gors(Waited) \subseteq 1 .. n
    BY <1>t, <1>3, <1>5, <2>1 DEF Looped
  <2>4. Cardinality(Gors(Waited)) <= Cardinality(1 .. n)
    BY <2>2, <2>3, FS_Subset, Zenon
  <2>5. wg \in 0 .. flags.stress
    BY <1>t, <1>c, <2>1, <2>2, <2>4 DEF Counted
  <2> QED BY <1>t, <1>c, <1>2, <2>5 DEF Counted, Within
<1> QED BY <1>t, <1>4, <1>5 DEF StressType

\* How each step leaves the scalars of main, of the shutdown and of Depth.
LEMMA ScalarsStep ==
    ASSUME MainType, [Next]_vars
    PROVE  /\ UNCHANGED flags
           /\ mpc' \in Before \cup Loop \cup After \cup {"exited"}
           /\ spc' \in {"none", "closing"} /\ sampler' \in {"on", "stopping", "off"}
           /\ dpc' \in {"idle", "scan", "done", "error"}
           /\ mpc' = "exited" => UNCHANGED stressVars
           /\ sem' \in {sem, sem - 1} \/ (sem < Concurrency /\ sem' = sem + 1)
<1> DEFINE Goal == /\ UNCHANGED flags
                   /\ mpc' \in Before \cup Loop \cup After \cup {"exited"}
                   /\ spc' \in {"none", "closing"} /\ sampler' \in {"on", "stopping", "off"}
                   /\ mpc' = "exited" => UNCHANGED stressVars
                   /\ sem' \in {sem, sem - 1} \/ (sem < Concurrency /\ sem' = sem + 1)
<1>d. dpc' \in {"idle", "scan", "done", "error"}
  <2>1. CASE Depth
    BY <2>1, Zenon DEF MainType, Depth, DepthCall, DepthError, DepthNext, DepthLast
  <2>2. CASE UNCHANGED dpc
    BY <2>2 DEF MainType
  <2>3. Depth \/ UNCHANGED dpc
    BY Zenon DEF Next, Overtaken, vars, depthVars
  <2> QED BY <2>1, <2>2, <2>3
<1> SUFFICES Goal
  BY <1>d
<1>1. CASE UNCHANGED <<mainVars, stressVars>>
  BY <1>1 DEF MainType, mainVars, stressVars
<1>2. CASE Bootstrap \/ StartRpc \/ LookupQueueService \/ RegisterAll \/ StressReturn
  BY <1>2 DEF MainType, Bootstrap, StartRpc, LookupQueueService, RegisterAll, StressReturn, Main,
     stressVars, Before, Loop, After
<1>3. CASE LongSleep \/ SeedAll \/ StressBegins \/ StressAdd \/ StressWaited
  BY <1>3 DEF MainType, LongSleep, SeedAll, StressBegins, StressAdd, StressWaited, Main, Before, Loop,
     After
<1>4. CASE StressAcquire
  BY <1>4 DEF MainType, StressAcquire, Main, Before, Loop, After
<1>5. CASE Fatal \/ Exit \/ Signal
  BY <1>5 DEF MainType, Fatal, Exit, Signal, stressVars, Before, Loop, After
<1>6. ASSUME NEW i, StressStep(i), mpc # "exited" PROVE Goal
  <2>1. UNCHANGED mainVars /\ UNCHANGED sampler
    BY <1>6, Zenon DEF StressStep, StressBody, StressReleases, StressDone
  <2>2. sem' \in {sem, sem - 1}
    BY <1>6 DEF StressStep, StressBody, StressReleases, StressRelease, StressDone
  <2> QED BY <1>6, <2>1, <2>2 DEF MainType, mainVars
<1>7. CASE SamplerEnds /\ mpc # "exited"
  BY <1>7 DEF MainType, SamplerEnds, mainVars
<1>8. ASSUME NEW j, NEW name, Worker(j) \/ ClientDispatch(j, name) PROVE UNCHANGED <<mainVars, stressVars>>
  BY <1>8, Zenon DEF Worker, ClientDispatch, Claim, GiveBack, NoHandler, StartHandler, LoadCounter,
     StoreCounter, AddFlaky, AddAlwaysError, HandlerReturns, others
<1>9. UNCHANGED vars => UNCHANGED <<mainVars, stressVars>>
  BY Zenon DEF vars
<1> HIDE DEF Goal
<1> QED BY <1>1, <1>2, <1>3, <1>4, <1>5, <1>6, <1>7, <1>8, <1>9 DEF Next, MainStep

\* The types of main's state hold at every step.
LEMMA MainTypeStep ==
    ASSUME MainType, SInv, Within', [Next]_vars
    PROVE  MainType'
<1>1. /\ UNCHANGED flags /\ mpc' \in Before \cup Loop \cup After \cup {"exited"}
      /\ spc' \in {"none", "closing"} /\ sampler' \in {"on", "stopping", "off"}
      /\ dpc' \in {"idle", "scan", "done", "error"}
      /\ mpc' = "exited" => UNCHANGED stressVars
      /\ sem' \in {sem, sem - 1} \/ (sem < Concurrency /\ sem' = sem + 1)
  BY ScalarsStep
<1>2. channel' \in [Jobs -> Range(QueueChannels)]
  <2>1. Dispatches => \E j, name : channel' = [channel EXCEPT ![j] = Route(name)]
    BY Zenon DEF Dispatches, Stored
  <2>2. ASSUME NEW j, Worker(j) PROVE UNCHANGED channel
    BY <2>2, Zenon DEF Worker, Claim, GiveBack, NoHandler, StartHandler, LoadCounter, StoreCounter,
       AddFlaky, AddAlwaysError, HandlerReturns, jobVars
  <2>3. UNCHANGED channel \/ \E j, name : channel' = [channel EXCEPT ![j] = Route(name)]
    BY <2>1, <2>2, StepKinds DEF jobVars
  <2> QED BY <2>3, RouteConfigured DEF MainType
<1>3. Concurrency' = Concurrency /\ Concurrency \in Int
  BY <1>1, HarnessAssumption DEF Concurrency, MainType
<1>4. CASE mpc' = "exited"
  <2>1. UNCHANGED <<gor, wg, sem, result>>
    BY <1>1, <1>4 DEF stressVars
  <2> QED BY <1>1, <1>2, <1>3, <2>1 DEF MainType
<1>5. CASE mpc' # "exited"
  <2>1. /\ gor' \in [1 .. MaxStress -> {"none"} \cup Started]
        /\ wg' \in 0 .. flags'.stress \/ wg' = 0
        /\ sem' \in Nat
        /\ \A f \in DOMAIN result' : result'[f] \in 0 .. MaxStress
    BY <1>5 DEF Within
  <2>2. sem' \in 0 .. Concurrency'
    BY <1>1, <1>3, <2>1 DEF MainType
  <2> QED BY <1>1, <1>2, <2>1, <2>2 DEF MainType
<1> QED BY <1>4, <1>5

\* So main keeps its types.
LEMMA MainInvariant == Spec => [](MainType /\ Seeding)
<1>1. Init => MainType /\ Seeding
  <2> SUFFICES ASSUME Init PROVE MainType /\ Seeding
    OBVIOUS
  <2>1. MaxStress \in Nat /\ flags \in Scenarios /\ Concurrency \in Nat
    BY HarnessAssumption DEF Init, Concurrency
  <2>2. MainType
    <3>1. /\ channel \in [Jobs -> Range(QueueChannels)]
          /\ gor \in [1 .. MaxStress -> {"none"} \cup Started]
      BY ChannelsAssumption DEF Init
    <3>2. 0 \in 0 .. Concurrency /\ 0 \in 0 .. MaxStress
      BY <2>1
    <3>3. \A f \in DOMAIN result : result[f] \in 0 .. MaxStress
      BY <3>2 DEF Init
    <3>4. wg = 0 /\ sem = 0 /\ spc = "none" /\ sampler = "off" /\ dpc = "idle" /\ mpc \in Before
      BY DEF Init, DepthInit, Before
    <3> QED BY <2>1, <3>1, <3>2, <3>3, <3>4, Zenon DEF MainType
  <2>3. Seeding
    BY SeededFinite DEF Init, Seeding, Before
  <2> QED BY <2>2, <2>3
<1>2. SInv => Within
  BY StressWithin
<1>3. MainType /\ SInv /\ Within' /\ [Next]_vars => MainType'
  BY MainTypeStep
<1>4. Seeding /\ MainType /\ [Next]_vars => Seeding'
  BY SeedingStep
<1> QED BY <1>1, <1>2, <1>3, <1>4, StressInvariant, PTL DEF Spec
=============================================================================
