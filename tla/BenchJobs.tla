------------------------------ MODULE BenchJobs -----------------------------
(***************************************************************************)
(* The sample jobs of internal/bench/benchjobs: what each constructor      *)
(* builds (NoJob for its error) and the results each handler may return.   *)
(* A panic is a result too: the queue recovers it.  Of a payload only what *)
(* decides a result is kept, and a success probability is in percent.      *)
(***************************************************************************)
EXTENDS Integers, Sequences

CONSTANTS
    Malformed      \* a payload that is not the JSON the handler expects

Plain == [ID |-> ""]
NoJob == [Name |-> "", Payload |-> Plain, Retry |-> FALSE]
Job(name, payload, retry) == [Name |-> name, Payload |-> payload, Retry |-> retry]

\* Every handler returns an error for a payload it cannot decode.
Decoded(p, results) == IF p = Malformed THEN {"error"} ELSE results

NewHelloJob == Job("hello-world", Plain, FALSE)
HelloHandler(p) == Decoded(p, {"ok"})

NewSumJob == Job("simple-sum", Plain, FALSE)
SumHandler(p) == Decoded(p, {"ok"})

NewCounterJob == Job("simple-counter", Plain, FALSE)
CounterHandler(p) == Decoded(p, {"ok"})

NewSleepJob == Job("slow-sleep", Plain, FALSE)
SleepHandler(p) == Decoded(p, {"ok"})

NewBusyLoopJob == Job("slow-busy-loop", Plain, FALSE)
BusyLoopHandler(p) == Decoded(p, {"ok"})

\* wg.Add of a negative count panics.
NewFanoutJob(workers) == Job("slow-fanout", [Workers |-> workers], FALSE)
FanoutHandler(p) == Decoded(p, IF p.Workers < 0 THEN {"panic"} ELSE {"ok"})

NewAlwaysErrorJob == Job("fail-error", Plain, TRUE)
AlwaysErrorHandler(p) == {"error"}

NewPanicJob == Job("fail-panic", Plain, FALSE)
PanicHandler(p) == Decoded(p, {"panic"})

NewNilDerefJob == Job("fail-nil-deref", Plain, FALSE)
NilDerefHandler(p) == {"panic"}

NewLargePayloadJob == Job("payload-large", Plain, FALSE)
LargePayloadHandler(p) == Decoded(p, {"ok"})

NewUnicodeJob == Job("payload-unicode", Plain, FALSE)
UnicodeHandler(p) == Decoded(p, {"ok"})

NewNestedPayloadJob == Job("payload-nested", Plain, FALSE)
NestedHandler(p) == Decoded(p, {"ok"})

-----------------------------------------------------------------------------
(* The flaky jobs count their attempts in the process, by the ID in the
   payload. *)

Flaky == {"flaky-fail-then-succeed", "flaky-intermittent", "flaky-exhaust-retries"}

\* The handler reaches its counter.
Counts(job) ==
    /\ job.Payload # Malformed
    /\ job.Name \in Flaky => job.Payload.ID # ""
    /\ job.Name \in Flaky \cup {"fail-error"}

NewFailThenSucceedJob(id, failTimes) ==
    IF id = "" THEN NoJob
    ELSE Job("flaky-fail-then-succeed", [ID |-> id, FailTimes |-> failTimes], TRUE)

FailThenSucceedHandler(p, attempt) ==
    Decoded(p, IF p.ID = "" \/ attempt <= p.FailTimes THEN {"error"} ELSE {"ok"})

NewIntermittentJob(id, percent) ==
    IF id = "" THEN NoJob
    ELSE Job("flaky-intermittent",
             [ID |-> id, P |-> IF percent < 0 THEN 0 ELSE IF percent > 100 THEN 100 ELSE percent],
             TRUE)

\* rand.Float64() is below 1 and may be 0.
IntermittentHandler(p) ==
    Decoded(p, IF p.ID = "" \/ p.P = 0 THEN {"error"}
               ELSE IF p.P = 100 THEN {"ok"} ELSE {"ok", "error"})

NewExhaustRetriesJob(id) ==
    IF id = "" THEN NoJob ELSE Job("flaky-exhaust-retries", [ID |-> id], TRUE)

ExhaustRetriesHandler(p) == {"error"}

-----------------------------------------------------------------------------
\* The order in which RegisterAll registers the handlers.
HandlerNames ==
    <<"hello-world", "simple-sum", "simple-counter", "slow-sleep", "slow-busy-loop",
      "slow-fanout", "fail-error", "fail-panic", "fail-nil-deref", "flaky-fail-then-succeed",
      "flaky-intermittent", "flaky-exhaust-retries", "payload-large", "payload-unicode",
      "payload-nested">>

\* What the handler registered for a name may return on its n-th counted attempt.
Results(job, n) ==
    LET p == job.Payload IN
    CASE job.Name = "hello-world" -> HelloHandler(p)
      [] job.Name = "simple-sum" -> SumHandler(p)
      [] job.Name = "simple-counter" -> CounterHandler(p)
      [] job.Name = "slow-sleep" -> SleepHandler(p)
      [] job.Name = "slow-busy-loop" -> BusyLoopHandler(p)
      [] job.Name = "slow-fanout" -> FanoutHandler(p)
      [] job.Name = "fail-error" -> AlwaysErrorHandler(p)
      [] job.Name = "fail-panic" -> PanicHandler(p)
      [] job.Name = "fail-nil-deref" -> NilDerefHandler(p)
      [] job.Name = "flaky-fail-then-succeed" -> FailThenSucceedHandler(p, n)
      [] job.Name = "flaky-intermittent" -> IntermittentHandler(p)
      [] job.Name = "flaky-exhaust-retries" -> ExhaustRetriesHandler(p)
      [] job.Name = "payload-large" -> LargePayloadHandler(p)
      [] job.Name = "payload-unicode" -> UnicodeHandler(p)
      [] job.Name = "payload-nested" -> NestedHandler(p)

\* The fifteen entries of seedAll.
SeedEntries ==
    <<NewHelloJob, NewSumJob, NewCounterJob, NewSleepJob, NewBusyLoopJob, NewFanoutJob(5),
      NewAlwaysErrorJob, NewPanicJob, NewNilDerefJob, NewFailThenSucceedJob("flaky-1", 2),
      NewIntermittentJob("flaky-2", 50), NewExhaustRetriesJob("flaky-3"), NewLargePayloadJob,
      NewUnicodeJob, NewNestedPayloadJob>>

\* The jobs a stress run of a mode may build; none for an unknown mode.
StressJobFor(mode) ==
    CASE mode = "hello" -> {NewHelloJob}
      [] mode = "fail" -> {NewAlwaysErrorJob}
      [] mode = "mixed" -> {NewHelloJob, NewSleepJob, NewAlwaysErrorJob, NewPanicJob, NewBusyLoopJob}
      [] OTHER -> {}
=============================================================================
