---------------------------- MODULE JobLifecycle ----------------------------
(***************************************************************************)
(* What either backend promises about a job, with no worker, key, channel  *)
(* or copy in sight: it waits, is held by a worker, runs, and ends in one  *)
(* outcome.  RedisQueue (while no lock expires) and MemoryQueue implement  *)
(* this specification, each under a mapping given there.                   *)
(***************************************************************************)
EXTENDS Naturals

CONSTANTS
    Jobs, RetryJobs,
    MaxAttempts

VARIABLES
    status,        \* where each job is
    attempts       \* how often its handler has been started

lvars == <<status, attempts>>

Statuses == {"new", "pending", "held", "running", "completed", "failed", "dropped"}

Init ==
    /\ status = [j \in Jobs |-> "new"]
    /\ attempts = [j \in Jobs |-> 0]

Move(j, from, to) ==
    /\ status[j] = from
    /\ status' = [status EXCEPT ![j] = to]

\* Dispatch, a claim and the return of a job that is not due run nothing.
Handle(j) ==
    /\ \/ Move(j, "new", "pending")
       \/ Move(j, "pending", "held")
       \/ Move(j, "held", "pending")
    /\ UNCHANGED attempts

\* One start of the handler for one claim.
Run(j) ==
    /\ Move(j, "held", "running")
    /\ attempts' = [attempts EXCEPT ![j] = @ + 1]

LastAttempt(j) == j \in RetryJobs => attempts[j] > MaxAttempts

\* A failed run is retried until the attempts are used up, and only then is
\* the job failed for good.
Retry(j) == Move(j, "running", "pending") /\ ~LastAttempt(j) /\ UNCHANGED attempts
Fail(j) == Move(j, "running", "failed") /\ LastAttempt(j) /\ UNCHANGED attempts
Complete(j) == Move(j, "running", "completed") /\ UNCHANGED attempts

\* A job nobody handles fails (redis) or is dropped (memory) without a run; so
\* is a send refused by a closed queue.
Abandon(j) ==
    /\ \/ Move(j, "held", "failed")
       \/ Move(j, "held", "dropped")
       \/ Move(j, "pending", "dropped")
    /\ UNCHANGED attempts

Next ==
    \E j \in Jobs : Handle(j) \/ Run(j) \/ Retry(j) \/ Fail(j) \/ Complete(j) \/ Abandon(j)

Spec == Init /\ [][Next]_lvars
=============================================================================
