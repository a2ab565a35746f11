----------------------------- MODULE RedisState -----------------------------
(***************************************************************************)
(* The shared state of the redis backend: the four keyspaces               *)
(*     queues:<channel>:{pending,locked,completed,failed}:<job id>         *)
(* the failed_jobs table, and the package variable systemShutdown of each  *)
(* process.  A job id is unique (uuid), so a key is named by its keyspace  *)
(* and its job.  Every redis command is atomic; several in a row are not.  *)
(*                                                                         *)
(* A hash is a Job record with the fields some control decision reads.     *)
(* Times are relative: ReservedAt and LockedAt are ages in time units      *)
(* (capped at MaxAge, beyond every timeout), RetryAfter is the time to go  *)
(* until the gate opens.  The passage of time ages every copy of a job, in *)
(* redis and in the memory of workers and reapers (action Tick, in         *)
(* RedisQueue).                                                            *)
(***************************************************************************)
EXTENDS Naturals

CONSTANTS
    Jobs,          \* the jobs that may be dispatched, by id
    RetryJobs,     \* the jobs dispatched with Retry = true
    JobLockFor,    \* Job.LockFor of each job (0: use LockTimeout)
    Procs,         \* processes with a queue on this redis
    MaxAttempts,   \* Configuration.MaxAttempts
    LockTimeout,   \* Configuration.LockTimeout
    Backoff,       \* the five seconds of the retry delay, in time units
    MaxAge,        \* ages saturate here
    MaxCounter,    \* bound on RetryCounter (an int in the code)
    MaxRows,       \* failed_jobs rows of one job are counted up to here
    Unset,         \* the empty string: field absent or ""
    Garbage,       \* a timestamp time.Parse rejects
    NoKey          \* the key does not exist

ASSUME JobsAssumption ==
    /\ RetryJobs \subseteq Jobs
    /\ JobLockFor \in [Jobs -> Nat]
ASSUME BoundsAssumption ==
    /\ MaxAttempts \in Nat \ {0}
    /\ LockTimeout \in Nat \ {0}
    /\ Backoff \in Nat
    /\ MaxAge \in Nat
    /\ MaxCounter \in Nat
    /\ MaxRows \in Nat \ {0}
    /\ LockTimeout <= MaxAge
    /\ \A j \in Jobs : JobLockFor[j] <= MaxAge
ASSUME ValuesAssumption ==
    /\ Unset \notin Nat /\ Garbage \notin Nat /\ Unset # Garbage
    /\ Unset \notin Jobs

Ages == (0 .. MaxAge) \cup {Unset}

JobHash ==
    [ID : Jobs \cup {Unset}, Retry : BOOLEAN, RetryCounter : Nat, LockFor : Nat,
     ReservedAt : Ages, LockedAt : Ages, RetryAfter : Nat \cup {Unset, Garbage}]

ASSUME NoKeyAssumption == NoKey \notin JobHash

VARIABLES
    pending,         \* [Jobs -> JobHash or NoKey]
    locked,          \* [Jobs -> JobHash or NoKey]
    completed,       \* set of jobs whose completed key exists
    failed,          \* set of jobs whose failed key exists
    failedRows,      \* rows of each job in the failed_jobs table
    systemShutdown   \* package variable, one per process

keys == <<pending, locked, completed, failed>>
shared == <<keys, failedRows, systemShutdown>>

-----------------------------------------------------------------------------
(* What redis does with a key. *)

\* The Job that ScanStruct fills from the reply for a missing hash or from a
\* hash without these fields; also what a single-field HSET finds on a key
\* that does not exist, and then creates.
ZeroJob ==
    [ID |-> Unset, Retry |-> FALSE, RetryCounter |-> 0, LockFor |-> 0,
     ReservedAt |-> Unset, LockedAt |-> Unset, RetryAfter |-> Unset]

Fields(hash) == IF hash = NoKey THEN ZeroJob ELSE hash

\* EXISTS
Exists(keyspace, j) == keyspace[j] # NoKey

\* SCAN ... MATCH: any set of keys that exist now.  One page of the cursor
\* iteration may return any subset, and a later page may repeat a key.
ScanPages(keyspace) == SUBSET {j \in Jobs : Exists(keyspace, j)}

\* HSET key with a whole struct (AddFlat writes every field).
HSetPending(j, job) == pending' = [pending EXCEPT ![j] = job]
HSetLocked(j, job) == locked' = [locked EXCEPT ![j] = job]
Del(j) == locked' = [locked EXCEPT ![j] = NoKey]

\* Mutants: the claim copies the key; a failed job is only deleted.
CopyPendingLocked(j) ==
    /\ locked' = [locked EXCEPT ![j] = pending[j]]
    /\ UNCHANGED <<pending, completed, failed>>
DropLocked(j) ==
    /\ locked' = [locked EXCEPT ![j] = NoKey]
    /\ UNCHANGED <<pending, completed, failed>>

\* RENAME overwrites the target and fails on a missing source, so each user
\* guards it with Exists and treats the "no such key" reply.
RenamePendingLocked(j) ==
    /\ locked' = [locked EXCEPT ![j] = pending[j]]
    /\ pending' = [pending EXCEPT ![j] = NoKey]
    /\ UNCHANGED <<completed, failed>>
RenameLockedPending(j) ==
    /\ pending' = [pending EXCEPT ![j] = locked[j]]
    /\ locked' = [locked EXCEPT ![j] = NoKey]
    /\ UNCHANGED <<completed, failed>>
RenameLockedCompleted(j) ==
    /\ completed' = completed \cup {j}
    /\ locked' = [locked EXCEPT ![j] = NoKey]
    /\ UNCHANGED <<pending, failed>>
RenameLockedFailed(j) ==
    /\ failed' = failed \cup {j}
    /\ locked' = [locked EXCEPT ![j] = NoKey]
    /\ UNCHANGED <<pending, completed>>

\* INSERT INTO failed_jobs; an error is logged and dropped by every caller.
\* The id column is a UUID, so a job without one is always refused.
InsertFailedRow(j, job) ==
    \/ /\ job.ID # Unset
       /\ failedRows[j] < MaxRows
       /\ failedRows' = [failedRows EXCEPT ![j] = @ + 1]
    \/ UNCHANGED failedRows

-----------------------------------------------------------------------------
(* Time. *)

Older(age) == IF age \in 0 .. (MaxAge - 1) THEN age + 1 ELSE age
Nearer(gate) == IF gate \in Nat \ {0} THEN gate - 1 ELSE gate

Aged(hash) ==
    IF hash = NoKey THEN NoKey
    ELSE [hash EXCEPT !.ReservedAt = Older(@), !.LockedAt = Older(@), !.RetryAfter = Nearer(@)]
=============================================================================
