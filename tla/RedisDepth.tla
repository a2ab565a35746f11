----------------------------- MODULE RedisDepth -----------------------------
(***************************************************************************)
(* Depth on the redis backend: one SCAN iteration after another over the   *)
(* pending keys of each configured channel, while workers claim jobs, give *)
(* them back and retry them and clients dispatch new ones.                 *)
(***************************************************************************)
EXTENDS Channels

CONSTANTS
    MaxRepeats     \* bound on the keys SCAN returns again

ASSUME DepthAssumption == MaxRepeats \in Nat

VARIABLES
    status, channel,      \* of every job: JobLifecycle's status, and its channel
    dpc, at, total,       \* step, channel index and sum of the call
    due,                  \* this iteration: the keys it owes the caller
    returned, repeats,    \* history of the call: the keys returned, how often again
    steady, ever          \* history: jobs pending all along, at some time

depthVars == <<dpc, at, total, due, returned, repeats, steady, ever>>

Pending == {j \in DOMAIN status : status[j] = "pending"}
PendingIn(c) == {j \in Pending : channel[j] = c}

DepthInit ==
    /\ dpc = "idle" /\ at = 1 /\ total = 0
    /\ due = {} /\ returned = {} /\ repeats = 0 /\ steady = {} /\ ever = {}

\* A pool whose connection works; otherwise Depth returns an error at once.
DepthCall ==
    /\ dpc = "idle"
    /\ dpc' = "scan"
    /\ due' = PendingIn(QueueChannels[1])
    /\ steady' = Pending /\ ever' = Pending
    /\ UNCHANGED <<status, channel, at, total, returned, repeats>>

\* SCAN returns any matching keys and ends with cursor 0 only after every key
\* that was there throughout the iteration; a key may come more than once.
Page(keys, last) ==
    /\ dpc = "scan"
    /\ keys \subseteq PendingIn(QueueChannels[at])
    /\ last => due \subseteq keys
    /\ repeats' = repeats + Cardinality(keys \cap returned)
    /\ repeats' <= MaxRepeats

\* Mutant: the call ends with its first page.
DepthNextCut(keys) ==
    /\ Page(keys, FALSE)
    /\ total' = total + Cardinality(keys)
    /\ dpc' = "done"
    /\ UNCHANGED <<status, channel, at, due, returned, steady, ever>>

DepthNext(keys) ==
    /\ Page(keys, FALSE)
    /\ total' = total + Cardinality(keys)
    /\ due' = due \ keys
    /\ returned' = returned \cup keys
    /\ UNCHANGED <<status, channel, dpc, at, steady, ever>>

\* Cursor 0: on to the next channel, or done.
DepthLast(keys) ==
    /\ Page(keys, TRUE)
    /\ total' = total + Cardinality(keys)
    /\ returned' = returned \cup keys
    /\ IF at = Len(QueueChannels)
       THEN dpc' = "done" /\ due' = {} /\ UNCHANGED at
       ELSE /\ at' = at + 1
            /\ due' = PendingIn(QueueChannels[at + 1])
            /\ UNCHANGED dpc
    /\ UNCHANGED <<status, channel, steady, ever>>

\* No pool, no connection, a SCAN that fails or a reply that does not parse.
DepthError ==
    /\ dpc \in {"idle", "scan"}
    /\ dpc' = "error"
    /\ total' = 0
    /\ UNCHANGED <<status, channel, at, due, returned, repeats, steady, ever>>

Depth ==
    \/ DepthCall \/ DepthError
    \/ dpc = "scan" /\ \E keys \in SUBSET PendingIn(QueueChannels[at]) : DepthNext(keys) \/ DepthLast(keys)

\* What a step of anybody else does to a call in progress.
Overtaken ==
    /\ steady' = steady \cap Pending'
    /\ ever' = IF dpc = "scan" THEN ever \cup Pending' ELSE ever
    /\ due' = due \cap Pending'
    /\ UNCHANGED <<dpc, at, total, returned, repeats>>
=============================================================================
