----------------------------- MODULE MCLifecycle ----------------------------
(* A small instance of Lifecycle. *)
EXTENDS Lifecycle

CONSTANTS qa, qb

\* qa may be configured with two redis workers and a timeout too short to
\* halve; qb with an unknown backend and a wrong type, or a negative size.
Maps == [q \in {qa, qb} |->
    IF q = qa
    THEN {[Backend |-> "redis", WorkerCount |-> 2, LockTimeout |-> 1, ReaperInterval |-> 5]}
    ELSE {[Backend |-> "nats", MaxAttempts |-> WrongType, QueueChannelDefault |-> "mail"],
          [HighWaterMark |-> -1]}]

EditedFile == [ZeroConfig EXCEPT !.Backend = "redis", !.WorkerCount = -1,
                                 !.LockTimeout = 20, !.ReaperInterval = 20]
=============================================================================
