---------------------------- MODULE Configuration ---------------------------
(***************************************************************************)
(* The queue's configuration: the fields that decide something, their      *)
(* defaults, the embedded template and the list of channels a queue ends   *)
(* up with.  Debug only logs, and RedisPrefix is stored but never read.    *)
(***************************************************************************)
EXTENDS Integers, Sequences

CONSTANT Strings   \* the strings a configuration may hold

ASSUME StringsAssumption == {"", "memory", "redis", "job"} \subseteq Strings

Config ==
    [Backend : Strings, WorkerCount : Int, MaxAttempts : Int, HighWaterMark : Int,
     RedisScanInterval : Int, QueueChannels : Seq(Strings), QueueChannelDefault : Strings,
     LockTimeout : Int, ReaperInterval : Int]

\* Configuration{}, which is also what an empty YAML file parses to.
ZeroConfig ==
    [Backend |-> "", WorkerCount |-> 0, MaxAttempts |-> 0, HighWaterMark |-> 0,
     RedisScanInterval |-> 0, QueueChannels |-> <<>>, QueueChannelDefault |-> "",
     LockTimeout |-> 0, ReaperInterval |-> 0]

\* templates/queue.yml
Template ==
    [Backend |-> "memory", WorkerCount |-> 1, MaxAttempts |-> 3, HighWaterMark |-> 10000,
     RedisScanInterval |-> 1, QueueChannels |-> <<"job">>, QueueChannelDefault |-> "job",
     LockTimeout |-> 300, ReaperInterval |-> 30]

IfZero(n, default) == IF n = 0 THEN default ELSE n
IfNotPositive(n, default) == IF n <= 0 THEN default ELSE n

\* Mutant: the clamped interval may be zero.
ClampedToZero(interval, timeout) == IF interval >= timeout THEN timeout \div 2 ELSE interval

\* A reaper interval not below the lock timeout becomes half of it, at least 1.
Clamped(interval, timeout) ==
    IF interval < timeout THEN interval
    ELSE IF timeout \div 2 < 1 THEN 1 ELSE timeout \div 2

\* Mutant: another default than the template's.
SetConfigDefaultsOther(c) ==
    [c EXCEPT !.Backend = "memory", !.WorkerCount = 4, !.QueueChannelDefault = "job",
              !.LockTimeout = 300, !.ReaperInterval = 30]

SetConfigDefaults(c) ==
    [Backend |-> IF c.Backend = "redis" THEN "redis" ELSE "memory",
     WorkerCount |-> IfZero(c.WorkerCount, 1),
     MaxAttempts |-> IfZero(c.MaxAttempts, 3),
     HighWaterMark |-> IfZero(c.HighWaterMark, 10000),
     RedisScanInterval |-> IfZero(c.RedisScanInterval, 1),
     QueueChannels |-> c.QueueChannels,
     QueueChannelDefault |-> IF c.QueueChannelDefault = "" THEN "job" ELSE c.QueueChannelDefault,
     LockTimeout |-> IfNotPositive(c.LockTimeout, 300),
     ReaperInterval |-> Clamped(IfNotPositive(c.ReaperInterval, 30),
                                IfNotPositive(c.LockTimeout, 300))]

HasChannel(channels, name) == \E i \in DOMAIN channels : channels[i] = name

\* The default channel is appended to the configured ones if it is missing.
WithDefault(channels, default) ==
    IF HasChannel(channels, default) THEN channels ELSE Append(channels, default)

\* The queue's fields: the defaults filled in, and the list of channels.
BuildQueue(c) ==
    LET d == SetConfigDefaults(c)
    IN  [d EXCEPT !.QueueChannels = WithDefault(@, d.QueueChannelDefault)]
=============================================================================
