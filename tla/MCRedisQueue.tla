---------------------------- MODULE MCRedisQueue ----------------------------
(* Constant values for model checking RedisQueue. *)
EXTENDS RedisQueue

CONSTANTS j1, j2, w1, w2, p1, p2

AllJobs == {j1, j2}
OneJob == {j1}
NoLockFor == [j \in Jobs |-> 0]
ShortLockFor == [j \in Jobs |-> 1]
OneName == {"job"}
SameName == [j \in Jobs |-> "job"]
OneProcess == [w \in Workers |-> p1]
TwoProcesses == [w \in Workers |-> IF w = w1 THEN p1 ELSE p2]
Immediate == {0}
Delayed == {0, 1}
=============================================================================
