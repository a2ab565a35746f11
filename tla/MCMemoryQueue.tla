---------------------------- MODULE MCMemoryQueue ---------------------------
(* Small instances of MemoryQueue. *)
EXTENDS MemoryQueue

CONSTANTS j1, j2, j3, n1, n2, w1, w2

\* j1 is retried and its handler dispatches j2, whose handler waits for its
\* context if it is given one; j3 has an inline handler.
TheJobs == {j1, j2, j3}
NameOf == [j \in TheJobs |-> IF j = j2 THEN n2 ELSE n1]
DispatchAtOf == [j \in TheJobs |-> IF j = j2 THEN {"now", "garbage"}
                                 ELSE IF j = j1 THEN {"now", "future"} ELSE {"now"}]
ParentOf == [j \in TheJobs |-> IF j = j2 THEN j1 ELSE None]
=============================================================================
