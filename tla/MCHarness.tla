------------------------------ MODULE MCHarness -----------------------------
(* A small instance of Harness. *)
EXTENDS Harness

\* --long-sleep, --seed-jobs, --stress-jobs, --stress-concurrency and
\* --stress-mode; jobs left by an earlier process; clients; a start-up that may
\* fail; a signal.
Plainly == [longSleep |-> FALSE, seed |-> FALSE, stress |-> 0, concurrency |-> 2, mode |-> "hello",
            left |-> FALSE, clients |-> FALSE, fails |-> FALSE, signal |-> FALSE]

CommandLines ==
    {[Plainly EXCEPT !.seed = TRUE],
     [Plainly EXCEPT !.seed = TRUE, !.left = TRUE, !.fails = TRUE],
     [Plainly EXCEPT !.longSleep = TRUE, !.clients = TRUE],
     [Plainly EXCEPT !.stress = 2, !.mode = "fail", !.signal = TRUE],
     [Plainly EXCEPT !.stress = 2, !.mode = "mixed", !.concurrency = 1],
     [Plainly EXCEPT !.stress = 3, !.mode = "chaos"],
     [Plainly EXCEPT !.stress = 2, !.mode = "", !.concurrency = 0]}

\* An earlier run of queuebench --seed-jobs left a job with the ID that the
\* seeding uses again.
Earlier == {Entry("left", 1, NewFailThenSucceedJob("flaky-1", 2))}

Channel == << <<"j">>, <<"b">>, <<"a", ":">>, <<"B">> >>
Default == <<"j">>
ClientNames == UNION {[1 .. n -> {"a", "b", "A", "B", ":", ",", " "}] : n \in 0 .. 2}
=============================================================================
