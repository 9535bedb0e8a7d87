-------------------------- MODULE MCWorkerRuntime --------------------------
\* Instances of WorkerRuntime for TLC. Each run chooses the jobs, the workers,
\* the commands and the faults.
EXTENDS WorkerRuntime, TLC

CONSTANTS w1, w2, u1, u2

OneJob == {1}
SecondJob == {2}
TwoJobs == {1, 2}
TwoWorkers == {w1, w2}
OneUser == {u1}
TwoUsers == {u1, u2}
None == {}

Symmetry == Permutations({w1, w2}) \cup Permutations({u1, u2})

\* All processes spawned by the first start of the Core, or one by each.
OneStart == [w \in Workers |-> 1]
TwoStarts == [w \in Workers |-> IF w = w1 THEN 1 ELSE 2]

\* The attempts of all jobs, or of one that may run once and one that may run twice.
TwoAttempts == [j \in Jobs |-> 2]
ThreeAttempts == [j \in Jobs |-> 3]
OnceAndTwice == [j \in Jobs |-> j]

NoCommands == {}
PauseOnly == {"PAUSE"}
AllCommands == {"PAUSE", "RESUME", "CANCEL"}

ExitAndStall == {"EXIT", "STALL"}
ExitAndCrash == {"EXIT", "CRASH"}

Completes == {"COMPLETED"}
CompletesOrNot == {"COMPLETED", "INVALID"}
AllOutcomes == {"COMPLETED", "INVALID", "FAILED"}
=============================================================================
