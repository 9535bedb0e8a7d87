---------------------------- MODULE MCJobEngine ----------------------------
\* Instance of JobEngine for TLC: two tasks that call the engine on one job
\* with two workers.
EXTENDS JobEngine

CONSTANTS j1, w1, w2, c1, c2

MCJobs == {j1}
MCWorkers == {w1, w2}
MCCallers == {c1, c2}
MCAttemptLimits == {1, 2}

=============================================================================
