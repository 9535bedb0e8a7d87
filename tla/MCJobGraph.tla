---------------------------- MODULE MCJobGraph ----------------------------
\* Instance of JobGraph for TLC: three jobs of one world, two tasks that add
\* dependencies, one of which also resolves and resumes jobs.
EXTENDS JobGraph, TLC

CONSTANTS j1, j2, j3, a1, a2

ThreeJobs == {j1, j2, j3}
TwoAdders == {a1, a2}
OneResumer == {a2}
OneResolver == {a2}
MCWorkers == {}
SameWorld == [j \in JobIds |-> "world"]
JobSymmetry == Permutations(JobIds)
=============================================================================
