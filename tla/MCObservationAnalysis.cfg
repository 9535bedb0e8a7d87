\* Three images; a process dies, the Core stops, and one process is lost sight of.
SPECIFICATION FairSpec

CONSTANTS
    w1 = w1
    w2 = w2
    w3 = w3
    good = good
    bad = bad
    big = big
    NULL = NULL
    Workers = {w1, w2, w3}
    Observations = {good, bad, big}
    Raises <- RaisesMC
    Generation <- GenerationMC
    MaxBoots = 2
    MaxExits = 1
    MaxOverlaps = 1

INVARIANTS
    CompletedIsAnalysed
    PreviewIsWhole
    FailedForAReason

 

CHECK_DEADLOCK FALSE
