SPECIFICATION Spec
CONSTANTS
    NULL = NULL
    w1 = w1
    w2 = w2
    u1 = u1
    u2 = u2
    Jobs <- TwoJobs
    Workers <- TwoWorkers
    Users <- None
    Generation <- OneStart
    Idempotent <- OneJob
    BadInput <- None
    MaxAttempts <- TwoAttempts
    Commands <- NoCommands
    MaxCommands = 0
    Outcomes <- Completes
    Faults <- ExitAndStall
    MaxStalls = 2
    MaxBoots = 1
INVARIANTS
    IdleWorkerOwnsNothing
    OneJobPerWorker
    BusyForAReason
    NonIdempotentRunsOnce
    ExecutedIsOwned
SYMMETRY Symmetry
CHECK_DEADLOCK FALSE
