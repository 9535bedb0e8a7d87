SPECIFICATION Spec
CONSTANTS
    NULL = NULL
    w1 = w1
    w2 = w2
    u1 = u1
    u2 = u2
    Jobs <- TwoJobs
    Workers <- TwoWorkers
    Users <- TwoUsers
    Generation <- OneStart
    Idempotent <- OneJob
    BadInput <- SecondJob
    MaxAttempts <- ThreeAttempts
    Commands <- AllCommands
    MaxCommands = 4
    Outcomes <- AllOutcomes
    Faults <- None
    MaxStalls = 1
    MaxBoots = 1
INVARIANTS
    AttemptsAreStarts
    BusyForAReason
    ExecutedIsOwned
SYMMETRY Symmetry
