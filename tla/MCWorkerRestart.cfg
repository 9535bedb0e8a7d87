SPECIFICATION FairSpec
CONSTANTS
    NULL = NULL
    w1 = w1
    w2 = w2
    u1 = u1
    u2 = u2
    Jobs <- TwoJobs
    Workers <- TwoWorkers
    Users <- OneUser
    Generation <- TwoStarts
    Idempotent <- TwoJobs
    BadInput <- None
    MaxAttempts <- OnceAndTwice
    Commands <- PauseOnly
    MaxCommands = 1
    Outcomes <- CompletesOrNot
    Faults <- ExitAndCrash
    MaxStalls = 1
    MaxBoots = 2
INVARIANTS
    RunningSinceBoot
PROPERTIES
    DeadLoseTheirJobs
    JobsFinish
CHECK_DEADLOCK FALSE
