SPECIFICATION Spec
CONSTANTS
    NULL = NULL
    j1 = j1
    w1 = w1
    w2 = w2
    c1 = c1
    c2 = c2
    Jobs <- MCJobs
    Workers <- MCWorkers
    Callers <- MCCallers
    AttemptLimits <- MCAttemptLimits
INVARIANTS
    TypeOK
    AssignedOnlyWhileActive
    AttemptWithinMax
PROPERTIES
    LifecycleSpec
