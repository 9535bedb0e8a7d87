SPECIFICATION Spec
CONSTANTS
    NULL = NULL
    k1 = k1
    k2 = k2
    a1 = a1
    a2 = a2
    v1 = v1
    v2 = v2
    x = x
    Worlds <- MCWorlds
    Candidates <- MCCandidates
    WorldOf <- MCWorldOf
    Acceptors <- MCAcceptors
    Validators <- MCValidators
    MaxValidations = 3
INVARIANTS
    LinearHistory
    AcceptedWasPassed
PROPERTIES
    HistorySpec
CHECK_DEADLOCK FALSE
