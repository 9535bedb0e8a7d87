SPECIFICATION Spec
CONSTANTS
    NULL = NULL
    acceptIt = acceptIt
    createIt = createIt
    importIt = importIt
    e1 = e1
    e2 = e2
    e3 = e3
    e4 = e4
    Commands <- OneImport
    Kind <- KindOf
    Calls <- TwoCalls
    Slow <- NotSlow
    Files = 2
    MaxCrashes = 1
INVARIANTS
    ImportedOnce
SYMMETRY CallSymmetry
CHECK_DEADLOCK FALSE
