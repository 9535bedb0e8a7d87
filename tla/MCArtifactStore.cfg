\* Two calls that import two contents, in any interleaving, and two faults.
SPECIFICATION Spec

CONSTANTS
    c1 = c1
    c2 = c2
    h1 = h1
    h2 = h2
    Calls <- CallsMC
    Hashes <- HashesMC
    FromFiles <- FilesMC
    FromBytes <- BytesMC
    Types = {Other, Original, Normalized}
    OtherType = Other
    MaxFaults = 2
    NULL = NULL

SYMMETRY CallsAreAlike

INVARIANTS
    RenamedIsWhole
    PartialIsWritten

PROPERTIES
    TypeSettled
    FoundHasFile
