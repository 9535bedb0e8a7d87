\* Every order of registrations and changes of health, from new and from with_builtins.
SPECIFICATION Spec

CONSTANTS
    NULL = NULL
    Offers <- OffersMC
    Reports = {"HEALTHY", "DEGRADED", "UNAVAILABLE"}
    Asked <- AskedMC

INVARIANTS
    OneEntry
    SelectsBest

PROPERTY OnlyTheChangedMoves
