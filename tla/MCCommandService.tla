-------------------------- MODULE MCCommandService --------------------------
\* Instances of CommandService for TLC: any calls of a command that is done within
\* its lease and of two that may not be; and one import that is.
EXTENDS CommandService, TLC

CONSTANTS acceptIt, createIt, importIt, e1, e2, e3, e4

ThreeCommands == {acceptIt, createIt, importIt}
OneImport == {importIt}
KindOf == [c \in Commands |->
             CASE c = acceptIt -> "ACCEPT"
               [] c = createIt -> "CREATE_WORLD"
               [] c = importIt -> "IMPORT"]
SlowOnes == {createIt, importIt}
NotSlow == {}
FourCalls == {e1, e2, e3, e4}
TwoCalls == {e1, e2}
CallSymmetry == Permutations(Calls)
=============================================================================
