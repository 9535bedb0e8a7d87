-------------------------- MODULE MCWorldRevisions --------------------------
\* Instance of WorldRevisions for TLC: two candidates of one world, validated,
\* accepted and rejected by two tasks each.
EXTENDS WorldRevisions

CONSTANTS k1, k2, a1, a2, v1, v2, x

MCWorlds == {x}
MCCandidates == {k1, k2}
MCWorldOf == [k \in MCCandidates |-> x]
MCAcceptors == {a1, a2}
MCValidators == {v1, v2}
=============================================================================
