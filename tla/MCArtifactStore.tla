-------------------------- MODULE MCArtifactStore --------------------------
(***************************************************************************)
(* Instance of ArtifactStore for TLC: a content that only ever comes from  *)
(* files beside one that also comes from memory, as a pasted picture and a *)
(* downloaded one do, and calls that race for both.                        *)
(***************************************************************************)
EXTENDS ArtifactStore, TLC

CONSTANTS c1, c2, h1, h2

CallsMC == {c1, c2}
HashesMC == {h1, h2}
FilesMC == {h1, h2}
BytesMC == {h2}

CallsAreAlike == Permutations(Calls)
=============================================================================
