--------------------------- MODULE MCProviderRuns ---------------------------
(***************************************************************************)
(* Instance of ProviderRuns for TLC: an asset (an edit, then a model of    *)
(* its image) beside a world whose files overlap with the asset's, or two  *)
(* sounds.                                                                 *)
(***************************************************************************)
EXTENDS ProviderRuns

CONSTANTS asset, sounds, world, image, mesh, sound, trimmed

GenerationsMC == {asset, sounds, world}
PlanMC == [g \in GenerationsMC |-> CASE g = asset -> <<"EDIT", "MODEL">>
                                     [] g = sounds -> <<"AUDIO", "AUDIO">>
                                     [] g = world -> <<"WORLD">>]
TogetherMC == {{asset, world}, {sounds}}
ImagesMC == {image}
ResultsMC == [k \in Kinds |-> CASE k = "EDIT" -> {{image}, {mesh}}
                                [] k = "MODEL" -> {{}, {mesh, image}}
                                [] k = "AUDIO" -> {{sound}}
                                [] k = "WORLD" -> {{}, {mesh, image}}]
=============================================================================
