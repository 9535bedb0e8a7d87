-------------------------- MODULE MCProviderRouter --------------------------
(***************************************************************************)
(* Instance of ProviderRouter for TLC: offers with estimates for 3D        *)
(* objects, of hunyuan, meshy and a provider whose name comes last, and of *)
(* hunyuan for images too.                                                 *)
(***************************************************************************)
EXTENDS ProviderRouter

Offer(id, cost, latency) ==
    [Builtin(id, "OBJECT_3D") EXCEPT !.health = "HEALTHY", !.cost = cost,
                                     !.latency = latency]

OffersMC ==
    {Offer(3, NULL, 1), Offer(3, 1, 1), Offer(4, 2, NULL), Offer(7, 1, 2),
     [Offer(7, NULL, 1) EXCEPT !.qualities = {"FAST", "BALANCED"}],
     [Builtin(3, "IMAGE_EDIT") EXCEPT !.cost = 1]}

AskedMC ==
    {[capability |-> "OBJECT_3D", quality |-> quality, cost |-> cost, latency |-> latency] :
       quality \in {"FAST", "BALANCED"}, cost \in {1, NULL}, latency \in {1, NULL}}
    \cup {[capability |-> "IMAGE_EDIT", quality |-> "HIGH", cost |-> NULL, latency |-> NULL]}
=============================================================================
