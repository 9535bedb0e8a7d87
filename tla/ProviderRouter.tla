--------------------------- MODULE ProviderRouter ---------------------------
(***************************************************************************)
(* The table of provider capabilities in src/core/src/provider_router.rs   *)
(* and the choice of a provider for a request. A provider is a number, in  *)
(* the order of the names; a missing estimate is NULL; models, versions    *)
(* and metadata, which no decision looks at, are left out.                 *)
(***************************************************************************)
EXTENDS Naturals, Sequences

CONSTANTS NULL,
          Offers,    \* SUBSET Entries: what may be registered beside the built-in entries
          Reports,   \* SUBSET Healths: what set_health may be told
          Asked      \* SUBSET Requests: what may be asked for

Capabilities == {"IMAGE_EDIT", "OBJECT_3D", "WORLD_COMPLETION", "DEPTH", "SEGMENTATION",
                 "IMAGE_EMBEDDING", "FEATURE_MATCHING", "TEXTURE", "AUDIO",
                 "ASSOCIATIVE_REASONING", "SCENE_HYPOTHESIS", "VERIFICATION_QUESTION",
                 "CHARACTER", "MOTION", "RELIGHTING"}

Healths == {"HEALTHY", "DEGRADED", "RATE_LIMITED", "AUTH_ERROR", "UNAVAILABLE"}

Profiles == {"FAST", "BALANCED", "HIGH", "MAX"}

Optional(S) == S \cup {NULL}

Entries == [id : Nat, capability : Capabilities, health : Healths,
            qualities : SUBSET Profiles, cost : Optional(Nat), latency : Optional(Nat)]

Requests == [capability : Capabilities, quality : Profiles,
             cost : Optional(Nat), latency : Optional(Nat)]

ASSUME NullAssumption == NULL \notin Nat /\ NULL \notin Entries
ASSUME OffersAssumption == Offers \subseteq Entries /\ Reports \subseteq Healths
ASSUME AskedAssumption == Asked \subseteq Requests

VARIABLE providers   \* Seq(Entries)

Builtin(id, capability) ==
    [id |-> id, capability |-> capability, health |-> "DEGRADED",
     qualities |-> {"BALANCED", "HIGH"}, cost |-> NULL, latency |-> NULL]

\* 1 is elevenlabs-sfx, 2 gpt-image-2, 3 hunyuan, 4 meshy, 5 nano-banana, 6 world-labs.
builtin_provider_capabilities ==
    <<Builtin(3, "OBJECT_3D"), Builtin(4, "OBJECT_3D"), Builtin(6, "WORLD_COMPLETION"),
      Builtin(2, "IMAGE_EDIT"), Builtin(5, "IMAGE_EDIT"), Builtin(1, "AUDIO")>>

\* A router starts empty (new) or with_builtins.
Init == providers \in {<<>>, builtin_provider_capabilities}

SameKey(p, q) == p.id = q.id /\ p.capability = q.capability

IsFirst(i, key) ==
    /\ i \in DOMAIN providers /\ SameKey(providers[i], key)
    /\ \A j \in DOMAIN providers : SameKey(providers[j], key) => i <= j

\* Mutant of upsert: an entry that is there is not looked for.
upsert_push(offer) == providers' = Append(providers, offer)

\* The first entry of the provider and capability is replaced, its health too.
upsert(offer) ==
    \/ \E i \in DOMAIN providers :
         IsFirst(i, offer) /\ providers' = [providers EXCEPT ![i] = offer]
    \/ /\ \A i \in DOMAIN providers : ~SameKey(providers[i], offer)
       /\ providers' = Append(providers, offer)

\* An entry that is not registered is an error.
set_health(key, health) ==
    \E i \in DOMAIN providers :
      IsFirst(i, key) /\ providers' = [providers EXCEPT ![i].health = health]
-----------------------------------------------------------------------------
(* select *)

\* Mutant of WithinBudget: without an estimate there is nothing to object to.
WithinBudgetUnlessKnown(estimate, budget) ==
    budget = NULL \/ estimate = NULL \/ estimate <= budget

WithinBudget(estimate, budget) ==
    budget = NULL \/ (estimate # NULL /\ estimate <= budget)

\* The filters.
Satisfies(p, q) ==
    /\ p.capability = q.capability
    /\ p.health \in {"HEALTHY", "DEGRADED"}
    /\ q.quality \in p.qualities
    /\ WithinBudget(p.cost, q.cost)
    /\ WithinBudget(p.latency, q.latency)

health_rank(health) ==
    CASE health = "HEALTHY" -> 0
      [] health = "DEGRADED" -> 1
      [] health = "RATE_LIMITED" -> 2
      [] health = "AUTH_ERROR" -> 3
      [] health = "UNAVAILABLE" -> 4

\* Mutant of CostLess: costs that cannot be compared are equal.
CostLessIfKnown(left, right) == left # NULL /\ right # NULL /\ left < right

\* compare_optional_f64: a known cost comes before an unknown one,
CostLess(left, right) == left # NULL /\ (right = NULL \/ left < right)

\* whereas None is less than every Some of a latency.
LatencyLess(left, right) == right # NULL /\ (left = NULL \/ left < right)

\* compare_provider: left is Less than right.
compare_provider(left, right) ==
    LET l == health_rank(left.health)
        r == health_rank(right.health) IN
    \/ l < r
    \/ /\ l = r
       /\ \/ CostLess(left.cost, right.cost)
          \/ /\ ~CostLess(right.cost, left.cost)
             /\ \/ LatencyLess(left.latency, right.latency)
                \/ left.latency = right.latency /\ left.id < right.id

\* The first of the candidates after a stable sort, or an error (NULL): of the
\* first i entries, the candidate that no later one is Less than.
select(ps, q) ==
    LET best[i \in 0..Len(ps)] ==
          IF i = 0 THEN NULL
          ELSE LET rest == best[i - 1] IN
               IF Satisfies(ps[i], q) /\ (rest = NULL \/ compare_provider(ps[i], rest))
               THEN ps[i] ELSE rest
    IN  best[Len(ps)]
-----------------------------------------------------------------------------
Next ==
    \E offer \in Offers :
      \/ upsert(offer)
      \/ \E health \in Reports : set_health(offer, health)

Spec == Init /\ [][Next]_providers
-----------------------------------------------------------------------------
\* Safety: a provider has one entry for a capability, which is the one that set_health
\* changes and upsert replaces: no stale entry can be selected in its place.
OneEntry ==
    \A i, j \in DOMAIN providers : SameKey(providers[i], providers[j]) => i = j

\* Safety: what is selected is what narrowing the usable entries down gives, in whatever
\* order they were registered: the healthy ones if there are any, of these those with
\* the least known cost, or all if no cost is known, of these those with unknown, else
\* the least latency, and of these the first by name.
Least(S) == {x \in S : \A y \in S : x <= y}

Narrowed(usable) ==
    LET healthy == {p \in usable : p.health = "HEALTHY"}
        usual == IF healthy # {} THEN healthy ELSE usable
        costs == {p.cost : p \in usual} \ {NULL}
        cheap == IF costs = {} THEN usual ELSE {p \in usual : p.cost \in Least(costs)}
        latencies == {p.latency : p \in cheap}
        fast == IF NULL \in latencies THEN {p \in cheap : p.latency = NULL}
                ELSE {p \in cheap : p.latency \in Least(latencies)}
    IN {p \in fast : p.id \in Least({x.id : x \in fast})}

Usable(q) ==
    {p \in {providers[i] : i \in DOMAIN providers} :
       /\ p.capability = q.capability /\ p.health \in {"HEALTHY", "DEGRADED"}
       /\ q.quality \in p.qualities
       /\ q.cost # NULL => p.cost # NULL /\ p.cost <= q.cost
       /\ q.latency # NULL => p.latency # NULL /\ p.latency <= q.latency}

SelectsBest ==
    \A q \in Asked :
      IF Usable(q) = {} THEN select(providers, q) = NULL
      ELSE Narrowed(Usable(q)) = {select(providers, q)}

\* Action: a step that changes one entry changes the choice for a request only from or
\* to that entry's provider. Losing a provider that was not chosen moves nothing.
OnlyTheChangedMoves ==
    [][\A q \in Asked :
         LET old == select(providers, q)
             new == select(providers', q)
             changed == {i \in DOMAIN providers' :
                           i > Len(providers) \/ providers'[i] # providers[i]}
         IN (old # new) => \E i \in changed :
              \/ new = providers'[i]
              \/ i <= Len(providers) /\ old = providers[i]]_providers
=============================================================================
