------------------------ MODULE ProviderRouterProofs ------------------------
(***************************************************************************)
(* Proofs about ProviderRouter, for any offers, reports of health and      *)
(* requests. A provider has one entry for a capability; compare_provider   *)
(* is a strict order that is total on entries of one capability; select    *)
(* returns its least candidate, which is what narrowing down gives; and a  *)
(* change of one entry moves no choice that does not involve it.           *)
(***************************************************************************)
EXTENDS ProviderRouter, TLAPS

IInv == providers \in Seq(Entries) /\ OneEntry

\* new and with_builtins: no two of the six built-in entries have the same key.
LEMMA InitInv == Init => IInv
<1>1. ASSUME providers = <<>> PROVE IInv
  BY <1>1 DEF IInv, OneEntry
<1>2. ASSUME providers = builtin_provider_capabilities PROVE IInv
  <2>1. ASSUME NEW id \in Nat, NEW c \in Capabilities PROVE Builtin(id, c) \in Entries
    BY DEF Builtin, Entries, Healths, Profiles, Optional
  <2>2. providers \in Seq(Entries)
    BY <1>2, <2>1 DEF builtin_provider_capabilities, Capabilities
  <2>3. OneEntry
    BY <1>2 DEF OneEntry, SameKey, builtin_provider_capabilities, Builtin
  <2>4. QED BY <2>2, <2>3 DEF IInv
<1>3. QED BY <1>1, <1>2 DEF Init

\* Replacing an entry by one with its key keeps the invariant.
LEMMA ReplaceInv ==
    ASSUME IInv, NEW i \in DOMAIN providers, NEW p \in Entries,
           SameKey(providers[i], p), providers' = [providers EXCEPT ![i] = p]
    PROVE  IInv'
<1>1. providers' \in Seq(Entries)
  BY DEF IInv
<1>2. /\ DOMAIN providers' = DOMAIN providers
      /\ \A j \in DOMAIN providers : SameKey(providers'[j], providers[j])
  BY DEF IInv, SameKey
<1>3. ASSUME NEW j \in DOMAIN providers', NEW k \in DOMAIN providers',
             SameKey(providers'[j], providers'[k])
      PROVE  j = k
  BY <1>2, <1>3 DEF IInv, OneEntry, SameKey
<1>4. QED BY <1>1, <1>3 DEF IInv, OneEntry

\* upsert: an offer whose key is there replaces that entry, any other is a new one.
LEMMA UpsertInv ==
    ASSUME IInv, NEW offer \in Entries, upsert(offer)
    PROVE  IInv'
<1>1. CASE \E i \in DOMAIN providers :
             IsFirst(i, offer) /\ providers' = [providers EXCEPT ![i] = offer]
  BY <1>1, ReplaceInv DEF IsFirst
<1>2. CASE /\ \A i \in DOMAIN providers : ~SameKey(providers[i], offer)
           /\ providers' = Append(providers, offer)
  <2>1. /\ providers' \in Seq(Entries)
        /\ DOMAIN providers' = DOMAIN providers \cup {Len(providers) + 1}
        /\ providers'[Len(providers) + 1] = offer
        /\ \A i \in DOMAIN providers : providers'[i] = providers[i]
    BY <1>2 DEF IInv
  <2>2. ASSUME NEW j \in DOMAIN providers', NEW k \in DOMAIN providers',
               SameKey(providers'[j], providers'[k])
        PROVE  j = k
    BY <1>2, <2>1, <2>2 DEF IInv, OneEntry, SameKey
  <2>3. QED BY <2>1, <2>2 DEF IInv, OneEntry
<1>3. QED BY <1>1, <1>2 DEF upsert

\* set_health leaves the key of an entry alone.
LEMMA SetHealthInv ==
    ASSUME IInv, NEW key \in Entries, NEW health \in Healths, set_health(key, health)
    PROVE  IInv'
<1>1. PICK i \in DOMAIN providers : providers' = [providers EXCEPT ![i].health = health]
  BY DEF set_health, IsFirst
<1> DEFINE p == [providers[i] EXCEPT !.health = health]
<1>2. providers[i] \in Entries
  BY DEF IInv
<1>3. p \in Entries /\ SameKey(providers[i], p)
  BY <1>2 DEF Entries, SameKey
<1>4. providers' = [providers EXCEPT ![i] = p]
  BY <1>1
<1>5. QED BY <1>3, <1>4, ReplaceInv

LEMMA StepInv == IInv /\ [Next]_providers => IInv'
<1> SUFFICES ASSUME IInv, [Next]_providers PROVE IInv'
  OBVIOUS
<1>1. CASE UNCHANGED providers
  BY <1>1 DEF IInv, OneEntry
<1>2. ASSUME NEW offer \in Offers, upsert(offer) PROVE IInv'
  BY <1>2, UpsertInv, OffersAssumption
<1>3. ASSUME NEW offer \in Offers, NEW health \in Reports, set_health(offer, health)
      PROVE  IInv'
  BY <1>3, SetHealthInv, OffersAssumption
<1>4. QED BY <1>1, <1>2, <1>3 DEF Next

\* A provider has one entry for a capability, whatever is registered and reported, so
\* that select never meets two entries with the same key.
THEOREM OneEntryAlways == Spec => []OneEntry
<1>1. IInv => OneEntry
  BY DEF IInv
<1>2. QED BY InitInv, StepInv, <1>1, PTL DEF Spec
-----------------------------------------------------------------------------
(* The choice of a provider *)

\* Is the comparator an order? Costs and latencies are compared by a total order of
\* the known ones, in which the missing one comes last, or first.
LEMMA EstimateOrder ==
  ASSUME NEW a \in Optional(Nat), NEW b \in Optional(Nat), NEW c \in Optional(Nat)
  PROVE  /\ ~CostLess(a, a) /\ ~LatencyLess(a, a)
         /\ CostLess(a, b) \/ CostLess(b, a) \/ a = b
         /\ LatencyLess(a, b) \/ LatencyLess(b, a) \/ a = b
         /\ CostLess(a, b) /\ CostLess(b, c) => CostLess(a, c)
         /\ LatencyLess(a, b) /\ LatencyLess(b, c) => LatencyLess(a, c)
BY NullAssumption DEF Optional, CostLess, LatencyLess

LEMMA EntryFields ==
  ASSUME NEW p \in Entries
  PROVE  /\ health_rank(p.health) \in Nat /\ p.id \in Nat
         /\ p.cost \in Optional(Nat) /\ p.latency \in Optional(Nat)
BY DEF Entries, Healths, health_rank

\* compare_provider is a strict order, total on entries with different names.
LEMMA CompareIrreflexive ==
  ASSUME NEW p \in Entries PROVE ~compare_provider(p, p)
BY EntryFields, EstimateOrder DEF compare_provider

LEMMA CompareTotal ==
  ASSUME NEW p \in Entries, NEW r \in Entries, p.id # r.id
  PROVE  compare_provider(p, r) \/ compare_provider(r, p)
<1>1. PICK a, b : a = health_rank(p.health) /\ b = health_rank(r.health)
  OBVIOUS
<1>2. /\ a \in Nat /\ b \in Nat
      /\ p.id < r.id \/ r.id < p.id
  BY <1>1, EntryFields
<1>3. /\ CostLess(p.cost, r.cost) \/ CostLess(r.cost, p.cost) \/ p.cost = r.cost
      /\ ~CostLess(p.cost, p.cost) /\ ~CostLess(r.cost, r.cost)
      /\ \/ LatencyLess(p.latency, r.latency) \/ LatencyLess(r.latency, p.latency)
         \/ p.latency = r.latency
  BY EntryFields, EstimateOrder
<1> QED
  BY <1>1, <1>2, <1>3 DEF compare_provider

LEMMA CompareTransitive ==
  ASSUME NEW p \in Entries, NEW r \in Entries, NEW s \in Entries,
         compare_provider(p, r), compare_provider(r, s)
  PROVE  compare_provider(p, s)
<1>1. PICK a, b, c : /\ a = health_rank(p.health) /\ b = health_rank(r.health)
                     /\ c = health_rank(s.health)
  OBVIOUS
<1>2. a \in Nat /\ b \in Nat /\ c \in Nat
  BY <1>1, EntryFields
<1>3. /\ a < b \/ a = b
      /\ b < c \/ b = c
  BY <1>1 DEF compare_provider
<1>4. CASE a < c
  BY <1>1, <1>4 DEF compare_provider
<1>5. CASE a = b /\ b = c
  <2>1. PICK x, y, z : x = p.cost /\ y = r.cost /\ z = s.cost
    OBVIOUS
  <2>2. PICK l, m, n : l = p.latency /\ m = r.latency /\ n = s.latency
    OBVIOUS
  <2>3. PICK i, j, k : i = p.id /\ j = r.id /\ k = s.id
    OBVIOUS
  <2>4. i \in Nat /\ j \in Nat /\ k \in Nat
    BY <2>3, EntryFields
  <2>5. /\ ~CostLess(x, x) /\ ~CostLess(y, y) /\ ~CostLess(z, z)
        /\ CostLess(x, y) \/ CostLess(y, x) \/ x = y
        /\ CostLess(y, z) \/ CostLess(z, y) \/ y = z
        /\ CostLess(x, y) /\ CostLess(y, z) => CostLess(x, z)
        /\ CostLess(z, x) /\ CostLess(x, y) => CostLess(z, y)
        /\ CostLess(y, z) /\ CostLess(z, x) => CostLess(y, x)
    BY <2>1, EntryFields, EstimateOrder
  <2>6. LatencyLess(l, m) /\ LatencyLess(m, n) => LatencyLess(l, n)
    BY <2>2, EntryFields, EstimateOrder
  <2>7. /\ \/ CostLess(x, y)
           \/ /\ ~CostLess(y, x)
              /\ LatencyLess(l, m) \/ (l = m /\ i < j)
        /\ \/ CostLess(y, z)
           \/ /\ ~CostLess(z, y)
              /\ LatencyLess(m, n) \/ (m = n /\ j < k)
    BY <1>1, <1>2, <1>5, <2>1, <2>2, <2>3 DEF compare_provider
  <2>8. \/ CostLess(x, z)
        \/ /\ ~CostLess(z, x)
           /\ LatencyLess(l, n) \/ (l = n /\ i < k)
    <3>1. CASE CostLess(x, y) \/ CostLess(y, z)
      BY <2>5, <2>7, <3>1
    <3>2. CASE x = y /\ y = z
      BY <2>4, <2>5, <2>6, <2>7, <3>2
    <3> QED
      BY <2>5, <2>7, <3>1, <3>2
  <2> QED
    BY <1>1, <1>5, <2>1, <2>2, <2>3, <2>8 DEF compare_provider
<1> QED
  BY <1>2, <1>3, <1>4, <1>5

\* f is the function that select computes over the first n entries.
IsBest(f, ps, q, n) ==
    f = [i \in 0..n |->
          IF i = 0 THEN NULL
          ELSE LET rest == f[i - 1] IN
               IF Satisfies(ps[i], q) /\ (rest = NULL \/ compare_provider(ps[i], rest))
               THEN ps[i] ELSE rest]

\* p is a candidate of the first n entries that none of them is Less than, or NULL
\* if there is no candidate.
Chosen(p, ps, q, n) ==
    /\ p = NULL => \A i \in 1..n : ~Satisfies(ps[i], q)
    /\ p # NULL =>
         \E k \in 1..n :
           /\ ps[k] = p /\ Satisfies(p, q)
           /\ \A i \in 1..n : Satisfies(ps[i], q) => ~compare_provider(ps[i], p)

\* Over n entries of any list, the recursion has a solution, and it ends in what is
\* to be chosen. That this holds for every n is an induction over data; that it
\* holds for the length of the table is one over its steps, which add one entry at
\* most.
Sound(n) ==
    \A ps \in Seq(Entries), q \in Requests :
      Len(ps) >= n => /\ \E f : IsBest(f, ps, q, n)
                      /\ \A f : IsBest(f, ps, q, n) => Chosen(f[n], ps, q, n)

LEMMA SoundEmpty == Sound(0)
<1> SUFFICES ASSUME NEW ps \in Seq(Entries), NEW q \in Requests
             PROVE  /\ \E f : IsBest(f, ps, q, 0)
                    /\ \A f : IsBest(f, ps, q, 0) => Chosen(f[0], ps, q, 0)
  BY DEF Sound
<1>1. PICK g : g = [i \in 0..0 |-> NULL]
  OBVIOUS
<1>2. 0..0 = {0}
  OBVIOUS
<1>3. IsBest(g, ps, q, 0)
  BY <1>1, <1>2 DEF IsBest
<1>4. ASSUME NEW f, IsBest(f, ps, q, 0) PROVE Chosen(f[0], ps, q, 0)
  <2>1. f[0] = NULL
    BY <1>2, <1>4 DEF IsBest
  <2> QED
    BY <2>1 DEF Chosen
<1> QED
  BY <1>3, <1>4

\* One more entry.
LEMMA ChosenStep ==
  ASSUME NEW n \in Nat, NEW ps \in Seq(Entries), Len(ps) >= n + 1, NEW q \in Requests,
         NEW rest, Chosen(rest, ps, q, n)
  PROVE  Chosen(IF Satisfies(ps[n + 1], q)
                   /\ (rest = NULL \/ compare_provider(ps[n + 1], rest))
                THEN ps[n + 1] ELSE rest, ps, q, n + 1)
<1>1. PICK m, p : m = n + 1 /\ p = ps[m]
  OBVIOUS
<1>2. /\ m \in Nat /\ 1..m = (1..n) \cup {m} /\ m \notin 1..n
      /\ p \in Entries /\ p # NULL /\ \A i \in 1..n : ps[i] \in Entries
  BY <1>1, NullAssumption
<1>3. CASE Satisfies(p, q) /\ (rest = NULL \/ compare_provider(p, rest))
  <2>1. ASSUME NEW i \in 1..m, Satisfies(ps[i], q) PROVE ~compare_provider(ps[i], p)
    <3>1. CASE i = m
      BY <1>1, <1>2, <3>1, CompareIrreflexive
    <3>2. CASE i \in 1..n /\ rest = NULL
      BY <2>1, <3>2 DEF Chosen
    <3>3. CASE i \in 1..n /\ rest # NULL
      <4>1. /\ rest \in Entries /\ ~compare_provider(ps[i], rest)
            /\ compare_provider(p, rest)
        BY <1>2, <1>3, <2>1, <3>3 DEF Chosen
      <4> QED
        BY <1>2, <3>3, <4>1, CompareTransitive
    <3> QED
      BY <1>2, <3>1, <3>2, <3>3
  <2> QED
    BY <1>1, <1>2, <1>3, <2>1 DEF Chosen
<1>4. CASE ~(Satisfies(p, q) /\ (rest = NULL \/ compare_provider(p, rest)))
  <2>1. Satisfies(p, q) => rest # NULL /\ ~compare_provider(p, rest)
    BY <1>4
  <2>2. Chosen(rest, ps, q, m)
    <3>1. CASE rest = NULL
      BY <1>1, <1>2, <2>1, <3>1 DEF Chosen
    <3>2. CASE rest # NULL
      BY <1>1, <1>2, <2>1, <3>2 DEF Chosen
    <3> QED
      BY <3>1, <3>2
  <2> QED
    BY <1>1, <1>4, <2>2
<1> QED
  BY <1>3, <1>4

LEMMA SoundStep == ASSUME NEW n \in Nat, Sound(n) PROVE Sound(n + 1)
<1> SUFFICES ASSUME NEW ps \in Seq(Entries), NEW q \in Requests, Len(ps) >= n + 1
             PROVE  /\ \E f : IsBest(f, ps, q, n + 1)
                    /\ \A f : IsBest(f, ps, q, n + 1) => Chosen(f[n + 1], ps, q, n + 1)
  BY DEF Sound
<1>0. Len(ps) >= n /\ 0..(n + 1) = (0..n) \cup {n + 1} /\ n + 1 \notin 0..n
      /\ (n + 1) - 1 = n
      /\ \A i \in 0..n : i # 0 => i - 1 \in 0..n
  OBVIOUS
<1>1. PICK m : m = n + 1
  OBVIOUS
<1> DEFINE Step(i, rest) ==
             IF Satisfies(ps[i], q) /\ (rest = NULL \/ compare_provider(ps[i], rest))
             THEN ps[i] ELSE rest
           At(f, i) == IF i = 0 THEN NULL ELSE Step(i, f[i - 1])
<1>2. \A f, k : IsBest(f, ps, q, k) <=> f = [i \in 0..k |-> At(f, i)]
  BY DEF IsBest
<1> HIDE DEF Step
<1>3. \E f : IsBest(f, ps, q, m)
  <2>1. PICK g : IsBest(g, ps, q, n)
    BY <1>0 DEF Sound
  <2>2. PICK f : f = [i \in 0..m |-> IF i = m THEN Step(m, g[n]) ELSE g[i]]
    OBVIOUS
  <2>3. \A i \in 0..n : g[i] = At(g, i)
    BY <1>2, <2>1
  <2>4. \A i \in 0..n : f[i] = g[i]
    BY <1>0, <1>1, <2>2
  <2>5. \A i \in 0..n : f[i] = At(f, i)
    BY <1>0, <2>3, <2>4
  <2>6. f[m] = At(f, m)
    BY <1>0, <1>1, <2>2, <2>4
  <2>7. f = [i \in 0..m |-> At(f, i)]
    BY <1>0, <1>1, <2>2, <2>5, <2>6
  <2> QED
    BY <1>2, <2>7
<1>4. ASSUME NEW f, IsBest(f, ps, q, m) PROVE Chosen(f[m], ps, q, m)
  <2>1. PICK g : g = [i \in 0..n |-> f[i]]
    OBVIOUS
  <2>2. \A i \in 0..m : f[i] = At(f, i)
    BY <1>2, <1>4
  <2>3. \A i \in 0..n : g[i] = At(g, i)
    BY <1>0, <1>1, <2>1, <2>2
  <2>4. IsBest(g, ps, q, n)
    BY <1>2, <2>1, <2>3
  <2>5. Chosen(g[n], ps, q, n)
    BY <1>0, <2>4 DEF Sound
  <2>6. f[m] = Step(m, g[n])
    BY <1>0, <1>1, <2>1, <2>2
  <2>7. Chosen(Step(m, g[n]), ps, q, m)
    BY <1>1, <2>5, ChosenStep DEF Step
  <2> QED
    BY <2>6, <2>7
<1> QED
  BY <1>1, <1>3, <1>4

LEMMA SoundInitially == Init => Sound(Len(providers))
<1>1. Sound(0)
  BY SoundEmpty
<1>2. Sound(1)
  <2>1. 0 + 1 = 1 OBVIOUS
  <2> QED BY <1>1, <2>1, SoundStep
<1>3. Sound(2)
  <2>1. 1 + 1 = 2 OBVIOUS
  <2> QED BY <1>2, <2>1, SoundStep
<1>4. Sound(3)
  <2>1. 2 + 1 = 3 OBVIOUS
  <2> QED BY <1>3, <2>1, SoundStep
<1>5. Sound(4)
  <2>1. 3 + 1 = 4 OBVIOUS
  <2> QED BY <1>4, <2>1, SoundStep
<1>6. Sound(5)
  <2>1. 4 + 1 = 5 OBVIOUS
  <2> QED BY <1>5, <2>1, SoundStep
<1>7. Sound(6)
  <2>1. 5 + 1 = 6 OBVIOUS
  <2> QED BY <1>6, <2>1, SoundStep
<1>8. Len(builtin_provider_capabilities) = 6
  BY DEF builtin_provider_capabilities
<1>9. Len(<<>>) = 0
  OBVIOUS
<1> QED
  BY <1>1, <1>7, <1>8, <1>9 DEF Init

\* A step leaves the entries of the table where they are, and adds one at most.
LEMMA StepChangesOne ==
  ASSUME providers \in Seq(Entries), Next
  PROVE  /\ Len(providers') \in {Len(providers), Len(providers) + 1}
         /\ \E i \in DOMAIN providers' :
              \A j \in DOMAIN providers' : 
                j # i => j \in DOMAIN providers /\ providers'[j] = providers[j]
<1>1. CASE \E offer \in Entries : providers' = Append(providers, offer)
  <2>1. PICK offer \in Entries : providers' = Append(providers, offer)
    BY <1>1
  <2>2. /\ Len(providers') = Len(providers) + 1
        /\ DOMAIN providers' = DOMAIN providers \cup {Len(providers) + 1}
        /\ \A j \in DOMAIN providers : providers'[j] = providers[j]
    BY <2>1
  <2> QED
    BY <2>2
<1>2. CASE \E i \in DOMAIN providers : \E p :
             providers' = [providers EXCEPT ![i] = p]
  <2>1. PICK i \in DOMAIN providers : \E p : providers' = [providers EXCEPT ![i] = p]
    BY <1>2
  <2>2. /\ DOMAIN providers' = DOMAIN providers /\ Len(providers') = Len(providers)
        /\ \A j \in DOMAIN providers : j # i => providers'[j] = providers[j]
    BY <2>1
  <2> QED
    BY <2>2
<1>3. ASSUME NEW offer \in Offers, upsert(offer)
      PROVE  \/ \E p \in Entries : providers' = Append(providers, p)
             \/ \E i \in DOMAIN providers : \E p : providers' = [providers EXCEPT ![i] = p]
  BY <1>3, OffersAssumption DEF upsert
<1>4. ASSUME NEW offer \in Offers, NEW health \in Reports, set_health(offer, health)
      PROVE  \E i \in DOMAIN providers : \E p : providers' = [providers EXCEPT ![i] = p]
  <2>1. PICK i \in DOMAIN providers : providers' = [providers EXCEPT ![i].health = health]
    BY <1>4 DEF set_health
  <2>2. providers' = [providers EXCEPT ![i] = [providers[i] EXCEPT !.health = health]]
    BY <2>1
  <2> QED
    BY <2>2
<1> QED
  BY <1>1, <1>2, <1>3, <1>4 DEF Next

RInv == IInv /\ Sound(Len(providers))

LEMMA SoundNext == ASSUME RInv, [Next]_providers PROVE Sound(Len(providers))'
<1>1. CASE UNCHANGED providers
  BY <1>1 DEF RInv
<1>2. CASE Next
  <2>1. PICK n : n = Len(providers)
    OBVIOUS
  <2>2. n \in Nat /\ Sound(n)
    BY <2>1 DEF RInv, IInv
  <2>3. Len(providers') \in {n, n + 1}
    BY <1>2, <2>1, StepChangesOne DEF RInv, IInv
  <2>4. Sound(n + 1)
    BY <2>2, SoundStep
  <2> QED
    BY <2>2, <2>3, <2>4
<1> QED
  BY <1>1, <1>2

\* What select returns is what is to be chosen.
LEMMA Selected ==
  ASSUME NEW ps \in Seq(Entries), NEW q \in Requests, Sound(Len(ps))
  PROVE  Chosen(select(ps, q), ps, q, Len(ps))
<1>1. PICK n : n = Len(ps)
  OBVIOUS
<1>2. /\ \E f : IsBest(f, ps, q, n)
      /\ \A f : IsBest(f, ps, q, n) => Chosen(f[n], ps, q, n)
  BY <1>1 DEF Sound
<1>3. PICK g : g = CHOOSE f : IsBest(f, ps, q, n)
  OBVIOUS
<1>4. IsBest(g, ps, q, n)
  BY <1>2, <1>3
<1>5. select(ps, q) = g[n]
  BY <1>1, <1>3 DEF select, IsBest
<1> QED
  BY <1>1, <1>2, <1>4, <1>5

\* What Narrowed leaves of usable entries is the one that is less than all others.
LEMMA NarrowedIs ==
  ASSUME NEW U \in SUBSET Entries, \A r \in U : r.health \in {"HEALTHY", "DEGRADED"},
         NEW p \in U, \A r \in U : r # p => compare_provider(p, r)
  PROVE  Narrowed(U) = {p}
<1> DEFINE healthy == {r \in U : r.health = "HEALTHY"}
           usual == IF healthy # {} THEN healthy ELSE U
           costs == {r.cost : r \in usual} \ {NULL}
           cheap == IF costs = {} THEN usual ELSE {r \in usual : r.cost \in Least(costs)}
           latencies == {r.latency : r \in cheap}
           fast == IF NULL \in latencies THEN {r \in cheap : r.latency = NULL}
                   ELSE {r \in cheap : r.latency \in Least(latencies)}
<1>1. \A r \in U : r # p =>
        \/ p.health = "HEALTHY" /\ r.health = "DEGRADED"
        \/ /\ p.health = r.health
           /\ \/ CostLess(p.cost, r.cost)
              \/ /\ ~CostLess(r.cost, p.cost)
                 /\ \/ LatencyLess(p.latency, r.latency)
                    \/ p.latency = r.latency /\ p.id < r.id
  BY DEF compare_provider, health_rank
<1>2. \A r \in U : /\ r.id \in Nat /\ r.cost \in Optional(Nat)
                   /\ r.latency \in Optional(Nat)
  BY EntryFields
<1>3. p \in usual /\ \A r \in usual : r.health = p.health
  BY <1>1
<1>4. usual \subseteq U
  OBVIOUS
<1> HIDE DEF usual
<1>5. \A r \in usual : r # p =>
        \/ CostLess(p.cost, r.cost)
        \/ /\ ~CostLess(r.cost, p.cost)
           /\ \/ LatencyLess(p.latency, r.latency)
              \/ p.latency = r.latency /\ p.id < r.id
  BY <1>1, <1>3, <1>4
<1>6. /\ p \in cheap /\ cheap \subseteq usual
      /\ \A r \in cheap : r.cost = p.cost
  <2>1. CASE p.cost = NULL
    <3>1. \A r \in usual : r.cost = NULL
      BY <1>2, <1>3, <1>4, <1>5, <2>1 DEF CostLess, Optional
    <3>2. costs = {}
      BY <3>1
    <3> QED
      BY <1>3, <2>1, <3>1, <3>2
  <2>2. CASE p.cost # NULL
    <3>1. p.cost \in costs /\ p.cost \in Nat /\ costs \subseteq Nat
      BY <1>2, <1>3, <1>4, <2>2 DEF Optional
    <3>2. \A x \in costs : p.cost <= x
      <4> TAKE x \in costs
      <4>1. PICK r \in usual : x = r.cost
        OBVIOUS
      <4>2. x \in Nat /\ x # NULL
        BY <3>1
      <4>3. r = p \/ ~CostLess(r.cost, p.cost)
        BY <1>2, <1>4, <1>5, <3>1, <4>1, <4>2 DEF CostLess
      <4> QED
        BY <2>2, <3>1, <4>1, <4>2, <4>3 DEF CostLess
    <3>3. p.cost \in Least(costs)
      BY <3>1, <3>2 DEF Least
    <3>4. \A x \in Least(costs) : x = p.cost
      <4> TAKE x \in Least(costs)
      <4>1. x \in Nat /\ x <= p.cost /\ p.cost <= x
        BY <3>1, <3>2 DEF Least
      <4> QED
        BY <3>1, <4>1
    <3>5. cheap = {r \in usual : r.cost \in Least(costs)}
      BY <3>1
    <3> HIDE DEF cheap, costs
    <3> QED
      BY <1>3, <3>3, <3>4, <3>5
  <2> QED
    BY <2>1, <2>2
<1> HIDE DEF cheap
<1>7. \A r \in cheap : r # p => \/ LatencyLess(p.latency, r.latency)
                                \/ p.latency = r.latency /\ p.id < r.id
  <2>1. \A r \in cheap : ~CostLess(p.cost, r.cost)
    <3> TAKE r \in cheap
    <3>1. r.cost = p.cost /\ p.cost \in Optional(Nat)
      BY <1>2, <1>3, <1>4, <1>6
    <3> QED
      BY <3>1, EstimateOrder
  <2> QED
    BY <1>5, <1>6, <2>1
<1>8. /\ p \in fast /\ fast \subseteq cheap
      /\ \A r \in fast : r.latency = p.latency
  <2>1. CASE p.latency = NULL
    BY <1>6, <2>1
  <2>2. CASE p.latency # NULL
    <3>1. \A r \in cheap : r.latency # NULL /\ r.latency \in Nat /\ p.latency <= r.latency
      <4> TAKE r \in cheap
      <4>1. /\ r.latency \in Optional(Nat) /\ p.latency \in Nat
        BY <1>2, <1>3, <1>4, <1>6, <2>2 DEF Optional
      <4>2. p = r \/ LatencyLess(p.latency, r.latency) \/ p.latency = r.latency
        BY <1>7
      <4>3. CASE p.latency = r.latency
        BY <2>2, <4>1, <4>3
      <4>4. CASE LatencyLess(p.latency, r.latency)
        BY <2>2, <4>1, <4>4 DEF LatencyLess, Optional
      <4> QED
        BY <4>2, <4>3, <4>4
    <3>2. /\ NULL \notin latencies /\ latencies \subseteq Nat
          /\ p.latency \in latencies /\ \A x \in latencies : p.latency <= x
      BY <1>6, <3>1
    <3> HIDE DEF latencies
    <3>3. p.latency \in Least(latencies)
      BY <3>2 DEF Least
    <3>4. \A x \in Least(latencies) : x = p.latency
      <4> TAKE x \in Least(latencies)
      <4>1. x \in Nat /\ p.latency \in Nat /\ x <= p.latency /\ p.latency <= x
        BY <3>2 DEF Least
      <4> QED
        BY <4>1
    <3> QED
      BY <1>6, <3>2, <3>3, <3>4
  <2> QED
    BY <2>1, <2>2
<1> HIDE DEF fast
<1>9. \A r \in fast : r # p => p.id < r.id
  <2> TAKE r \in fast
  <2> HAVE r # p
  <2>1. r.latency = p.latency /\ p.latency \in Optional(Nat) /\ r \in cheap
    BY <1>2, <1>3, <1>4, <1>8
  <2>2. ~LatencyLess(p.latency, r.latency)
    BY <2>1, EstimateOrder
  <2> QED
    BY <1>7, <2>1, <2>2
<1>10. {r \in fast : r.id \in Least({x.id : x \in fast})} = {p}
  <2>1. \A r \in fast : r.id \in Nat
    BY <1>2, <1>4, <1>6, <1>8
  <2>2. p.id \in Least({x.id : x \in fast})
    BY <1>8, <1>9, <2>1 DEF Least
  <2>3. ASSUME NEW r \in fast, r.id \in Least({x.id : x \in fast}) PROVE r = p
    <3>1. r.id <= p.id
      BY <1>8, <2>3 DEF Least
    <3> QED
      BY <1>8, <1>9, <2>1, <3>1
  <2> QED
    BY <1>8, <2>2, <2>3
<1>11. Narrowed(U) = {r \in fast : r.id \in Least({x.id : x \in fast})}
  BY DEF Narrowed, fast, cheap, usual
<1> QED
  BY <1>10, <1>11

\* Of one table, a candidate is less than every other one or another is less than it.
LEMMA CandidatesOrdered ==
  ASSUME IInv, NEW q \in Requests, NEW i \in DOMAIN providers, NEW j \in DOMAIN providers,
         Satisfies(providers[i], q), Satisfies(providers[j], q),
         providers[i] # providers[j], ~compare_provider(providers[j], providers[i])
  PROVE  compare_provider(providers[i], providers[j])
<1>1. providers[i] \in Entries /\ providers[j] \in Entries
  BY DEF IInv
<1>2. providers[i].id # providers[j].id
  BY DEF IInv, OneEntry, SameKey, Satisfies
<1> QED
  BY <1>1, <1>2, CompareTotal

\* Whatever is registered and reported, select returns what narrowing down the usable
\* entries gives: it does not depend on the order in which they were registered, and
\* an unknown cost is never preferred to a known one.
LEMMA BestSelected == RInv => SelectsBest
<1> SUFFICES ASSUME RInv, NEW q \in Asked
             PROVE  IF Usable(q) = {} THEN select(providers, q) = NULL
                    ELSE Narrowed(Usable(q)) = {select(providers, q)}
  BY DEF SelectsBest
<1>1. q \in Requests /\ providers \in Seq(Entries)
  BY AskedAssumption DEF RInv, IInv
<1>2. PICK n, p : n = Len(providers) /\ p = select(providers, q)
  OBVIOUS
<1>3. Chosen(p, providers, q, n) /\ DOMAIN providers = 1..n
  BY <1>1, <1>2, Selected DEF RInv
<1>4. Usable(q) = {r \in {providers[i] : i \in 1..n} : Satisfies(r, q)}
  BY <1>3 DEF Usable, Satisfies, WithinBudget
<1>5. CASE p = NULL
  BY <1>2, <1>3, <1>4, <1>5 DEF Chosen
<1>6. CASE p # NULL
  <2>1. PICK k \in 1..n : /\ providers[k] = p /\ Satisfies(p, q)
                          /\ \A i \in 1..n : Satisfies(providers[i], q) =>
                               ~compare_provider(providers[i], p)
    BY <1>3, <1>6 DEF Chosen
  <2>2. p \in Usable(q)
    BY <1>4, <2>1
  <2>3. Usable(q) \subseteq Entries
    <3>1. \A i \in 1..n : providers[i] \in Entries
      BY <1>1, <1>2
    <3> QED
      BY <1>4, <3>1
  <2>4. \A r \in Usable(q) : r.health \in {"HEALTHY", "DEGRADED"}
    BY DEF Usable
  <2>5. ASSUME NEW r \in Usable(q), r # p PROVE compare_provider(p, r)
    <3>1. PICK i \in 1..n : r = providers[i] /\ Satisfies(r, q)
      BY <1>4
    <3> QED
      BY <1>1, <1>3, <2>1, <2>5, <3>1, CandidatesOrdered DEF RInv
  <2>6. Narrowed(Usable(q)) = {p}
    BY <2>2, <2>3, <2>4, <2>5, NarrowedIs
  <2> QED
    BY <1>2, <2>2, <2>6
<1> QED
  BY <1>5, <1>6

\* The choice changes only from or to the provider whose entry changed. The old and the
\* new choice, were they both unchanged, would be candidates of both tables, and
\* neither less than the other.
ChangedMoves ==
    \A q \in Asked :
      LET old == select(providers, q)
          new == select(providers', q)
          changed == {i \in DOMAIN providers' :
                        i > Len(providers) \/ providers'[i] # providers[i]}
      IN (old # new) => \E i \in changed :
           \/ new = providers'[i]
           \/ i <= Len(providers) /\ old = providers[i]

LEMMA OneMoves == RInv /\ RInv' /\ [Next]_providers => ChangedMoves
<1> SUFFICES ASSUME RInv, RInv', [Next]_providers, NEW q \in Asked,
                    NEW old, old = select(providers, q),
                    NEW new, new = select(providers', q), old # new
             PROVE  \E i \in DOMAIN providers' :
                      /\ i > Len(providers) \/ providers'[i] # providers[i]
                      /\ \/ new = providers'[i]
                         \/ i <= Len(providers) /\ old = providers[i]
  BY DEF ChangedMoves
<1>1. /\ q \in Requests /\ providers \in Seq(Entries) /\ providers' \in Seq(Entries)
      /\ Sound(Len(providers)) /\ Sound(Len(providers'))
  BY AskedAssumption DEF RInv, IInv
<1>2. PICK n, m : n = Len(providers) /\ m = Len(providers')
  OBVIOUS
<1>3. /\ n \in Nat /\ m \in Nat /\ n <= m
      /\ DOMAIN providers = 1..n /\ DOMAIN providers' = 1..m
  <2>1. CASE Next
    BY <1>1, <1>2, <2>1, StepChangesOne
  <2>2. CASE UNCHANGED providers
    BY <1>1, <1>2, <2>2
  <2> QED
    BY <2>1, <2>2
<1>4. Chosen(old, providers, q, n)
  BY <1>1, <1>2, Selected
<1>5. Chosen(new, providers', q, m)
  BY <1>1, <1>2, Selected
<1> SUFFICES ASSUME \A i \in 1..m :
                      \/ i <= n /\ providers'[i] = providers[i]
                      \/ new # providers'[i] /\ (i <= n => old # providers[i])
             PROVE  FALSE
  BY <1>2, <1>3
<1>6. PICK l \in 1..n : /\ providers[l] = old /\ Satisfies(old, q)
                        /\ providers'[l] = old /\ l \in 1..m
                        /\ \A i \in 1..n : Satisfies(providers[i], q) =>
                             ~compare_provider(providers[i], old)
  <2>1. old # NULL
    <3>1. CASE new = NULL
      BY <3>1
    <3>2. CASE new # NULL
      <4>1. PICK k \in 1..m : providers'[k] = new /\ Satisfies(new, q)
        BY <1>5, <3>2 DEF Chosen
      <4>2. k \in 1..n /\ providers[k] = new
        BY <1>3, <4>1
      <4> QED
        BY <1>4, <4>1, <4>2 DEF Chosen
    <3> QED
      BY <3>1, <3>2
  <2>2. PICK l \in 1..n : /\ providers[l] = old /\ Satisfies(old, q)
                          /\ \A i \in 1..n : Satisfies(providers[i], q) =>
                               ~compare_provider(providers[i], old)
    BY <1>4, <2>1 DEF Chosen
  <2>3. l \in 1..m /\ l <= n
    BY <1>3
  <2> QED
    BY <2>2, <2>3
<1>7. PICK k \in 1..n : /\ providers[k] = new /\ Satisfies(new, q)
                        /\ ~compare_provider(old, new)
  <2>1. new # NULL
    BY <1>5, <1>6 DEF Chosen
  <2>2. PICK k \in 1..m : /\ providers'[k] = new /\ Satisfies(new, q)
                          /\ \A i \in 1..m : Satisfies(providers'[i], q) =>
                               ~compare_provider(providers'[i], new)
    BY <1>5, <2>1 DEF Chosen
  <2>3. k \in 1..n /\ providers[k] = new
    BY <1>3, <2>2
  <2> QED
    BY <1>6, <2>2, <2>3
<1>8. compare_provider(old, new)
  BY <1>1, <1>3, <1>6, <1>7, CandidatesOrdered DEF RInv
<1> QED
  BY <1>7, <1>8

LEMMA RInvInductive == Spec => []RInv
<1>1. IInv /\ [Next]_providers => IInv'
  BY StepInv
<1>2. Init => RInv
  BY InitInv, SoundInitially DEF RInv
<1>3. RInv /\ [Next]_providers => RInv'
  BY <1>1, SoundNext DEF RInv
<1> QED
  BY <1>2, <1>3, PTL DEF Spec

\* Every request gets the best of the providers that are usable for it, for any table
\* that offers and reports of health can lead to.
THEOREM BestIsSelected == Spec => []SelectsBest
BY RInvInductive, BestSelected, PTL

\* A change of one entry moves a request only from or to that entry's provider.
THEOREM LossMovesNothingElse == Spec => OnlyTheChangedMoves
<1>1. RInv /\ RInv' /\ [Next]_providers => [ChangedMoves]_providers
  BY OneMoves
<1> QED
  BY <1>1, RInvInductive, PTL DEF OnlyTheChangedMoves, ChangedMoves, Spec
=============================================================================
