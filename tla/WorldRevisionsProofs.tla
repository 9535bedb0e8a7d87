----------------------- MODULE WorldRevisionsProofs -----------------------
(***************************************************************************)
(* That the revisions of every world form one chain, and that what is      *)
(* accepted was validated, for any worlds, candidates and tasks; and that  *)
(* the histories read off them implement WorldHistory.                     *)
(***************************************************************************)
EXTENDS WorldRevisions, TLAPS

Optional(S) == S \cup {NULL}
Revisions == [parent : Optional(Nat), world : Worlds, candidate : Candidates]
Validations == [candidate : Candidates, result : Results, at : Nat]
Statuses == {"NONE", "PENDING", "ACCEPTED", "REJECTED"}

\* What a task knows between its statements: the row it will insert, or what its
\* transaction has read.
TaskOK(t) ==
    \/ t = Idle
    \/ t.op = "insert" /\ t.row \in Validations
    \/ /\ t.op = "accept" /\ t.candidate \in Candidates
       /\ LatestIn(t.read[4], t.candidate) = "PASSED"

Types ==
    /\ active \in [Worlds -> Optional(Nat)]
    /\ revisions \in Seq(Revisions)
    /\ status \in [Candidates -> Statuses]
    /\ validations \in Seq(Validations)
    /\ clock \in Nat
    /\ \A t \in Tasks : TaskOK(task[t])
    /\ task = [t \in Tasks |-> task[t]]

Mine(w) == {i \in Ids : revisions[i].world = w}

\* The revisions of a world are a chain; tip is the only one without a child, and
\* there is none if there is no tip.
Linear(rows, mine, tip) ==
    /\ \A i, j \in mine : rows[i].parent = rows[j].parent => i = j
    /\ \A i \in mine : rows[i].parent \in Optional(mine)
    /\ tip = NULL => mine = {}
    /\ tip # NULL => /\ tip \in mine
                     /\ \A j \in mine : rows[j].parent # tip
                     /\ \A i \in mine \ {tip} : \E j \in mine : rows[j].parent = i

Histories == \A w \in Worlds : Linear(revisions, Mine(w), active[w])

IInv == Types /\ Histories /\ AcceptedWasPassed
-----------------------------------------------------------------------------
\* A validation of another candidate does not change which is the latest of k.
LEMMA LatestOfOthers ==
    ASSUME NEW rows \in Seq(Validations), NEW row \in Validations,
           NEW k \in Candidates, row.candidate # k
    PROVE  LatestIn(Append(rows, row), k) = LatestIn(rows, k)
<1> DEFINE more == Append(rows, row)
<1>1. /\ DOMAIN more = DOMAIN rows \cup {Len(rows) + 1}
      /\ Len(rows) + 1 \notin DOMAIN rows
      /\ more[Len(rows) + 1] = row
      /\ \A i \in DOMAIN rows : more[i] = rows[i]
  OBVIOUS
<1> HIDE DEF more
<1>2. Newest(more, k) = Newest(rows, k)
  BY <1>1 DEF Newest, Later
<1>3. Newest(rows, k) # {} =>
        (CHOOSE i \in Newest(rows, k) : TRUE) \in DOMAIN rows
  <2> SUFFICES ASSUME Newest(rows, k) # {}
               PROVE  (CHOOSE i \in Newest(rows, k) : TRUE) \in DOMAIN rows
    OBVIOUS
  <2>1. (CHOOSE i \in Newest(rows, k) : TRUE) \in Newest(rows, k)
    OBVIOUS
  <2> QED
    BY <2>1 DEF Newest
<1>4. LatestIn(more, k) = LatestIn(rows, k)
  BY <1>1, <1>2, <1>3 DEF LatestIn
<1> QED
  BY <1>4 DEF more

LEMMA InitInv == Init => IInv
<1> SUFFICES ASSUME Init PROVE IInv
  OBVIOUS
<1>1. Types
  BY DEF Init, Types, TaskOK, Optional, Statuses
<1>2. Histories
  BY DEF Init, Histories, Linear, Mine, Ids
<1>3. AcceptedWasPassed
  BY DEF Init, AcceptedWasPassed
<1> QED
  BY <1>1, <1>2, <1>3 DEF IInv

\* Steps that leave worlds and revisions alone.
LEMMA SameHistories ==
    ASSUME IInv, UNCHANGED <<active, revisions>>
    PROVE  Histories'
BY DEF IInv, Histories, Linear, Mine, Ids

\* A task that goes to t while the others stand still.
LEMMA TaskStep ==
    ASSUME IInv, NEW s \in Tasks, NEW t, TaskOK(t), Goto(s, t)
    PROVE  /\ \A u \in Tasks : TaskOK(task'[u])
           /\ task' = [u \in Tasks |-> task'[u]]
BY DEF IInv, Types, Goto
-----------------------------------------------------------------------------
\* Creating and rejecting: a candidate that is NONE or PENDING gets a status that
\* is not ACCEPTED.
LEMMA StatusInv ==
    ASSUME IInv, NEW k \in Candidates, create(k) \/ reject(k)
    PROVE  IInv'
<1>1. /\ UNCHANGED <<active, revisions, validations, clock, task>>
      /\ \/ status' = [status EXCEPT ![k] = "PENDING"]
         \/ status' = [status EXCEPT ![k] = "REJECTED"]
  BY DEF create, reject
<1>2. Types'
  BY <1>1 DEF IInv, Types, TaskOK, Statuses
<1>3. Histories'
  BY <1>1, SameHistories
<1>4. AcceptedWasPassed'
  <2> SUFFICES ASSUME NEW h \in Candidates, status'[h] = "ACCEPTED"
               PROVE  LatestValidation(h)' = "PASSED"
    BY DEF AcceptedWasPassed
  <2>1. status[h] = "ACCEPTED"
    BY <1>1 DEF IInv, Types
  <2> QED
    BY <1>1, <2>1 DEF IInv, AcceptedWasPassed, LatestValidation
<1> QED
  BY <1>2, <1>3, <1>4 DEF IInv

LEMMA ValidateInv ==
    ASSUME IInv, NEW v \in Validators, NEW k \in Candidates, NEW r \in Results,
           add_validation(v, k, r)
    PROVE  IInv'
<1> DEFINE t == [op |-> "insert",
                 row |-> [candidate |-> k, result |-> r, at |-> clock']]
<1>1. Goto(v, t) /\ clock' \in Nat /\ v \in Tasks /\ UNCHANGED tables
  BY DEF add_validation, IInv, Types, Tasks
<1>2. TaskOK(t)
  BY <1>1 DEF TaskOK, Validations
<1> HIDE DEF t
<1>3. Types'
  BY <1>1, <1>2, TaskStep DEF IInv, Types, tables
<1>4. Histories'
  BY <1>1, SameHistories DEF tables
<1>5. AcceptedWasPassed'
  BY <1>1 DEF IInv, AcceptedWasPassed, LatestValidation, tables
<1> QED
  BY <1>3, <1>4, <1>5 DEF IInv

\* The row of an accepted candidate is kept out by the trigger.
LEMMA InsertInv ==
    ASSUME IInv, NEW v \in Validators, InsertValidation(v)
    PROVE  IInv'
<1> DEFINE row == task[v].row
<1>1. /\ Goto(v, Idle) /\ v \in Tasks /\ UNCHANGED <<active, revisions, status, clock>>
      /\ validations' = IF PendingAtInsert(row) THEN Append(validations, row)
                                                ELSE validations
  BY DEF InsertValidation, Tasks
<1>2. row \in Validations
  BY <1>1 DEF InsertValidation, IInv, Types, TaskOK, Idle
<1> HIDE DEF row
<1>3. validations' \in Seq(Validations)
  BY <1>1, <1>2 DEF IInv, Types
<1>4. TaskOK(Idle)
  BY DEF TaskOK
<1>5. Types'
  BY <1>1, <1>3, <1>4, TaskStep DEF IInv, Types
<1>6. Histories'
  BY <1>1, SameHistories
<1>7. AcceptedWasPassed'
  <2> SUFFICES ASSUME NEW h \in Candidates, status[h] = "ACCEPTED"
               PROVE  LatestIn(validations', h) = "PASSED"
    BY <1>1 DEF AcceptedWasPassed, LatestValidation
  <2>1. LatestIn(validations, h) = "PASSED"
    BY DEF IInv, AcceptedWasPassed, LatestValidation
  <2>2. CASE PendingAtInsert(row)
    <3>1. row.candidate # h
      BY <2>2 DEF PendingAtInsert
    <3>2. validations' = Append(validations, row) /\ validations \in Seq(Validations)
      BY <1>1, <2>2 DEF IInv, Types
    <3> QED
      BY <1>2, <2>1, <3>1, <3>2, LatestOfOthers
  <2>3. CASE ~PendingAtInsert(row)
    BY <1>1, <2>1, <2>3
  <2> QED
    BY <2>2, <2>3
<1> QED
  BY <1>5, <1>6, <1>7 DEF IInv

LEMMA AcceptInv ==
    ASSUME IInv, NEW a \in Acceptors, NEW k \in Candidates, accept(a, k)
    PROVE  IInv'
<1> DEFINE t == [op |-> "accept", candidate |-> k, parent |-> active[WorldOf[k]],
                 read |-> tables]
<1>1. Goto(a, t) /\ a \in Tasks /\ UNCHANGED <<tables, clock>>
  BY DEF accept, Tasks
<1>2. TaskOK(t)
  BY DEF accept, TaskOK, LatestValidation, tables
<1> HIDE DEF t
<1>3. Types'
  BY <1>1, <1>2, TaskStep DEF IInv, Types, tables
<1>4. Histories'
  BY <1>1, SameHistories DEF tables
<1>5. AcceptedWasPassed'
  BY <1>1 DEF IInv, AcceptedWasPassed, LatestValidation, tables
<1> QED
  BY <1>3, <1>4, <1>5 DEF IInv

LEMMA RollbackInv ==
    ASSUME IInv, NEW a \in Acceptors, accept_rollback(a)
    PROVE  IInv'
<1>1. Goto(a, Idle) /\ a \in Tasks /\ UNCHANGED <<tables, clock>>
  BY DEF accept_rollback, Tasks
<1>2. TaskOK(Idle)
  BY DEF TaskOK
<1>3. Types'
  BY <1>1, <1>2, TaskStep DEF IInv, Types, tables
<1>4. Histories'
  BY <1>1, SameHistories DEF tables
<1>5. AcceptedWasPassed'
  BY <1>1 DEF IInv, AcceptedWasPassed, LatestValidation, tables
<1> QED
  BY <1>3, <1>4, <1>5 DEF IInv

\* A child of the tip is the new tip.
LEMMA Extended ==
    ASSUME NEW rows, NEW mine, NEW tip, Linear(rows, mine, tip), NULL \notin mine,
           NEW more, NEW n, n \notin mine, n # NULL,
           more[n].parent = tip, \A i \in mine : more[i] = rows[i]
    PROVE  Linear(more, mine \cup {n}, n)
<1> DEFINE all == mine \cup {n}
<1>1. \A i \in mine : rows[i].parent # tip /\ rows[i].parent # n
  BY DEF Linear, Optional
<1>2. ASSUME NEW i \in all, NEW j \in all, more[i].parent = more[j].parent
      PROVE  i = j
  BY <1>1, <1>2 DEF Linear
<1>3. \A i \in all : more[i].parent \in Optional(all)
  BY DEF Linear, Optional
<1>4. \A j \in all : more[j].parent # n
  BY <1>1 DEF Linear
<1>5. ASSUME NEW i \in all \ {n} PROVE \E j \in all : more[j].parent = i
  <2>1. CASE i = tip
    BY <2>1
  <2>2. CASE i # tip
    <3>1. PICK j \in mine : rows[j].parent = i
      BY <2>2 DEF Linear
    <3> QED
      BY <3>1
  <2> QED
    BY <2>1, <2>2
<1> QED
  BY <1>2, <1>3, <1>4, <1>5 DEF Linear

\* The new revision is the child of the active one and becomes the active one.
LEMMA ExtendHistory ==
    ASSUME IInv, NEW k \in Candidates,
           revisions' = Append(revisions, [parent |-> active[WorldOf[k]],
                                           candidate |-> k, world |-> WorldOf[k]]),
           active' = [active EXCEPT ![WorldOf[k]] = Len(revisions) + 1]
    PROVE  Histories'
<1> DEFINE x == WorldOf[k]
           n == Len(revisions) + 1
           p == active[x]
<1>1. x \in Worlds /\ p \in Optional(Nat) /\ n \in Nat /\ n # NULL
  BY WorldOfAssumption, NoRevisionAssumption DEF IInv, Types
<1>2. /\ Ids' = Ids \cup {n} /\ n \notin Ids
      /\ revisions'[n].parent = p /\ revisions'[n].world = x
      /\ \A i \in Ids : revisions'[i] = revisions[i]
  BY DEF Ids, IInv, Types
<1>3. /\ active'[x] = n
      /\ \A w \in Worlds \ {x} : active'[w] = active[w]
  BY <1>1 DEF IInv, Types
<1> HIDE DEF x, n, p
<1>4. /\ Mine(x)' = Mine(x) \cup {n}
      /\ \A w \in Worlds \ {x} : Mine(w)' = Mine(w)
  BY <1>2 DEF Mine
<1> SUFFICES ASSUME NEW w \in Worlds PROVE Linear(revisions', Mine(w)', active'[w])
  BY DEF Histories
<1>5. Linear(revisions, Mine(w), active[w]) /\ Mine(w) \subseteq Ids
  BY DEF IInv, Histories, Mine
<1>6. CASE w # x
  <2>1. /\ Mine(w)' = Mine(w) /\ active'[w] = active[w]
        /\ \A i \in Mine(w) : revisions'[i] = revisions[i]
    BY <1>2, <1>3, <1>4, <1>5, <1>6
  <2>2. Linear(revisions', Mine(w), active[w])
    BY <1>5, <2>1 DEF Linear
  <2> QED
    BY <2>1, <2>2, Zenon
<1>7. CASE w = x
  <2>1. /\ Mine(w)' = Mine(w) \cup {n} /\ n \notin Mine(w) /\ NULL \notin Mine(w)
        /\ active'[w] = n /\ revisions'[n].parent = active[w]
        /\ \A i \in Mine(w) : revisions'[i] = revisions[i]
    BY <1>2, <1>3, <1>4, <1>5, <1>7, NoRevisionAssumption DEF p, Ids, IInv, Types
  <2>2. Linear(revisions', Mine(w) \cup {n}, n)
    <3> DEFINE old == Mine(w)
               tip == active[w]
               more == revisions'
    <3>1. Linear(revisions, old, tip) /\ NULL \notin old /\ n \notin old /\ n # NULL
      BY <1>1, <1>5, <2>1
    <3>2. more[n].parent = tip /\ \A i \in old : more[i] = revisions[i]
      BY <2>1
    <3> HIDE DEF old, tip, more
    <3>3. Linear(more, old \cup {n}, n)
      BY <3>1, <3>2, Extended
    <3> QED
      BY <3>3 DEF old, more
  <2> QED
    BY <2>1, <2>2, Zenon
<1> QED
  BY <1>6, <1>7

LEMMA CommitInv ==
    ASSUME IInv, NEW a \in Acceptors, accept_commit(a)
    PROVE  IInv'
<1> DEFINE t == task[a]
           k == t.candidate
<1>1. /\ t.op = "accept" /\ TaskOK(t) /\ a \in Tasks
  BY DEF accept_commit, IInv, Types, Tasks
<1>2. k \in Candidates /\ LatestIn(t.read[4], k) = "PASSED"
  BY <1>1 DEF TaskOK, Idle
<1>3. LatestValidation(k) = "PASSED"
  BY <1>2 DEF accept_commit, tables, LatestValidation
<1>4. /\ Goto(a, Idle) /\ UNCHANGED <<validations, clock>>
      /\ revisions' = Append(revisions, [parent |-> active[WorldOf[k]],
                                         candidate |-> k, world |-> WorldOf[k]])
      /\ active' = [active EXCEPT ![WorldOf[k]] = Len(revisions) + 1]
      /\ status' = [status EXCEPT ![k] = "ACCEPTED"]
  BY DEF accept_commit, AddRevision, Activate, MarkAccepted
<1> HIDE DEF t, k
<1>5. Types'
  <2>1. [parent |-> active[WorldOf[k]], candidate |-> k, world |-> WorldOf[k]]
          \in Revisions
    BY <1>2, WorldOfAssumption DEF IInv, Types, Revisions
  <2>2. revisions' \in Seq(Revisions) /\ Len(revisions) + 1 \in Nat
    BY <1>4, <2>1 DEF IInv, Types
  <2>3. active' \in [Worlds -> Optional(Nat)] /\ status' \in [Candidates -> Statuses]
    BY <1>4, <2>2 DEF IInv, Types, Optional, Statuses
  <2>4. TaskOK(Idle)
    BY DEF TaskOK
  <2> QED
    BY <1>1, <1>4, <2>2, <2>3, <2>4, TaskStep DEF IInv, Types
<1>6. Histories'
  BY <1>2, <1>4, ExtendHistory
<1>7. AcceptedWasPassed'
  BY <1>2, <1>3, <1>4 DEF IInv, Types, AcceptedWasPassed, LatestValidation
<1> QED
  BY <1>5, <1>6, <1>7 DEF IInv

LEMMA NextInv == IInv /\ [Next]_vars => IInv'
<1> SUFFICES ASSUME IInv, [Next]_vars PROVE IInv'
  OBVIOUS
<1>1. CASE UNCHANGED vars
  BY <1>1 DEF vars, IInv, Types, TaskOK, Histories, Linear, Mine, Ids,
     AcceptedWasPassed, LatestValidation
<1>2. ASSUME NEW v \in Validators, InsertValidation(v) PROVE IInv'
  BY <1>2, InsertInv
<1>3. ASSUME NEW a \in Acceptors, accept_commit(a) PROVE IInv'
  BY <1>3, CommitInv
<1> QED
  BY <1>1, <1>2, <1>3, StatusInv, ValidateInv, AcceptInv, RollbackInv DEF Next

THEOREM Invariant == Spec => []IInv
BY InitInv, NextInv, PTL DEF Spec
-----------------------------------------------------------------------------
\* The revisions of every world are one chain that ends in its active revision,
\* whatever candidates are accepted at the same time.
THEOREM HistoryIsLinear == Spec => []LinearHistory
<1>1. IInv => LinearHistory
  <2> SUFFICES ASSUME IInv, NEW w \in Worlds
               PROVE  /\ \A i, j \in Mine(w) :
                           revisions[i].parent = revisions[j].parent => i = j
                      /\ \A i \in Mine(w) : revisions[i].parent \in Mine(w) \cup {NULL}
                      /\ {i \in Mine(w) : \A j \in Mine(w) : revisions[j].parent # i}
                           = {active[w]} \ {NULL}
    BY DEF LinearHistory, Mine
  <2>1. Linear(revisions, Mine(w), active[w])
    BY DEF IInv, Histories
  <2>2. NULL \notin Mine(w)
    BY NoRevisionAssumption DEF Mine, Ids, IInv, Types
  <2> QED
    BY <2>1, <2>2 DEF Linear, Optional
<1> QED
  BY <1>1, Invariant, PTL

\* The latest validation of an accepted candidate is one that PASSED, for any number
\* of validations and validators at work while it is accepted.
THEOREM AcceptedArePassed == Spec => []AcceptedWasPassed
<1>1. IInv => AcceptedWasPassed
  BY DEF IInv
<1> QED
  BY <1>1, Invariant, PTL
-----------------------------------------------------------------------------
(* The histories *)

\* Chain is defined by recursion along the parents. That the recursion has exactly
\* one solution cannot be taken for granted; it is kept by every step, since a new
\* revision has a parent that is there.
IsChain(f) ==
    f = [i \in Ids |-> IF revisions[i].parent = NULL
                       THEN <<revisions[i].candidate>>
                       ELSE Append(f[revisions[i].parent], revisions[i].candidate)]

ChainOK ==
    /\ \E f : IsChain(f)
    /\ \A f, g : IsChain(f) /\ IsChain(g) => f = g

LEMMA ChainUnfolds == ChainOK => IsChain(Chain)
<1> SUFFICES ASSUME ChainOK PROVE IsChain(Chain)
  OBVIOUS
<1>1. Chain = CHOOSE f : IsChain(f)
  BY DEF Chain, IsChain
<1> QED
  BY <1>1 DEF ChainOK

\* The chains that end in the revisions of before a step that adds revision n stay
\* what they were, and n's is that of its parent with its own candidate.
LEMMA ChainExtends ==
  ASSUME ChainOK, NEW n, n \notin Ids, Ids' = Ids \cup {n},
         \A i \in Ids : /\ revisions'[i] = revisions[i]
                        /\ revisions[i].parent \in Ids \cup {NULL},
         revisions'[n].parent \in Ids \cup {NULL}
  PROVE  /\ ChainOK'
         /\ \A i \in Ids : Chain'[i] = Chain[i]
         /\ Chain'[n] = IF revisions'[n].parent = NULL
                        THEN <<revisions'[n].candidate>>
                        ELSE Append(Chain[revisions'[n].parent], revisions'[n].candidate)
<1> DEFINE New(f) == [i \in Ids \cup {n} |->
                        IF revisions'[i].parent = NULL
                        THEN <<revisions'[i].candidate>>
                        ELSE Append(f[revisions'[i].parent], revisions'[i].candidate)]
<1>0. \A f : IsChain(f)' <=> f = New(f)
  BY DEF IsChain
<1>1. IsChain(Chain)
  BY ChainUnfolds
<1>2. ASSUME NEW g, g = New(g)
      PROVE  /\ \A i \in Ids : g[i] = Chain[i]
             /\ g[n] = IF revisions'[n].parent = NULL
                       THEN <<revisions'[n].candidate>>
                       ELSE Append(Chain[revisions'[n].parent], revisions'[n].candidate)
  <2> DEFINE f == [i \in Ids |-> g[i]]
  <2>1. IsChain(f)
    <3>1. \A i \in Ids : g[i] = IF revisions[i].parent = NULL
                                THEN <<revisions[i].candidate>>
                                ELSE Append(f[revisions[i].parent],
                                            revisions[i].candidate)
      BY <1>2
    <3> QED
      BY <3>1 DEF IsChain
  <2>2. f = Chain
    BY <1>1, <2>1 DEF ChainOK
  <2>3. \A i \in Ids : g[i] = Chain[i]
    BY <2>2
  <2> QED
    BY <1>2, <2>3
<1>3. \E g : g = New(g)
  <2> DEFINE last == IF revisions'[n].parent = NULL
                     THEN <<revisions'[n].candidate>>
                     ELSE Append(Chain[revisions'[n].parent], revisions'[n].candidate)
             g == [i \in Ids \cup {n} |-> IF i = n THEN last ELSE Chain[i]]
  <2>1. \A i \in Ids : Chain[i] = IF revisions[i].parent = NULL
                                  THEN <<revisions[i].candidate>>
                                  ELSE Append(Chain[revisions[i].parent],
                                              revisions[i].candidate)
    BY <1>1 DEF IsChain
  <2>2. g = New(g)
    BY <2>1
  <2> QED
    BY <2>2
<1>4. \A f : f = New(f) => f = [i \in Ids \cup {n} |-> f[i]]
  OBVIOUS
<1> HIDE DEF New
<1>5. ASSUME NEW f, NEW g, f = New(f), g = New(g) PROVE f = g
  <2>1. \A i \in Ids : f[i] = g[i]
    BY <1>2, <1>5
  <2>2. f[n] = g[n]
    BY <1>2, <1>5
  <2>3. [i \in Ids \cup {n} |-> f[i]] = [i \in Ids \cup {n} |-> g[i]]
    BY <2>1, <2>2
  <2> QED
    BY <1>4, <1>5, <2>3
<1>6. ChainOK'
  BY <1>0, <1>3, <1>5, Zenon DEF ChainOK
<1>7. PICK h : h = Chain'
  OBVIOUS
<1>8. h = New(h)
  <2>1. h = CHOOSE f : f = New(f)
    BY <1>7 DEF Chain, New
  <2> QED
    BY <1>3, <2>1
<1> QED
  BY <1>2, <1>6, <1>7, <1>8

\* A revision's parent is there, and so is the active revision of a world.
LEMMA ParentsThere ==
  ASSUME IInv
  PROVE  /\ \A i \in Ids : revisions[i].parent \in Ids \cup {NULL}
         /\ \A w \in Worlds : active[w] \in Ids \cup {NULL}
<1>1. \A w \in Worlds : Mine(w) \subseteq Ids
  BY DEF Mine
<1>2. ASSUME NEW i \in Ids PROVE revisions[i].parent \in Ids \cup {NULL}
  <2>1. revisions[i].world \in Worlds
    <3>1. revisions[i] \in Revisions
      BY DEF IInv, Types, Ids
    <3> QED
      BY <3>1 DEF Revisions
  <2>2. PICK w \in Worlds : i \in Mine(w)
    BY <2>1 DEF Mine
  <2> QED
    BY <1>1, <2>2 DEF IInv, Histories, Linear, Optional
<1>3. ASSUME NEW w \in Worlds PROVE active[w] \in Ids \cup {NULL}
  BY <1>1 DEF IInv, Histories, Linear
<1> QED
  BY <1>2, <1>3

\* The commit of an accept appends the candidate to the history of its world.
LEMMA CommitAppends ==
  ASSUME IInv, ChainOK, NEW a \in Acceptors, accept_commit(a)
  PROVE  ChainOK' /\ \E k \in Candidates : History!Accept(k)
<1>1. PICK t, k, x, n : t = task[a] /\ k = t.candidate /\ x = WorldOf[k]
                        /\ n = Len(revisions) + 1
  OBVIOUS
<1>2. t.op = "accept" /\ TaskOK(t)
  BY <1>1 DEF accept_commit, IInv, Types, Tasks
<1>3. k \in Candidates /\ x \in Worlds
  BY <1>1, <1>2, WorldOfAssumption DEF TaskOK, Idle
<1>4. /\ status[k] = "PENDING" /\ status' = [status EXCEPT ![k] = "ACCEPTED"]
      /\ active[x] = t.parent /\ active' = [active EXCEPT ![x] = n]
      /\ revisions' = Append(revisions, [parent |-> t.parent, candidate |-> k,
                                         world |-> x])
  BY <1>1 DEF accept_commit, AddRevision, Activate, MarkAccepted
<1>5. /\ \A i \in Ids : revisions[i].parent \in Ids \cup {NULL}
      /\ \A w \in Worlds : active[w] \in Ids \cup {NULL}
  BY ParentsThere
<1>6. /\ n \notin Ids /\ Ids' = Ids \cup {n} /\ n # NULL
      /\ \A i \in Ids : revisions'[i] = revisions[i]
      /\ revisions'[n].parent = t.parent /\ revisions'[n].candidate = k
  BY <1>1, <1>4, NoRevisionAssumption DEF Ids, IInv, Types
<1>7. /\ ChainOK'
      /\ \A i \in Ids : Chain'[i] = Chain[i]
      /\ Chain'[n] = IF t.parent = NULL THEN <<k>> ELSE Append(Chain[t.parent], k)
  <2>1. \A i \in Ids : /\ revisions'[i] = revisions[i]
                       /\ revisions[i].parent \in Ids \cup {NULL}
    BY <1>5, <1>6
  <2>2. revisions'[n].parent \in Ids \cup {NULL}
    BY <1>3, <1>4, <1>5, <1>6
  <2>3. /\ ChainOK'
        /\ \A i \in Ids : Chain'[i] = Chain[i]
        /\ Chain'[n] = IF revisions'[n].parent = NULL
                       THEN <<revisions'[n].candidate>>
                       ELSE Append(Chain[revisions'[n].parent],
                                   revisions'[n].candidate)
    BY <1>6, <2>1, <2>2, ChainExtends
  <2> QED
    BY <1>6, <2>3
<1>8. /\ active'[x] = n
      /\ \A w \in Worlds \ {x} : active'[w] = active[w]
  BY <1>3, <1>4 DEF IInv, Types
<1>9. PICK old, new : old = historyBar /\ new = historyBar'
  OBVIOUS
<1>10. new[x] = Append(old[x], k)
  <2>1. new[x] = Chain'[n]
    BY <1>3, <1>6, <1>8, <1>9 DEF historyBar
  <2>2. old[x] = IF t.parent = NULL THEN <<>> ELSE Chain[t.parent]
    BY <1>3, <1>4, <1>9 DEF historyBar
  <2>3. Append(<<>>, k) = <<k>>
    OBVIOUS
  <2> QED
    BY <1>7, <2>1, <2>2, <2>3
<1>11. ASSUME NEW w \in Worlds \ {x} PROVE new[w] = old[w]
  <2>1. active[w] \in Ids \cup {NULL} /\ active'[w] = active[w]
    BY <1>5, <1>8
  <2>2. new[w] = IF active'[w] = NULL THEN <<>> ELSE Chain'[active'[w]]
    BY <1>9 DEF historyBar
  <2>3. old[w] = IF active[w] = NULL THEN <<>> ELSE Chain[active[w]]
    BY <1>9 DEF historyBar
  <2> QED
    BY <1>7, <2>1, <2>2, <2>3
<1>12. new = [old EXCEPT ![x] = Append(@, k)]
  <2>1. old = [w \in Worlds |-> old[w]] /\ new = [w \in Worlds |-> new[w]]
    BY <1>9 DEF historyBar
  <2> QED
    BY <1>3, <1>10, <1>11, <2>1
<1>13. History!Accept(k)
  BY <1>1, <1>4, <1>9, <1>12 DEF History!Accept, History!Decide
<1> QED
  BY <1>3, <1>7, <1>13

\* Steps that leave the revisions alone leave the histories alone.
LEMMA SameChains ==
  ASSUME UNCHANGED <<active, revisions>>
  PROVE  historyBar' = historyBar /\ (ChainOK => ChainOK')
<1>1. Ids' = Ids
  BY DEF Ids
<1>2. Chain' = Chain
  BY <1>1 DEF Chain
<1>3. \A f : IsChain(f)' <=> IsChain(f)
  BY <1>1 DEF IsChain
<1> QED
  BY <1>2, <1>3 DEF historyBar, ChainOK

\* With no revisions the only chain is the empty function.
LEMMA ChainInit == Init => ChainOK
<1> SUFFICES ASSUME Init PROVE ChainOK
  OBVIOUS
<1>1. Ids = {}
  BY DEF Init, Ids
<1>2. \A f, g : IsChain(f) /\ IsChain(g) => f = g
  BY <1>1 DEF IsChain
<1>3. PICK f : f = [i \in {} |-> 0]
  OBVIOUS
<1>4. IsChain(f)
  BY <1>1, <1>3 DEF IsChain
<1> QED
  BY <1>2, <1>4 DEF ChainOK

\* Every step is a step of the history of one candidate, or none.
LEMMA HistoryNext ==
  ASSUME IInv, ChainOK, [Next]_vars
  PROVE  ChainOK' /\ [History!Next]_<<historyBar, status>>
<1>1. ASSUME NEW a \in Acceptors, accept_commit(a)
      PROVE  ChainOK' /\ [History!Next]_<<historyBar, status>>
  BY <1>1, CommitAppends DEF History!Next
<1>2. ASSUME NEW k \in Candidates, create(k) \/ reject(k)
      PROVE  ChainOK' /\ [History!Next]_<<historyBar, status>>
  <2>1. historyBar' = historyBar /\ ChainOK'
    BY <1>2, SameChains DEF create, reject
  <2> QED
    BY <1>2, <2>1 DEF create, reject, History!Next, History!Propose, History!Reject,
                      History!Decide
<1>3. ASSUME UNCHANGED <<active, revisions, status>>
      PROVE  ChainOK' /\ [History!Next]_<<historyBar, status>>
  BY <1>3, SameChains
<1> QED
  BY <1>1, <1>2, <1>3 DEF Next, vars, tables, add_validation, InsertValidation, accept,
                          accept_rollback

\* The history of a world, read off the revisions from the active one back, is an
\* append-only log of accepted candidates: no step of accept, of a validation, of a
\* rejection or of a rollback rewrites it, drops a candidate or takes one that has
\* its verdict.
THEOREM RevisionsImplementHistory == Spec => HistorySpec
<1>1. Init => History!Init
  BY DEF Init, History!Init, historyBar
<1>2. Spec => []ChainOK
  <2>1. IInv /\ ChainOK /\ [Next]_vars => ChainOK'
    BY HistoryNext
  <2> QED
    BY <2>1, ChainInit, Invariant, PTL DEF Spec
<1>3. IInv /\ ChainOK /\ [Next]_vars => [History!Next]_<<historyBar, status>>
  BY HistoryNext
<1> QED
  BY <1>1, <1>2, <1>3, Invariant, PTL DEF Spec, HistorySpec, History!Spec
=============================================================================
