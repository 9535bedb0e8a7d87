--------------------------- MODULE WorldRevisions ---------------------------
(***************************************************************************)
(* How a candidate becomes part of a world: candidate_service.rs and the   *)
(* revisions of world_repository.rs, over tables worlds, world_revisions,  *)
(* candidates and validation_results.                                      *)
(*                                                                         *)
(* accept is one database transaction of several statements; creating,     *)
(* validating and rejecting a candidate are statements of their own, and   *)
(* add_validation first reads the candidate in another. Any number of      *)
(* tasks do all of this at once. SQLite lets a transaction write only if   *)
(* what it has read is still the state of the database: it fails the       *)
(* transaction, or makes the other writer fail, otherwise.                 *)
(***************************************************************************)
EXTENDS Naturals, FiniteSets, Sequences

CONSTANTS Worlds,
          Candidates,
          WorldOf,         \* [Candidates -> Worlds]: candidates.world_id
          Acceptors,       \* tasks that execute ACCEPT_CANDIDATE
          Validators,      \* tasks that validate candidates
          MaxValidations,  \* bound on the validations started
          NULL

ASSUME WorldOfAssumption == WorldOf \in [Candidates -> Worlds]
ASSUME NoRevisionAssumption == NULL \notin Nat

VARIABLES active,       \* [Worlds -> Nat \cup {NULL}]: active_revision_id
          revisions,    \* Seq([parent, world, candidate]): a revision's id is its index
          status,       \* [Candidates -> {"NONE", "PENDING", "ACCEPTED", "REJECTED"}]
          validations,  \* Seq([candidate, result, at]): rows in rowid order
          clock,        \* the time that created_at is taken from
          task          \* [Tasks -> where the task stands]

tables == <<active, revisions, status, validations>>
vars == <<active, revisions, status, validations, clock, task>>

Tasks == Acceptors \cup Validators
Idle == [op |-> "idle"]
Results == {"PASSED", "FAILED"}

Goto(t, record) == task' = [task EXCEPT ![t] = record]

Init ==
    /\ active = [w \in Worlds |-> NULL]
    /\ revisions = <<>>
    /\ status = [k \in Candidates |-> "NONE"]
    /\ validations = <<>>
    /\ clock = 0
    /\ task = [t \in Tasks |-> Idle]

create(k) ==
    /\ status[k] = "NONE"
    /\ status' = [status EXCEPT ![k] = "PENDING"]
    /\ UNCHANGED <<active, revisions, validations, clock, task>>
-----------------------------------------------------------------------------
Started == Len(validations) + Cardinality({v \in Validators : task[v] # Idle})

\* The candidate is read, and created_at is the time then.
add_validation(v, k, result) ==
    /\ task[v] = Idle
    /\ Started < MaxValidations
    /\ status[k] = "PENDING"
    /\ clock' \in {clock, clock + 1}
    /\ Goto(v, [op |-> "insert", row |-> [candidate |-> k, result |-> result,
                                          at |-> clock']])
    /\ UNCHANGED tables

\* Mutant of PendingAtInsert: there is no trigger.
NoTrigger(row) == TRUE

\* trg_validation_requires_pending_candidate lets the row in.
PendingAtInsert(row) == status[row.candidate] = "PENDING"

InsertValidation(v) ==
    LET row == task[v].row IN
    /\ task[v].op = "insert"
    /\ Goto(v, Idle)
    /\ validations' = IF PendingAtInsert(row) THEN Append(validations, row)
                                              ELSE validations
    /\ UNCHANGED <<active, revisions, status, clock>>
-----------------------------------------------------------------------------
\* i orders after j in ORDER BY created_at, rowid.
Later(rows, i, j) ==
    \/ rows[i].at > rows[j].at
    \/ rows[i].at = rows[j].at /\ i > j

\* The validations of k that order after all its others: one, if it has any.
Newest(rows, k) ==
    LET mine == {i \in DOMAIN rows : rows[i].candidate = k}
    IN  {i \in mine : \A j \in mine \ {i} : Later(rows, i, j)}

\* The status of the latest validation of k among rows, "NONE" if it has none.
LatestIn(rows, k) ==
    IF Newest(rows, k) = {} THEN "NONE"
    ELSE rows[CHOOSE i \in Newest(rows, k) : TRUE].result

LatestValidation(k) == LatestIn(validations, k)

\* The SELECTs of the transaction. A call whose expected parent is not the
\* world's active revision is refused here, so it is left out.
accept(a, k) ==
    /\ task[a] = Idle
    /\ status[k] = "PENDING"
    /\ LatestValidation(k) = "PASSED"
    /\ Goto(a, [op |-> "accept", candidate |-> k, parent |-> active[WorldOf[k]],
                read |-> tables])
    /\ UNCHANGED <<tables, clock>>

\* The revision, the world that now points to it, and the candidate.
AddRevision(t) ==
    revisions' = Append(revisions, [parent |-> t.parent, candidate |-> t.candidate,
                                    world |-> WorldOf[t.candidate]])

Activate(t) == active' = [active EXCEPT ![WorldOf[t.candidate]] = Len(revisions) + 1]
MarkAccepted(t) == status' = [status EXCEPT ![t.candidate] = "ACCEPTED"]

\* Mutants of accept_commit: it writes whatever has happened since it read, and
\* a candidate that has changed is not a reason to roll back.
accept_commit_blind(a) ==
    LET t == task[a] IN
    /\ t.op = "accept"
    /\ Goto(a, Idle)
    /\ AddRevision(t) /\ Activate(t) /\ MarkAccepted(t)
    /\ UNCHANGED <<validations, clock>>

accept_commit(a) ==
    LET t == task[a] IN
    /\ t.op = "accept"
    /\ tables = t.read
    /\ active[WorldOf[t.candidate]] = t.parent
    /\ status[t.candidate] = "PENDING"
    /\ Goto(a, Idle)
    /\ AddRevision(t) /\ Activate(t) /\ MarkAccepted(t)
    /\ UNCHANGED <<validations, clock>>

\* The transaction is rolled back: the database is busy, a WHERE clause does not
\* hold, or the Core stops.
accept_rollback(a) ==
    /\ task[a].op = "accept"
    /\ Goto(a, Idle)
    /\ UNCHANGED <<tables, clock>>

\* Mutant of reject: the WHERE clause has only the id.
reject_any(k) ==
    /\ status[k] # "NONE"
    /\ status' = [status EXCEPT ![k] = "REJECTED"]
    /\ UNCHANGED <<active, revisions, validations, clock, task>>

reject(k) ==
    /\ status[k] = "PENDING"
    /\ status' = [status EXCEPT ![k] = "REJECTED"]
    /\ UNCHANGED <<active, revisions, validations, clock, task>>
-----------------------------------------------------------------------------
Next ==
    \/ \E k \in Candidates : create(k) \/ reject(k)
    \/ \E v \in Validators : \/ \E k \in Candidates, r \in Results :
                                  add_validation(v, k, r)
                             \/ InsertValidation(v)
    \/ \E a \in Acceptors : \/ \E k \in Candidates : accept(a, k)
                            \/ accept_commit(a)
                            \/ accept_rollback(a)

Spec == Init /\ [][Next]_vars
-----------------------------------------------------------------------------
Ids == DOMAIN revisions

TypeOK ==
    /\ active \in [Worlds -> Ids \cup {NULL}]
    /\ \A i \in Ids : revisions[i] \in [parent : Ids \cup {NULL}, world : Worlds,
                                        candidate : Candidates]
    /\ status \in [Candidates -> {"NONE", "PENDING", "ACCEPTED", "REJECTED"}]
    /\ \A i \in DOMAIN validations :
         validations[i] \in [candidate : Candidates, result : Results, at : 0..clock]
    /\ \A v \in Validators :
         task[v] = Idle \/ task[v].row.candidate \in Candidates

\* Safety: the revisions of a world are one chain that ends in its active
\* revision: nothing branches off and no revision is lost, though tasks accept
\* candidates of the same world at the same time.
LinearHistory ==
    \A w \in Worlds :
      LET mine == {i \in Ids : revisions[i].world = w} IN
      /\ \A i, j \in mine : revisions[i].parent = revisions[j].parent => i = j
      /\ \A i \in mine : revisions[i].parent \in mine \cup {NULL}
      /\ {i \in mine : \A j \in mine : revisions[j].parent # i} = {active[w]} \ {NULL}

\* Safety: the validation that orders last of an accepted candidate is one that
\* PASSED, also if validators were at work while it was accepted.
AcceptedWasPassed ==
    \A k \in Candidates : status[k] = "ACCEPTED" => LatestValidation(k) = "PASSED"

\* Refinement: the history read off the revisions, from the active one back,
\* is an append-only log of the candidates that are ACCEPTED, each once, and none
\* that was rejected meanwhile.
Chain[i \in Ids] ==
    LET r == revisions[i] IN
    IF r.parent = NULL THEN <<r.candidate>>
                       ELSE Append(Chain[r.parent], r.candidate)
historyBar == [w \in Worlds |-> IF active[w] = NULL THEN <<>> ELSE Chain[active[w]]]
History == INSTANCE WorldHistory WITH history <- historyBar, verdict <- status
HistorySpec == History!Spec
=============================================================================
