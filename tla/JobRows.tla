------------------------------ MODULE JobRows ------------------------------
(***************************************************************************)
(* The rows of table jobs and the decisions job_engine.rs takes on one row *)
(* without reading anything else. Every module that touches a job uses     *)
(* these definitions, so the state machine is written once.                *)
(***************************************************************************)
EXTENDS Naturals

CONSTANTS Workers,   \* worker ids that assigned_worker_id may name
          NULL       \* SQL NULL

ASSUME NullAssumption == NULL \notin Workers

JobStates == {"CREATED", "PENDING", "READY", "RUNNING", "WAITING_RESOURCE",
              "WAITING_PROVIDER", "WAITING_USER", "PAUSING", "PAUSED",
              "RECOVERABLE", "FAILED", "CANCELLED", "COMPLETED", "BLOCKED"}

Terminal == {"FAILED", "CANCELLED", "COMPLETED"}

\* The states in which a worker executes the job.
Active == {"RUNNING", "PAUSING"}

Waiting == {"WAITING_RESOURCE", "WAITING_PROVIDER", "WAITING_USER"}

\* A row; state "NONE" stands for an id that has no row yet.
Rows == [state : JobStates \cup {"NONE"}, attempt : Nat, max : Nat,
         idempotent : BOOLEAN, worker : Workers \cup {NULL},
         checkpoint : BOOLEAN]

NoRow == [state |-> "NONE", attempt |-> 0, max |-> 0, idempotent |-> FALSE,
          worker |-> NULL, checkpoint |-> FALSE]

NewRow(max, idempotent) ==
    [NoRow EXCEPT !.state = "CREATED", !.max = max, !.idempotent = idempotent]

can_transition(from, to) ==
    \/ from = "CREATED"     /\ to \in {"PENDING", "READY", "CANCELLED"}
    \/ from = "PENDING"     /\ to \in {"READY", "BLOCKED", "CANCELLED"}
    \/ from = "READY"       /\ to \in {"RUNNING", "CANCELLED"} \cup Waiting
    \/ from \in Waiting     /\ to \in {"READY", "FAILED", "CANCELLED"}
    \/ from = "RUNNING"     /\ to \in {"PAUSING", "RECOVERABLE"} \cup Terminal
    \/ from = "PAUSING"     /\ to \in {"PAUSED"} \cup Terminal
    \/ from = "PAUSED"      /\ to \in {"READY", "CANCELLED"}
    \/ from = "RECOVERABLE" /\ to \in {"READY", "FAILED", "CANCELLED"}
    \/ from = "BLOCKED"     /\ to \in {"PENDING", "READY", "FAILED", "CANCELLED"}

\* Mutants of releases_worker: PAUSED, or not only PAUSED, is in the wrong arm.
paused_keeps_worker(state) ==
    state \in {"READY", "RECOVERABLE", "BLOCKED"} \cup Terminal

pausing_releases_worker(state) ==
    state \in {"READY", "PAUSING", "PAUSED", "RECOVERABLE", "BLOCKED"} \cup Terminal

releases_worker(state) ==
    state \in {"READY", "PAUSED", "RECOVERABLE", "BLOCKED"} \cup Terminal

\* Mutants of recovery_target: the fault is recorded as a state, any job with attempts
\* left goes back to the queue, and so does one whose attempts are used up.
recovery_target_lost(row) == IF row.checkpoint THEN "RECOVERABLE" ELSE "WORKER_LOST"

recovery_target_any(row) == IF row.attempt < row.max THEN "READY" ELSE "FAILED"

recovery_target_last(row) ==
    IF row.checkpoint THEN "RECOVERABLE"
    ELSE IF row.idempotent /\ row.attempt <= row.max THEN "READY"
    ELSE "FAILED"

recovery_target(row) ==
    IF row.checkpoint THEN "RECOVERABLE"
    ELSE IF row.idempotent /\ row.attempt < row.max THEN "READY"
    ELSE "FAILED"

\* The checks transition makes between its SELECT and its UPDATE; a call that
\* does not pass them returns without writing.
TransitionAllowed(snap, target) ==
    /\ snap.state # target
    /\ can_transition(snap.state, target)
    /\ target = "RUNNING" => snap.attempt + 1 <= snap.max

\* Mutant of TransitionRow: a resumed job starts counting again.
TransitionRowReset(row, snap, target) ==
    [row EXCEPT !.state = target,
                !.attempt = IF target = "READY" THEN 0 ELSE snap.attempt,
                !.worker = IF releases_worker(target) THEN NULL ELSE snap.worker]

\* What the UPDATE of transition writes: the state, and the attempt and worker
\* computed from the row the SELECT saw.
TransitionRow(row, snap, target) ==
    [row EXCEPT !.state   = target,
                !.attempt = IF target = "RUNNING" THEN snap.attempt + 1
                                                  ELSE snap.attempt,
                !.worker  = IF releases_worker(target) THEN NULL
                                                       ELSE snap.worker]

\* What the UPDATEs of fail and of the two recoveries write.
ReleasedRow(row, target) == [row EXCEPT !.state = target, !.worker = NULL]

StartedRow(row, snap, worker) ==
    [row EXCEPT !.state = "RUNNING", !.attempt = snap.attempt + 1,
                !.worker = worker]
=============================================================================
