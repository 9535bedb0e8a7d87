----------------------------- MODULE JobEngine -----------------------------
(***************************************************************************)
(* src/core/src/job_engine.rs: table jobs and the operations on it. Every  *)
(* operation but create and set_checkpoint is a SELECT followed, after the *)
(* connection has gone back to the pool, by a conditional UPDATE, and any  *)
(* number of tasks (command handlers, scheduler, liveness scan, one reader *)
(* per worker) run operations at once. Each statement is one step here; a  *)
(* call between its statements is kept in call[c]. A call whose checks     *)
(* fail returns without writing, so it takes no step.                      *)
(*                                                                         *)
(* The health check of start_on_worker reads a table this module does not  *)
(* have: a start here may be for any worker (WorkerRuntime has the check). *)
(* job_events is a log that no operation reads, and is left out.           *)
(***************************************************************************)
EXTENDS JobRows

CONSTANTS Jobs,          \* job ids
          Callers,       \* concurrent tasks that call the engine
          AttemptLimits  \* the values of max_attempts that jobs are created with

ASSUME AttemptLimitsAssumption == AttemptLimits \subseteq Nat \ {0}

VARIABLES job,    \* [Jobs -> Rows]: the table
          call    \* [Callers -> Calls]: the operation each caller is in

vars == <<job, call>>

Idle == [op |-> "idle"]

\* Rows a recovery has read and not yet updated; "NONE" when not (or no longer)
\* to be updated.
Recoveries == [Jobs -> {"NONE", "READY", "RECOVERABLE", "FAILED"}]

Calls ==
    {Idle}
    \cup [op : {"transition_get"}, job : Jobs, target : JobStates]
    \cup [op : {"transition"}, job : Jobs, target : JobStates, snap : Rows]
    \cup [op : {"fail"}, job : Jobs, snap : Rows]
    \cup [op : {"start"}, job : Jobs, worker : Workers, snap : Rows]
    \cup [op : {"recover_worker_lost"}, worker : Workers, targets : Recoveries]
    \cup [op : {"recover_interrupted"}, targets : Recoveries]

TypeOK == job \in [Jobs -> Rows] /\ call \in [Callers -> Calls]

Init ==
    /\ job = [j \in Jobs |-> NoRow]
    /\ call = [c \in Callers |-> Idle]

Invoke(c, record) ==
    /\ call[c] = Idle
    /\ call' = [call EXCEPT ![c] = record]
    /\ UNCHANGED job

\* The UPDATE of a call: it takes effect when its WHERE clause holds, and the
\* call returns either way.
Update(c, j, where, row) ==
    /\ job' = IF where THEN [job EXCEPT ![j] = row] ELSE job
    /\ call' = [call EXCEPT ![c] = Idle]
-----------------------------------------------------------------------------
create_with_input(j, max, idempotent) ==
    /\ job[j].state = "NONE"
    /\ job' = [job EXCEPT ![j] = NewRow(max, idempotent)]
    /\ UNCHANGED call

set_checkpoint(j) ==
    /\ job[j].state # "NONE"
    /\ job' = [job EXCEPT ![j].checkpoint = TRUE]
    /\ UNCHANGED call

TransitionCall(j, target) ==
    [op |-> "transition", job |-> j, target |-> target, snap |-> job[j]]

transition(c, j, target) ==
    /\ TransitionAllowed(job[j], target)
    /\ Invoke(c, TransitionCall(j, target))

TransitionUpdate(c) ==
    LET t == call[c] IN
    /\ t.op = "transition"
    /\ Update(c, t.job, job[t.job].state = t.snap.state,
              TransitionRow(job[t.job], t.snap, t.target))

\* Mutant of start_on_worker: off by one.
start_on_worker_late(c, j, w) ==
    /\ job[j].state = "READY"
    /\ job[j].attempt <= job[j].max
    /\ Invoke(c, [op |-> "start", job |-> j, worker |-> w, snap |-> job[j]])

start_on_worker(c, j, w) ==
    /\ job[j].state = "READY"
    /\ job[j].attempt + 1 <= job[j].max
    /\ Invoke(c, [op |-> "start", job |-> j, worker |-> w, snap |-> job[j]])

StartUpdate(c) ==
    LET s == call[c] IN
    /\ s.op = "start"
    /\ Update(c, s.job, job[s.job].state = "READY" /\ job[s.job].worker = NULL,
              StartedRow(job[s.job], s.snap, s.worker))

fail(c, j) ==
    /\ can_transition(job[j].state, "FAILED")
    /\ Invoke(c, [op |-> "fail", job |-> j, snap |-> job[j]])

FailUpdate(c) ==
    LET f == call[c] IN
    /\ f.op = "fail"
    /\ Update(c, f.job, job[f.job].state = f.snap.state,
              ReleasedRow(job[f.job], "FAILED"))

\* A job a worker executes is left to the worker: the call only logs the
\* request. Any other live job is cancelled by transition, which reads again.
request_cancel(c, j) ==
    /\ job[j].state \in JobStates \ Terminal
    /\ ~(job[j].worker # NULL /\ job[j].state \in Active)
    /\ Invoke(c, [op |-> "transition_get", job |-> j, target |-> "CANCELLED"])

TransitionGet(c) ==
    LET g == call[c] IN
    /\ g.op = "transition_get"
    /\ call' = [call EXCEPT ![c] =
                  IF TransitionAllowed(job[g.job], g.target)
                  THEN TransitionCall(g.job, g.target) ELSE Idle]
    /\ UNCHANGED job

RecoveryTargets(S) ==
    [j \in Jobs |-> IF j \in S THEN recovery_target(job[j]) ELSE "NONE"]

recover_worker_lost(c, w) ==
    LET lost == {j \in Jobs : job[j].worker = w /\ job[j].state \in Active} IN
    /\ lost # {}
    /\ Invoke(c, [op |-> "recover_worker_lost", worker |-> w,
                  targets |-> RecoveryTargets(lost)])

recover_interrupted(c) ==
    LET running == {j \in Jobs : job[j].state = "RUNNING"} IN
    /\ running # {}
    /\ Invoke(c, [op |-> "recover_interrupted",
                  targets |-> RecoveryTargets(running)])

\* The WHERE clauses of the UPDATEs of the two recoveries.
StillLost(r, row) ==
    \/ r.op = "recover_worker_lost" /\ row.worker = r.worker /\ row.state \in Active
    \/ r.op = "recover_interrupted" /\ row.state = "RUNNING"

RecoverUpdate(c, j) ==
    LET r == call[c] IN
    /\ r.op \in {"recover_worker_lost", "recover_interrupted"}
    /\ r.targets[j] # "NONE"
    /\ job' = IF StillLost(r, job[j])
              THEN [job EXCEPT ![j] = ReleasedRow(job[j], r.targets[j])] ELSE job
    /\ call' = [call EXCEPT ![c].targets[j] = "NONE"]

RecoverDone(c) ==
    /\ call[c].op \in {"recover_worker_lost", "recover_interrupted"}
    /\ \A j \in Jobs : call[c].targets[j] = "NONE"
    /\ call' = [call EXCEPT ![c] = Idle]
    /\ UNCHANGED job
-----------------------------------------------------------------------------
CallStep(c) ==
    \/ \E j \in Jobs, target \in JobStates : transition(c, j, target)
    \/ \E j \in Jobs, w \in Workers : start_on_worker(c, j, w)
    \/ \E j \in Jobs : fail(c, j)
    \/ \E j \in Jobs : request_cancel(c, j)
    \/ \E w \in Workers : recover_worker_lost(c, w)
    \/ recover_interrupted(c)
    \/ TransitionUpdate(c)
    \/ StartUpdate(c)
    \/ FailUpdate(c)
    \/ TransitionGet(c)
    \/ \E j \in Jobs : RecoverUpdate(c, j)
    \/ RecoverDone(c)

Next ==
    \/ \E j \in Jobs, max \in AttemptLimits, b \in BOOLEAN :
         create_with_input(j, max, b)
    \/ \E j \in Jobs : set_checkpoint(j)
    \/ \E c \in Callers : CallStep(c)

Spec == Init /\ [][Next]_vars
-----------------------------------------------------------------------------
\* Safety: only a job that is being executed names a worker, so list_ready,
\* which skips rows with a worker, never hides a READY job from the scheduler,
\* and no terminal job keeps a worker. transition writes a worker it read
\* before the UPDATE, so this rests on what every caller in flight has read.
AssignedOnlyWhileActive ==
    \A j \in Jobs : job[j].worker # NULL => job[j].state \in Active

\* Safety: whatever the interleaving of starts, recoveries and stale writes,
\* no job records more attempts than its max_attempts.
AttemptWithinMax == \A j \in Jobs : job[j].attempt <= job[j].max

\* Action: a job that has completed, failed or been cancelled is never touched
\* again, though calls that read it before it ended still have their UPDATE to
\* make (a late result, a late pause, a recovery of its worker).
TerminalFinal ==
    [][\A j \in Jobs : job[j].state \in Terminal =>
         job'[j] = [job[j] EXCEPT !.checkpoint = job'[j].checkpoint]]_vars

\* Refinement: the table, whatever its callers do, goes through the lifecycle
\* of JobLifecycle.
LifeOf(row) == [state |-> row.state, idempotent |-> row.idempotent,
                checkpoint |-> row.checkpoint]
lifeBar == [j \in Jobs |-> LifeOf(job[j])]
Lifecycle == INSTANCE JobLifecycle WITH life <- lifeBar
LifecycleSpec == Lifecycle!Spec
=============================================================================
