-------------------------- MODULE JobEngineProofs --------------------------
(***************************************************************************)
(* Proofs about JobEngine, for any jobs, callers, workers and attempt      *)
(* limits.                                                                 *)
(*                                                                         *)
(* A call writes what it read one or more steps earlier, so no property of *)
(* the table is inductive without what the calls in flight have read. The  *)
(* inductive invariant adds CallOK: a snapshot satisfies what the table    *)
(* satisfies, passed the checks of its operation, and agrees with its row  *)
(* on the columns that never change (RowStable).                           *)
(*                                                                         *)
(* The last part is about JobGraph, the dependency half of the engine, for *)
(* any jobs and tasks.                                                     *)
(***************************************************************************)
EXTENDS JobEngine, JobGraph, TLAPS

\* The columns a step may change, and how: a row is never deleted, max_attempts
\* and idempotent are written once, a checkpoint is never removed.
RowStable(old, new) ==
    old.state # "NONE" => /\ new.state # "NONE"
                          /\ new.max = old.max
                          /\ new.idempotent = old.idempotent
                          /\ old.checkpoint => new.checkpoint

RowOK(row) ==
    /\ row.worker # NULL => row.state \in Active
    /\ row.attempt <= row.max

SnapOK(t) ==
    /\ RowOK(t.snap)
    /\ job[t.job].state # "NONE"
    /\ job[t.job].max = t.snap.max

RecoveryOK(targets) ==
    \A j \in Jobs :
        /\ targets[j] # "NONE" => job[j].state # "NONE"
        /\ targets[j] = "READY" => job[j].idempotent
        /\ targets[j] = "RECOVERABLE" => job[j].checkpoint

CallOK(t) ==
    /\ t.op = "transition" => SnapOK(t) /\ TransitionAllowed(t.snap, t.target)
    /\ t.op = "fail" => SnapOK(t) /\ can_transition(t.snap.state, "FAILED")
    /\ t.op = "start" => /\ SnapOK(t)
                         /\ t.snap.state = "READY"
                         /\ t.snap.attempt + 1 <= t.snap.max
    /\ t.op \in {"recover_worker_lost", "recover_interrupted"} =>
         RecoveryOK(t.targets)

RowsOK == \A j \in Jobs : RowOK(job[j])
CallsOK == \A c \in Callers : CallOK(call[c])

IInv == TypeOK /\ RowsOK /\ CallsOK
-----------------------------------------------------------------------------
\* Initially there are no rows and no calls.
LEMMA InitInv == Init => IInv
<1> SUFFICES ASSUME Init PROVE IInv
  OBVIOUS
<1>1. NoRow \in Rows /\ RowOK(NoRow)
  BY DEF NoRow, Rows, RowOK
<1>2. TypeOK /\ RowsOK
  BY <1>1 DEF Init, TypeOK, RowsOK, Calls
<1>3. CallsOK
  BY DEF Init, CallsOK, CallOK, Idle
<1> QED
  BY <1>2, <1>3 DEF IInv

\* What a call has read stays true while other calls change rows stably.
LEMMA CallOKStable ==
  ASSUME job \in [Jobs -> Rows], NEW t \in Calls, CallOK(t),
         \A j \in Jobs : RowStable(job[j], job'[j])
  PROVE  CallOK(t)'
<1>1. t.op \in {"transition", "fail", "start"} => t.job \in Jobs
  BY DEF Calls, Idle
<1>2. ASSUME t.job \in Jobs, SnapOK(t) PROVE SnapOK(t)'
  BY <1>2 DEF SnapOK, RowStable, RowOK
<1>3. ASSUME RecoveryOK(t.targets) PROVE RecoveryOK(t.targets)'
  BY <1>3 DEF RecoveryOK, RowStable
<1> QED
  BY <1>1, <1>2, <1>3 DEF CallOK

\* The same for a call that does not step.
LEMMA OthersOK ==
  ASSUME IInv, \A j \in Jobs : RowStable(job[j], job'[j]),
         NEW d \in Callers, call'[d] = call[d]
  PROVE  CallOK(call[d])'
<1>1. PICK t \in Calls : t = call[d] /\ CallOK(t)
  BY DEF IInv, TypeOK, CallsOK
<1>2. CallOK(t)'
  BY <1>1, CallOKStable DEF IInv, TypeOK
<1> QED
  BY <1>1, <1>2 DEF CallOK, SnapOK, RecoveryOK

\* An invariant-preserving step of a caller: rows change stably, and the caller
\* is left in a sound call.
LEMMA StepInv ==
  ASSUME IInv, NEW c \in Callers, NEW t \in Calls,
         call' = [call EXCEPT ![c] = t],
         job' \in [Jobs -> Rows], RowsOK',
         \A j \in Jobs : RowStable(job[j], job'[j]),
         CallOK(t)'
  PROVE  IInv'
<1>1. TypeOK'
  BY DEF IInv, TypeOK
<1>2. ASSUME NEW d \in Callers PROVE CallOK(call[d])'
  <2>1. CASE d = c
    <3>1. call'[d] = t
      BY <2>1 DEF IInv, TypeOK
    <3> QED
      BY <3>1 DEF CallOK, SnapOK, RecoveryOK
  <2>2. CASE d # c
    <3>1. call'[d] = call[d]
      BY <2>2 DEF IInv, TypeOK
    <3> QED
      BY <3>1, OthersOK
  <2> QED
    BY <2>1, <2>2
<1> QED
  BY <1>1, <1>2 DEF IInv, CallsOK

\* Changing one row soundly keeps the table sound.
LEMMA TableOK ==
  ASSUME IInv, NEW j \in Jobs, NEW row \in Rows,
         job' = [job EXCEPT ![j] = row], RowOK(row), RowStable(job[j], row)
  PROVE  /\ job' \in [Jobs -> Rows]
         /\ RowsOK'
         /\ \A i \in Jobs : RowStable(job[i], job'[i])
  BY DEF IInv, TypeOK, RowsOK, RowOK, RowStable

\* A step that changes one row soundly and makes no call.
LEMMA InsertInv ==
  ASSUME IInv, NEW j \in Jobs, NEW row \in Rows, UNCHANGED call,
         job' = [job EXCEPT ![j] = row], RowOK(row), RowStable(job[j], row)
  PROVE  IInv'
<1>1. \A d \in Callers : CallOK(call[d])'
  BY TableOK, OthersOK
<1> QED
  BY <1>1, TableOK DEF IInv, TypeOK, CallsOK

\* A step that only reads: the table is as it was.
LEMMA ReadInv ==
  ASSUME IInv, NEW c \in Callers, NEW t \in Calls, UNCHANGED job,
         call' = [call EXCEPT ![c] = t], CallOK(t)
  PROVE  IInv'
<1>1. job' \in [Jobs -> Rows] /\ RowsOK'
  BY DEF IInv, TypeOK, RowsOK, RowOK
<1>2. \A j \in Jobs : RowStable(job[j], job'[j])
  BY DEF RowStable
<1>3. CallOK(t)'
  BY DEF CallOK, SnapOK, RecoveryOK
<1> QED
  BY <1>1, <1>2, <1>3, StepInv

\* A step that changes one row soundly and leaves its call sound.
LEMMA WriteInv ==
  ASSUME IInv, NEW c \in Callers, NEW t \in Calls, NEW j \in Jobs,
         NEW row \in Rows, job' = [job EXCEPT ![j] = row],
         call' = [call EXCEPT ![c] = t],
         RowOK(row), RowStable(job[j], row), CallOK(t)
  PROVE  IInv'
<1>1. CallOK(t)'
  BY TableOK, CallOKStable DEF IInv, TypeOK
<1> QED
  BY <1>1, TableOK, StepInv

LEMMA IdleOK == Idle \in Calls /\ CallOK(Idle)
  BY DEF Idle, Calls, CallOK

\* Assigning a row's state, attempt and worker yields a row.
LEMMA RowUpdate ==
  ASSUME NEW row \in Rows, NEW s \in JobStates, NEW a \in Nat,
         NEW w \in Workers \cup {NULL}
  PROVE  [row EXCEPT !.state = s, !.attempt = a, !.worker = w] \in Rows
  BY DEF Rows

\* The rows that the updates write are rows, sound, and stable with respect to
\* the row they replace.
LEMMA TransitionRowOK ==
  ASSUME NEW row \in Rows, NEW snap \in Rows, NEW target \in JobStates,
         RowOK(snap), snap.max = row.max, row.state = snap.state,
         TransitionAllowed(snap, target)
  PROVE  LET new == TransitionRow(row, snap, target) IN
           new \in Rows /\ RowOK(new) /\ RowStable(row, new)
<1> DEFINE new == TransitionRow(row, snap, target)
<1>a. (IF target = "RUNNING" THEN snap.attempt + 1 ELSE snap.attempt) \in Nat
  BY DEF Rows
<1>b. (IF releases_worker(target) THEN NULL ELSE snap.worker)
        \in Workers \cup {NULL}
  BY DEF Rows
<1>1. new \in Rows
  BY <1>a, <1>b, RowUpdate DEF TransitionRow
<1>2. new.attempt <= new.max
  BY DEF TransitionRow, Rows, RowOK, TransitionAllowed
<1>3. new.worker # NULL => new.state \in Active
  BY DEF TransitionRow, Rows, RowOK, TransitionAllowed, can_transition,
         releases_worker, Active, Waiting, Terminal
<1>4. RowStable(row, new)
  BY DEF TransitionRow, Rows, RowStable, JobStates
<1> QED
  BY <1>1, <1>2, <1>3, <1>4 DEF RowOK

LEMMA ReleasedRowOK ==
  ASSUME NEW row \in Rows, RowOK(row), NEW target \in JobStates
  PROVE  LET new == ReleasedRow(row, target) IN
           new \in Rows /\ RowOK(new) /\ RowStable(row, new)
  BY DEF ReleasedRow, Rows, RowOK, RowStable, JobStates

LEMMA StartedRowOK ==
  ASSUME NEW row \in Rows, NEW snap \in Rows, NEW w \in Workers,
         snap.max = row.max, snap.attempt + 1 <= snap.max
  PROVE  LET new == StartedRow(row, snap, w) IN
           new \in Rows /\ RowOK(new) /\ RowStable(row, new)
<1>1. "RUNNING" \in JobStates /\ snap.attempt + 1 \in Nat
  BY DEF JobStates, Rows
<1>2. StartedRow(row, snap, w) \in Rows
  BY <1>1, RowUpdate DEF StartedRow
<1> QED
  BY <1>2 DEF StartedRow, Rows, RowOK, RowStable, Active

LEMMA RecoveryTargetsOK ==
  ASSUME IInv, NEW S \in SUBSET Jobs, \A j \in S : job[j].state \in Active
  PROVE  RecoveryTargets(S) \in Recoveries /\ RecoveryOK(RecoveryTargets(S))
  BY DEF RecoveryTargets, Recoveries, RecoveryOK, recovery_target, Active
-----------------------------------------------------------------------------
\* Every step of the engine preserves the inductive invariant.
LEMMA NextInv == IInv /\ [Next]_vars => IInv'
<1> SUFFICES ASSUME IInv, [Next]_vars PROVE IInv'
  OBVIOUS
<1> USE NullAssumption
<1>0. /\ job \in [Jobs -> Rows]
      /\ call \in [Callers -> Calls]
      /\ \A j \in Jobs : RowOK(job[j])
      /\ \A c \in Callers : CallOK(call[c])
  BY DEF IInv, TypeOK, RowsOK, CallsOK
<1>1. ASSUME NEW j \in Jobs, NEW max \in AttemptLimits, NEW b \in BOOLEAN,
             create_with_input(j, max, b)
      PROVE  IInv'
  <2> DEFINE row == NewRow(max, b)
  <2>1. /\ row.state = "CREATED" /\ row.attempt = 0 /\ row.max = max
        /\ row.worker = NULL /\ max \in Nat /\ max > 0
    BY AttemptLimitsAssumption DEF NewRow, NoRow
  <2>2. row \in Rows
    BY <2>1 DEF NewRow, NoRow, Rows, JobStates
  <2>3. RowOK(row) /\ RowStable(job[j], row)
    BY <1>1, <2>1 DEF create_with_input, RowOK, RowStable
  <2> QED
    BY <1>1, <2>2, <2>3, InsertInv DEF create_with_input
<1>2. ASSUME NEW j \in Jobs, set_checkpoint(j) PROVE IInv'
  <2> DEFINE row == [job[j] EXCEPT !.checkpoint = TRUE]
  <2>1. job[j] \in Rows
    BY <1>0
  <2>2. row \in Rows
    BY <2>1 DEF Rows
  <2>3. RowOK(row) /\ RowStable(job[j], row)
    BY <1>0, <2>1 DEF Rows, RowOK, RowStable
  <2>4. job' = [job EXCEPT ![j] = row]
    BY <1>2 DEF set_checkpoint
  <2> HIDE DEF row
  <2> QED
    BY <1>2, <2>2, <2>3, <2>4, InsertInv DEF set_checkpoint
<1>3. ASSUME NEW c \in Callers, CallStep(c) PROVE IInv'
  <2>1. ASSUME NEW j \in Jobs, NEW target \in JobStates, transition(c, j, target)
        PROVE  IInv'
    <3> DEFINE t == TransitionCall(j, target)
    <3>1. t \in Calls /\ CallOK(t)
      <4>1. job[j] \in Rows /\ RowOK(job[j]) /\ TransitionAllowed(job[j], target)
        BY <1>0, <2>1 DEF transition
      <4>2. job[j].state # "NONE"
        BY <4>1 DEF TransitionAllowed, can_transition, Waiting
      <4> QED
        BY <4>1, <4>2 DEF TransitionCall, Calls, CallOK, SnapOK
    <3> QED
      BY <2>1, <3>1, ReadInv DEF transition, Invoke
  <2>2. ASSUME NEW j \in Jobs, NEW w \in Workers, start_on_worker(c, j, w)
        PROVE  IInv'
    <3> DEFINE t == [op |-> "start", job |-> j, worker |-> w, snap |-> job[j]]
    <3>1. t \in Calls /\ CallOK(t)
      BY <1>0, <2>2 DEF start_on_worker, Calls, CallOK, SnapOK
    <3> QED
      BY <2>2, <3>1, ReadInv DEF start_on_worker, Invoke
  <2>3. ASSUME NEW j \in Jobs, fail(c, j) PROVE IInv'
    <3> DEFINE t == [op |-> "fail", job |-> j, snap |-> job[j]]
    <3>1. t \in Calls /\ CallOK(t)
      <4>1. job[j].state # "NONE"
        BY <2>3 DEF fail, can_transition, Waiting
      <4> QED
        BY <1>0, <2>3, <4>1 DEF fail, Calls, CallOK, SnapOK
    <3> QED
      BY <2>3, <3>1, ReadInv DEF fail, Invoke
  <2>4. ASSUME NEW j \in Jobs, request_cancel(c, j) PROVE IInv'
    <3> DEFINE t == [op |-> "transition_get", job |-> j, target |-> "CANCELLED"]
    <3>1. t \in Calls /\ CallOK(t)
      BY DEF Calls, CallOK, JobStates
    <3> QED
      BY <2>4, <3>1, ReadInv DEF request_cancel, Invoke
  <2>5. ASSUME NEW w \in Workers, recover_worker_lost(c, w) PROVE IInv'
    <3> DEFINE lost == {j \in Jobs : job[j].worker = w /\ job[j].state \in Active}
               t == [op |-> "recover_worker_lost", worker |-> w,
                     targets |-> RecoveryTargets(lost)]
    <3>1. RecoveryTargets(lost) \in Recoveries /\ RecoveryOK(RecoveryTargets(lost))
      BY RecoveryTargetsOK
    <3>2. t \in Calls /\ CallOK(t)
      BY <3>1 DEF Calls, CallOK
    <3> QED
      BY <2>5, <3>2, ReadInv DEF recover_worker_lost, Invoke
  <2>6. CASE recover_interrupted(c)
    <3> DEFINE running == {j \in Jobs : job[j].state = "RUNNING"}
               t == [op |-> "recover_interrupted",
                     targets |-> RecoveryTargets(running)]
    <3>1. RecoveryTargets(running) \in Recoveries
          /\ RecoveryOK(RecoveryTargets(running))
      BY RecoveryTargetsOK DEF Active
    <3>2. t \in Calls /\ CallOK(t)
      BY <3>1 DEF Calls, CallOK
    <3> QED
      BY <2>6, <3>2, ReadInv DEF recover_interrupted, Invoke
  <2>7. CASE TransitionUpdate(c)
    <3>1. PICK t \in Calls : t = call[c] /\ CallOK(t) /\ t.op = "transition"
      BY <1>0, <2>7 DEF TransitionUpdate
    <3>2. t.job \in Jobs /\ t.snap \in Rows /\ t.target \in JobStates
          /\ SnapOK(t) /\ TransitionAllowed(t.snap, t.target)
      BY <3>1 DEF Calls, Idle, CallOK
    <3> DEFINE row == TransitionRow(job[t.job], t.snap, t.target)
    <3>3. CASE job[t.job].state = t.snap.state
      <4>1. row \in Rows /\ RowOK(row) /\ RowStable(job[t.job], row)
        BY <1>0, <3>2, <3>3, TransitionRowOK DEF SnapOK
      <4>2. job' = [job EXCEPT ![t.job] = row] /\ call' = [call EXCEPT ![c] = Idle]
        BY <2>7, <3>1, <3>3 DEF TransitionUpdate, Update
      <4> HIDE DEF row
      <4> QED
        BY <3>2, <4>1, <4>2, IdleOK, WriteInv
    <3>4. CASE job[t.job].state # t.snap.state
      BY <2>7, <3>1, <3>4, IdleOK, ReadInv DEF TransitionUpdate, Update
    <3> QED
      BY <3>3, <3>4
  <2>8. CASE StartUpdate(c)
    <3>1. PICK t \in Calls : t = call[c] /\ CallOK(t) /\ t.op = "start"
      BY <1>0, <2>8 DEF StartUpdate
    <3>2. t.job \in Jobs /\ t.snap \in Rows /\ t.worker \in Workers
          /\ SnapOK(t) /\ t.snap.attempt + 1 <= t.snap.max
      BY <3>1 DEF Calls, Idle, CallOK
    <3> DEFINE row == StartedRow(job[t.job], t.snap, t.worker)
               where == job[t.job].state = "READY" /\ job[t.job].worker = NULL
    <3>3. CASE where
      <4>1. row \in Rows /\ RowOK(row) /\ RowStable(job[t.job], row)
        BY <1>0, <3>2, StartedRowOK DEF SnapOK
      <4>2. job' = [job EXCEPT ![t.job] = row] /\ call' = [call EXCEPT ![c] = Idle]
        BY <2>8, <3>1, <3>3 DEF StartUpdate, Update
      <4> HIDE DEF row
      <4> QED
        BY <3>2, <4>1, <4>2, IdleOK, WriteInv
    <3>4. CASE ~where
      BY <2>8, <3>1, <3>4, IdleOK, ReadInv DEF StartUpdate, Update
    <3> QED
      BY <3>3, <3>4
  <2>9. CASE FailUpdate(c)
    <3>1. PICK t \in Calls : t = call[c] /\ CallOK(t) /\ t.op = "fail"
      BY <1>0, <2>9 DEF FailUpdate
    <3>2. t.job \in Jobs
      BY <3>1 DEF Calls, Idle
    <3> DEFINE row == ReleasedRow(job[t.job], "FAILED")
    <3>3. CASE job[t.job].state = t.snap.state
      <4>1. row \in Rows /\ RowOK(row) /\ RowStable(job[t.job], row)
        BY <1>0, <3>2, ReleasedRowOK DEF JobStates
      <4>2. job' = [job EXCEPT ![t.job] = row] /\ call' = [call EXCEPT ![c] = Idle]
        BY <2>9, <3>1, <3>3 DEF FailUpdate, Update
      <4> HIDE DEF row
      <4> QED
        BY <3>2, <4>1, <4>2, IdleOK, WriteInv
    <3>4. CASE job[t.job].state # t.snap.state
      BY <2>9, <3>1, <3>4, IdleOK, ReadInv DEF FailUpdate, Update
    <3> QED
      BY <3>3, <3>4
  <2>10. CASE TransitionGet(c)
    <3>1. PICK g \in Calls : g = call[c] /\ g.op = "transition_get"
      BY <1>0, <2>10 DEF TransitionGet
    <3>2. g.job \in Jobs /\ g.target \in JobStates
      BY <3>1 DEF Calls, Idle
    <3> DEFINE t == TransitionCall(g.job, g.target)
    <3>3. CASE TransitionAllowed(job[g.job], g.target)
      <4>1. t \in Calls /\ CallOK(t)
        <5>1. job[g.job] \in Rows /\ RowOK(job[g.job])
          BY <1>0, <3>2
        <5>2. job[g.job].state # "NONE"
          BY <3>3 DEF TransitionAllowed, can_transition, Waiting
        <5> QED
          BY <3>2, <3>3, <5>1, <5>2 DEF TransitionCall, Calls, CallOK, SnapOK
      <4>2. UNCHANGED job /\ call' = [call EXCEPT ![c] = t]
        BY <2>10, <3>1, <3>3 DEF TransitionGet
      <4> HIDE DEF t
      <4> QED
        BY <4>1, <4>2, ReadInv
    <3>4. CASE ~TransitionAllowed(job[g.job], g.target)
      BY <2>10, <3>1, <3>4, IdleOK, ReadInv DEF TransitionGet
    <3> QED
      BY <3>3, <3>4
  <2>11. ASSUME NEW j \in Jobs, RecoverUpdate(c, j) PROVE IInv'
    <3>1. PICK r \in Calls : /\ r = call[c] /\ CallOK(r)
                             /\ r.op \in {"recover_worker_lost", "recover_interrupted"}
      BY <1>0, <2>11 DEF RecoverUpdate
    <3> DEFINE t == [r EXCEPT !.targets[j] = "NONE"]
               row == ReleasedRow(job[j], r.targets[j])
    <3>2. r.targets \in Recoveries /\ r.targets[j] # "NONE" /\ RecoveryOK(r.targets)
      BY <2>11, <3>1 DEF RecoverUpdate, Calls, Idle, CallOK
    <3>3. t \in Calls /\ CallOK(t)
      <4>1. /\ t.op = r.op
            /\ t.targets = [r.targets EXCEPT ![j] = "NONE"]
        BY <3>1 DEF Calls, Idle
      <4>2. t.targets \in Recoveries /\ RecoveryOK(t.targets)
        BY <3>2, <4>1 DEF Recoveries, RecoveryOK
      <4>3. t \in Calls
        BY <3>1, <3>2, <4>2 DEF Calls, Idle
      <4> QED
        BY <3>1, <4>1, <4>2, <4>3 DEF CallOK
    <3>4. call' = [call EXCEPT ![c] = t]
      BY <2>11, <3>1 DEF RecoverUpdate
    <3>5. CASE StillLost(r, job[j])
      <4>1. r.targets[j] \in JobStates
        BY <3>2 DEF Recoveries, JobStates
      <4>2. row \in Rows /\ RowOK(row) /\ RowStable(job[j], row)
        BY <1>0, <4>1, ReleasedRowOK
      <4>3. job' = [job EXCEPT ![j] = row]
        BY <2>11, <3>1, <3>5 DEF RecoverUpdate
      <4> HIDE DEF row, t
      <4> QED
        BY <3>3, <3>4, <4>2, <4>3, WriteInv
    <3>6. CASE ~StillLost(r, job[j])
      <4>1. UNCHANGED job
        BY <2>11, <3>1, <3>6 DEF RecoverUpdate
      <4> HIDE DEF t
      <4> QED
        BY <3>3, <3>4, <4>1, ReadInv
    <3> QED
      BY <3>5, <3>6
  <2>12. CASE RecoverDone(c)
    BY <2>12, IdleOK, ReadInv DEF RecoverDone
  <2> QED
    BY <1>3, <2>1, <2>2, <2>3, <2>4, <2>5, <2>6, <2>7, <2>8, <2>9, <2>10, <2>11,
       <2>12 DEF CallStep
<1>4. CASE UNCHANGED vars
  BY <1>4 DEF IInv, TypeOK, RowsOK, CallsOK, CallOK, SnapOK, RecoveryOK, vars
<1> QED
  BY <1>1, <1>2, <1>3, <1>4 DEF Next

LEMMA Invariance == Spec => []IInv
<1>1. Init => IInv
  BY InitInv
<1>2. IInv /\ [Next]_vars => IInv'
  BY NextInv
<1> QED
  BY <1>1, <1>2, PTL DEF Spec

\* The table and the calls in flight always have their declared shape.
THEOREM TypeCorrect == Spec => []TypeOK
<1>1. IInv => TypeOK
  BY DEF IInv
<1> QED
  BY <1>1, Invariance, PTL

\* Only a job that is being executed names a worker: transition, fail and both
\* recoveries clear assigned_worker_id on every way out of RUNNING and PAUSING,
\* also when what they write was read before another caller's update.
THEOREM AssignmentCorrect == Spec => []AssignedOnlyWhileActive
<1>1. IInv => AssignedOnlyWhileActive
  BY DEF IInv, RowsOK, RowOK, AssignedOnlyWhileActive
<1> QED
  BY <1>1, Invariance, PTL

\* No interleaving of start_on_worker and transition records more attempts than
\* max_attempts.
THEOREM AttemptCorrect == Spec => []AttemptWithinMax
<1>1. IInv => AttemptWithinMax
  BY DEF IInv, RowsOK, RowOK, AttemptWithinMax
<1> QED
  BY <1>1, Invariance, PTL
-----------------------------------------------------------------------------
\* What one step does to one row, whoever takes it: it inserts the row, sets the
\* checkpoint, moves it along an edge of the lifecycle, takes it from a lost
\* worker, or leaves it alone.
Inserted(old, new) ==
    /\ old.state = "NONE"
    /\ \E max \in AttemptLimits, b \in BOOLEAN : new = NewRow(max, b)

Checkpointed(old, new) ==
    old.state # "NONE" /\ new = [old EXCEPT !.checkpoint = TRUE]

Moved(old, new) ==
    \E to \in JobStates, a \in Nat, w \in Workers \cup {NULL} :
      /\ can_transition(old.state, to)
      /\ new = [old EXCEPT !.state = to, !.attempt = a, !.worker = w]

Released(old, new) ==
    \E to \in JobStates : can_transition(old.state, to) /\ new = ReleasedRow(old, to)

Recovered(old, new) ==
    /\ old.state \in Active
    /\ \E to \in {"READY", "RECOVERABLE", "FAILED"} :
         /\ to = "READY" => old.idempotent
         /\ to = "RECOVERABLE" => old.checkpoint
         /\ new = ReleasedRow(old, to)

RowStep(old, new) ==
    \/ new = old
    \/ Inserted(old, new)
    \/ Checkpointed(old, new)
    \/ Moved(old, new)
    \/ Released(old, new)
    \/ Recovered(old, new)

\* At most one row changes in a step, and it changes by RowStep.
LEMMA OneRowSteps ==
  IInv /\ [Next]_vars =>
    \/ UNCHANGED job
    \/ \E j \in Jobs, row \in Rows :
         RowStep(job[j], row) /\ job' = [job EXCEPT ![j] = row]
<1> SUFFICES ASSUME IInv, [Next]_vars
             PROVE  \/ UNCHANGED job
                    \/ \E j \in Jobs, row \in Rows :
                         RowStep(job[j], row) /\ job' = [job EXCEPT ![j] = row]
  OBVIOUS
<1> USE NullAssumption
<1>0. /\ job \in [Jobs -> Rows]
      /\ call \in [Callers -> Calls]
      /\ \A c \in Callers : CallOK(call[c])
      /\ job' \in [Jobs -> Rows]
  BY NextInv DEF IInv, TypeOK, CallsOK
<1>w. ASSUME NEW j \in Jobs, NEW row, job' = [job EXCEPT ![j] = row],
             RowStep(job[j], row)
      PROVE  \E i \in Jobs, new \in Rows :
               RowStep(job[i], new) /\ job' = [job EXCEPT ![i] = new]
  BY <1>0, <1>w
<1>1. ASSUME NEW j \in Jobs, NEW max \in AttemptLimits, NEW b \in BOOLEAN,
             create_with_input(j, max, b)
      PROVE  RowStep(job[j], NewRow(max, b))
             /\ job' = [job EXCEPT ![j] = NewRow(max, b)]
  BY <1>1 DEF create_with_input, RowStep, Inserted
<1>2. ASSUME NEW j \in Jobs, set_checkpoint(j)
      PROVE  \E row : RowStep(job[j], row) /\ job' = [job EXCEPT ![j] = row]
  BY <1>2 DEF set_checkpoint, RowStep, Checkpointed
<1>3. ASSUME NEW c \in Callers, CallStep(c), ~UNCHANGED job
      PROVE  \E j \in Jobs : \E row :
               RowStep(job[j], row) /\ job' = [job EXCEPT ![j] = row]
  <2>1. CASE TransitionUpdate(c)
    <3>1. PICK t \in Calls : t = call[c] /\ CallOK(t) /\ t.op = "transition"
      BY <1>0, <2>1 DEF TransitionUpdate
    <3>2. /\ t.job \in Jobs /\ t.snap \in Rows /\ t.target \in JobStates
          /\ TransitionAllowed(t.snap, t.target)
      BY <3>1 DEF Calls, Idle, CallOK
    <3>3. /\ job[t.job].state = t.snap.state
          /\ job' = [job EXCEPT ![t.job] =
                       TransitionRow(job[t.job], t.snap, t.target)]
      BY <1>3, <2>1, <3>1 DEF TransitionUpdate, Update
    <3> DEFINE a == IF t.target = "RUNNING" THEN t.snap.attempt + 1
                                            ELSE t.snap.attempt
               w == IF releases_worker(t.target) THEN NULL ELSE t.snap.worker
    <3>4. a \in Nat /\ w \in Workers \cup {NULL}
      BY <3>2 DEF Rows
    <3>5. /\ can_transition(job[t.job].state, t.target)
          /\ TransitionRow(job[t.job], t.snap, t.target)
               = [job[t.job] EXCEPT !.state = t.target, !.attempt = a, !.worker = w]
      BY <3>2, <3>3 DEF TransitionAllowed, TransitionRow
    <3> HIDE DEF a, w
    <3>6. Moved(job[t.job], TransitionRow(job[t.job], t.snap, t.target))
      <4> SUFFICES \E to \in JobStates, b \in Nat, v \in Workers \cup {NULL} :
                     /\ can_transition(job[t.job].state, to)
                     /\ TransitionRow(job[t.job], t.snap, t.target)
                          = [job[t.job] EXCEPT !.state = to, !.attempt = b,
                                               !.worker = v]
        BY DEF Moved
      <4> USE <3>2, <3>4
      <4> WITNESS t.target \in JobStates, a \in Nat, w \in Workers \cup {NULL}
      <4> QED
        BY <3>5
    <3> QED
      BY <3>2, <3>3, <3>6 DEF RowStep
  <2>2. CASE StartUpdate(c)
    <3>1. PICK t \in Calls : t = call[c] /\ t.op = "start"
      BY <1>0, <2>2 DEF StartUpdate
    <3>2. t.job \in Jobs /\ t.snap \in Rows /\ t.worker \in Workers
      BY <3>1 DEF Calls, Idle
    <3>3. /\ job[t.job].state = "READY"
          /\ job' = [job EXCEPT ![t.job] = StartedRow(job[t.job], t.snap, t.worker)]
      BY <1>3, <2>2, <3>1 DEF StartUpdate, Update
    <3>4. /\ can_transition(job[t.job].state, "RUNNING")
          /\ t.snap.attempt + 1 \in Nat /\ "RUNNING" \in JobStates
      BY <3>2, <3>3 DEF can_transition, Rows, JobStates
    <3>5. RowStep(job[t.job], StartedRow(job[t.job], t.snap, t.worker))
      BY <3>2, <3>4 DEF RowStep, Moved, StartedRow
    <3> QED
      BY <3>2, <3>3, <3>5
  <2>3. CASE FailUpdate(c)
    <3>1. PICK t \in Calls : t = call[c] /\ CallOK(t) /\ t.op = "fail"
      BY <1>0, <2>3 DEF FailUpdate
    <3>2. t.job \in Jobs /\ can_transition(t.snap.state, "FAILED")
      BY <3>1 DEF Calls, Idle, CallOK
    <3> DEFINE old == job[t.job]
    <3>3. /\ old.state = t.snap.state
          /\ job' = [job EXCEPT ![t.job] = ReleasedRow(old, "FAILED")]
      BY <1>3, <2>3, <3>1 DEF FailUpdate, Update
    <3>4. RowStep(old, ReleasedRow(old, "FAILED"))
      BY <3>2, <3>3 DEF RowStep, Released, JobStates
    <3> QED
      BY <3>2, <3>3, <3>4
  <2>4. ASSUME NEW j \in Jobs, RecoverUpdate(c, j)
        PROVE  RowStep(job[j], ReleasedRow(job[j], call[c].targets[j]))
               /\ job' = [job EXCEPT ![j] = ReleasedRow(job[j], call[c].targets[j])]
    <3>1. PICK r \in Calls : /\ r = call[c] /\ CallOK(r)
                             /\ r.op \in {"recover_worker_lost", "recover_interrupted"}
      BY <1>0, <2>4 DEF RecoverUpdate
    <3>2. /\ r.targets[j] \in {"READY", "RECOVERABLE", "FAILED"}
          /\ RecoveryOK(r.targets)
      BY <2>4, <3>1 DEF RecoverUpdate, Calls, Idle, CallOK, Recoveries
    <3>3. /\ job[j].state \in Active
          /\ job' = [job EXCEPT ![j] = ReleasedRow(job[j], r.targets[j])]
      BY <1>3, <2>4, <3>1 DEF RecoverUpdate, StillLost, Active
    <3>4. RowStep(job[j], ReleasedRow(job[j], r.targets[j]))
      BY <3>2, <3>3 DEF RowStep, Recovered, RecoveryOK
    <3> QED
      BY <3>1, <3>3, <3>4
  <2> QED
    BY <1>3, <2>1, <2>2, <2>3, <2>4
    DEF CallStep, Invoke, transition, start_on_worker, fail, request_cancel,
        recover_worker_lost, recover_interrupted, TransitionGet, RecoverDone
<1>4. CASE UNCHANGED vars
  BY <1>4 DEF vars
<1> QED
  BY <1>w, <1>1, <1>2, <1>3, <1>4 DEF Next

\* A terminal row keeps everything but its checkpoint, whatever calls that read
\* it while it was live still do.
THEOREM TerminalIsFinal == Spec => TerminalFinal
<1> DEFINE Kept(row, new) == row.state \in Terminal =>
                               new = [row EXCEPT !.checkpoint = new.checkpoint]
<1>1. ASSUME NEW old \in Rows, NEW new \in Rows, RowStep(old, new)
      PROVE  Kept(old, new)
  <2> SUFFICES ASSUME old.state \in Terminal
               PROVE  new = [old EXCEPT !.checkpoint = new.checkpoint]
    OBVIOUS
  <2>1. old.state # "NONE" /\ old.state \notin Active
        /\ \A to \in JobStates : ~can_transition(old.state, to)
    BY DEF Terminal, Active, can_transition, Waiting
  <2>2. new = old \/ new = [old EXCEPT !.checkpoint = TRUE]
    BY <1>1, <2>1
    DEF RowStep, Inserted, Checkpointed, Moved, Released, Recovered
  <2> QED
    BY <2>2 DEF Rows
<1>2. IInv /\ [Next]_vars => [\A j \in Jobs : Kept(job[j], job'[j])]_vars
  <2> SUFFICES ASSUME IInv, [Next]_vars, NEW j \in Jobs
               PROVE  Kept(job[j], job'[j])
    OBVIOUS
  <2>1. job \in [Jobs -> Rows] /\ job[j] \in Rows
    BY DEF IInv, TypeOK
  <2>2. RowStep(job[j], job[j])
    BY DEF RowStep
  <2>3. RowStep(job[j], job'[j]) /\ job'[j] \in Rows
    BY <2>1, <2>2, OneRowSteps
  <2> QED
    BY <1>1, <2>1, <2>3
<1> QED
  BY <1>2, Invariance, PTL DEF Spec, TerminalFinal
-----------------------------------------------------------------------------
\* JobLifecycle has the definitions of JobRows under names of its own.
LEMMA SameRules ==
  /\ Lifecycle!JobStates = JobStates
  /\ Lifecycle!Active = Active
  /\ \A from, to : Lifecycle!can_transition(from, to) <=> can_transition(from, to)
  BY DEF JobStates, Lifecycle!JobStates, Active, Lifecycle!Active,
         can_transition, Lifecycle!can_transition, Waiting, Lifecycle!Waiting,
         Terminal, Lifecycle!Terminal

\* A row step is a step or a stutter of the lifecycle of that row.
LEMMA LifeStep ==
  ASSUME NEW old \in Rows, NEW new \in Rows, RowStep(old, new)
  PROVE  LifeOf(new) = LifeOf(old) \/ Lifecycle!Step(LifeOf(old), LifeOf(new))
<1> DEFINE a == LifeOf(old)
           b == LifeOf(new)
<1>0. /\ a = [state |-> old.state, idempotent |-> old.idempotent,
              checkpoint |-> old.checkpoint]
      /\ b = [state |-> new.state, idempotent |-> new.idempotent,
              checkpoint |-> new.checkpoint]
  BY DEF LifeOf
<1>1. CASE new = old
  BY <1>1
<1>2. CASE Inserted(old, new)
  BY <1>0, <1>2 DEF Inserted, NewRow, NoRow, Lifecycle!Step, Lifecycle!Created
<1>3. CASE Checkpointed(old, new)
  <2>1. /\ old.state # "NONE"
        /\ new.state = old.state
        /\ new.idempotent = old.idempotent
        /\ new.checkpoint = TRUE
    BY <1>3 DEF Checkpointed, Rows
  <2> QED
    BY <1>0, <2>1 DEF Lifecycle!Step, Lifecycle!Checkpointed
<1>4. CASE Moved(old, new)
  <2>1. /\ can_transition(old.state, new.state)
        /\ new.idempotent = old.idempotent
        /\ new.checkpoint = old.checkpoint
    BY <1>4 DEF Moved, Rows
  <2> QED
    BY <1>0, <2>1, SameRules DEF Lifecycle!Step, Lifecycle!Moved
<1>5. CASE Released(old, new)
  <2>1. /\ can_transition(old.state, new.state)
        /\ new.idempotent = old.idempotent
        /\ new.checkpoint = old.checkpoint
    BY <1>5 DEF Released, ReleasedRow, Rows
  <2> QED
    BY <1>0, <2>1, SameRules DEF Lifecycle!Step, Lifecycle!Moved
<1>6. CASE Recovered(old, new)
  <2>1. /\ old.state \in Active
        /\ new.state \in {"READY", "RECOVERABLE", "FAILED"}
        /\ new.state = "READY" => old.idempotent
        /\ new.state = "RECOVERABLE" => old.checkpoint
        /\ new.idempotent = old.idempotent
        /\ new.checkpoint = old.checkpoint
    BY <1>6 DEF Recovered, ReleasedRow, Rows
  <2> QED
    BY <1>0, <2>1, SameRules DEF Lifecycle!Step, Lifecycle!WorkerLost
<1> QED
  BY <1>1, <1>2, <1>3, <1>4, <1>5, <1>6 DEF RowStep

\* The engine, with every interleaving of its callers' statements, implements
\* the lifecycle: no illegal edge, no step out of a terminal state, no retry of
\* a job that is not idempotent, no RECOVERABLE without a checkpoint.
THEOREM EngineImplementsLifecycle == Spec => LifecycleSpec
<1>1. Init => Lifecycle!Init
  BY DEF Init, Lifecycle!Init, lifeBar, LifeOf, NoRow
<1>2. IInv /\ [Next]_vars => [Lifecycle!Next]_lifeBar
  <2> SUFFICES ASSUME IInv, [Next]_vars, lifeBar' # lifeBar
               PROVE  Lifecycle!Next
    OBVIOUS
  <2>1. job \in [Jobs -> Rows]
    BY DEF IInv, TypeOK
  <2>2. PICK j \in Jobs, row \in Rows :
          RowStep(job[j], row) /\ job' = [job EXCEPT ![j] = row]
    BY OneRowSteps DEF lifeBar
  <2>3. /\ lifeBar' = [lifeBar EXCEPT ![j] = LifeOf(row)]
        /\ lifeBar[j] = LifeOf(job[j])
    BY <2>1, <2>2 DEF lifeBar
  <2>4. \A r \in Rows : LifeOf(r) \in Lifecycle!Lives
    BY SameRules DEF LifeOf, Lifecycle!Lives, Rows
  <2>5. lifeBar' \in [Jobs -> Lifecycle!Lives]
    BY <2>1, <2>3, <2>4 DEF lifeBar
  <2>6. /\ lifeBar'[j] = LifeOf(row)
        /\ \A i \in Jobs \ {j} : lifeBar'[i] = lifeBar[i]
    BY <2>3 DEF lifeBar
  <2>7. Lifecycle!Step(lifeBar[j], lifeBar'[j])
    <3>1. LifeOf(row) # LifeOf(job[j])
      BY <2>3 DEF lifeBar
    <3> QED
      BY <2>1, <2>2, <2>3, <2>6, <3>1, LifeStep
  <2> QED
    BY <2>5, <2>6, <2>7 DEF Lifecycle!Next
<1>3. Lifecycle!Spec <=> Lifecycle!Init /\ [][Lifecycle!Next]_lifeBar
  BY DEF Lifecycle!Spec
<1> QED
  BY <1>1, <1>2, <1>3, Invariance, PTL DEF Spec, LifecycleSpec
-----------------------------------------------------------------------------
(* Dependencies *)

\* A job that has ended stays as it is.
EndedStay ==
    \A j \in JobIds : state[j] \in Terminal => state'[j] = state[j]

\* Why a resolver may write what it is about to write: every required dependency
\* it read has completed, or one of them has failed for good. A dependency that
\* has ended never changes again, so what was true at the read is still true.
ReasonOK(t) ==
    t.op \in {"get", "update"} =>
      /\ t.path = <<"READY">> => \A k \in t.required : state[k] = "COMPLETED"
      /\ t.path \in {<<"BLOCKED">>, <<"PENDING", "BLOCKED">>} =>
           \E k \in t.required : state[k] \in {"FAILED", "CANCELLED"}
      /\ t.op = "update" => can_transition(t.from, Head(t.path))

ReasonsOK == \A c \in Tasks : ReasonOK(task[c])

GraphInv == GraphTypeOK /\ ReasonsOK

\* An adder whose check has passed and was not overtaken is about to add an edge
\* that closes no cycle.
InsertOK(c) ==
    task[c].op = "insert" =>
      /\ c \in Adders
      /\ task[c].job # task[c].dep
      /\ c \notin overtaken => task[c].job \notin Reachable(deps, task[c].dep)

InsertsOK == \A c \in Tasks : InsertOK(c)
-----------------------------------------------------------------------------
\* Initially there are no jobs, no dependencies and no calls.
LEMMA GraphStarts == GraphInit => GraphInv /\ InsertsOK /\ Acyclic
<1> SUFFICES ASSUME GraphInit PROVE GraphInv /\ InsertsOK /\ Acyclic
  OBVIOUS
<1>1. GraphTypeOK
  BY DEF GraphInit, GraphTypeOK, TaskStates
<1>2. ReasonsOK /\ InsertsOK
  BY DEF GraphInit, ReasonsOK, ReasonOK, InsertsOK, InsertOK, NoCall
<1>3. \A j \in JobIds : Direct(Clean, j) = {}
  BY DEF GraphInit, Direct, Clean
<1>4. \A j \in JobIds : j \notin Reachable(Clean, j)
  <2> SUFFICES ASSUME NEW j \in JobIds PROVE j \notin Reachable(Clean, j)
    OBVIOUS
  <2>1. Direct(Clean, j) \subseteq {} /\ Closed(Clean, {}) /\ {} \in SUBSET JobIds
    BY <1>3 DEF Closed
  <2> QED
    BY <2>1 DEF Reachable
<1> QED
  BY <1>1, <1>2, <1>4 DEF GraphInv, Acyclic

\* Reachable(graph, j) is closed, contains what j depends on directly, and is
\* contained in every closed set that does.
LEMMA ReachableLeast ==
  ASSUME NEW graph \in SUBSET Dependencies, NEW j \in JobIds
  PROVE  /\ Reachable(graph, j) \subseteq JobIds
         /\ Direct(graph, j) \subseteq Reachable(graph, j)
         /\ Closed(graph, Reachable(graph, j))
         /\ \A set \in SUBSET JobIds :
              Direct(graph, j) \subseteq set /\ Closed(graph, set)
              => Reachable(graph, j) \subseteq set
<1>1. \A k : Direct(graph, k) \subseteq JobIds
  BY DEF Dependencies, Direct
<1>2. \A set \in SUBSET JobIds :
        Direct(graph, j) \subseteq set /\ Closed(graph, set)
        => Reachable(graph, j) \subseteq set
  BY DEF Reachable
<1>3. Closed(graph, Reachable(graph, j))
  <2> SUFFICES ASSUME NEW k \in Reachable(graph, j), NEW i \in Direct(graph, k),
                      NEW set \in SUBSET JobIds,
                      Direct(graph, j) \subseteq set, Closed(graph, set)
               PROVE  i \in set
    BY <1>1 DEF Closed, Reachable
  <2>1. k \in set
    BY <1>2
  <2> QED
    BY <2>1 DEF Closed
<1>4. Direct(graph, j) \subseteq Reachable(graph, j)
  BY <1>1 DEF Reachable
<1> QED
  BY <1>2, <1>3, <1>4 DEF Reachable

\* Fewer edges reach fewer jobs.
LEMMA ReachableGrows ==
  ASSUME NEW graph \in SUBSET Dependencies, NEW part \in SUBSET graph,
         NEW j \in JobIds
  PROVE  Reachable(part, j) \subseteq Reachable(graph, j)
<1>1. \A k : Direct(part, k) \subseteq Direct(graph, k)
  BY DEF Direct
<1>2. PICK set \in SUBSET JobIds : /\ set = Reachable(graph, j)
                                   /\ Direct(graph, j) \subseteq set
                                   /\ Closed(graph, set)
  BY ReachableLeast
<1>3. Direct(part, j) \subseteq set /\ Closed(part, set)
  BY <1>1, <1>2 DEF Closed
<1> QED
  BY <1>2, <1>3 DEF Reachable

\* Graphs in which jobs depend directly on the same jobs reach the same.
LEMMA SameReach ==
  ASSUME NEW graph, NEW other, \A k \in JobIds : Direct(other, k) = Direct(graph, k)
  PROVE  \A j \in JobIds : Reachable(other, j) = Reachable(graph, j)
<1>1. \A set \in SUBSET JobIds : Closed(other, set) <=> Closed(graph, set)
  BY DEF Closed
<1> QED
  BY <1>1 DEF Reachable

\* What the paths of a call begin and end with.
LEMMA PathFacts ==
  /\ Head(<<"READY">>) = "READY" /\ Len(<<"READY">>) = 1
  /\ Head(<<"PENDING">>) = "PENDING" /\ Len(<<"PENDING">>) = 1
  /\ Head(<<"BLOCKED">>) = "BLOCKED" /\ Len(<<"BLOCKED">>) = 1
  /\ Head(<<"PENDING", "BLOCKED">>) = "PENDING"
  /\ Len(<<"PENDING", "BLOCKED">>) = 2
  /\ Tail(<<"PENDING", "BLOCKED">>) = <<"BLOCKED">>
  OBVIOUS

\* A path begins with a state a row may be in, and differs from the other paths.
LEMMA PathsDiffer ==
  /\ \A path \in Paths : Head(path) \in {"READY", "PENDING", "BLOCKED"}
  /\ \A path \in Paths :
       Len(path) # 1 => path = <<"PENDING", "BLOCKED">>
  /\ \A path \in Paths : Head(path) = "READY" => path = <<"READY">>
  /\ \A path \in Paths : Head(path) = "BLOCKED" => path = <<"BLOCKED">>
  BY PathFacts DEF Paths

\* A reason outlives what the other tasks do meanwhile.
LEMMA ReasonStays ==
  ASSUME EndedStay, NEW t \in TaskStates, ReasonOK(t)
  PROVE  ReasonOK(t)'
<1>1. CASE t.op \notin {"get", "update"}
  BY <1>1 DEF ReasonOK
<1>2. CASE t.op \in {"get", "update"}
  <2>1. t.required \subseteq JobIds
    BY <1>2 DEF TaskStates, NoCall
  <2>2. ASSUME NEW k \in t.required, state[k] \in Terminal
        PROVE  state'[k] = state[k]
    BY <2>1, <2>2 DEF EndedStay
  <2> QED
    BY <1>2, <2>2 DEF ReasonOK, Terminal
<1> QED
  BY <1>1, <1>2

\* The invariant, when each call stands still or has its reason after the step.
LEMMA GraphKept ==
  ASSUME GraphInv, EndedStay, state' \in [JobIds -> JobStates \cup {"NONE"}],
         task' \in [Tasks -> TaskStates],
         \A c \in Tasks : task'[c] = task[c] \/ ReasonOK(task[c])',
         deps' \subseteq Dependencies,
         \A d, e \in deps' : d.job = e.job /\ d.dep = e.dep => d = e
  PROVE  GraphInv'
<1>1. GraphTypeOK'
  BY DEF GraphTypeOK
<1>2. ASSUME NEW c \in Tasks, task'[c] = task[c]
      PROVE  ReasonOK(task[c])'
  <2>1. task[c] \in TaskStates /\ ReasonOK(task[c])
    BY DEF GraphInv, GraphTypeOK, ReasonsOK
  <2>2. PICK r \in TaskStates : r = task[c] /\ ReasonOK(r)
    BY <2>1
  <2>3. ReasonOK(r)'
    BY <2>2, ReasonStays
  <2> QED
    BY <1>2, <2>2, <2>3 DEF ReasonOK
<1> QED
  BY <1>1, <1>2 DEF GraphInv, ReasonsOK

\* The same when one call steps and dependencies stay.
LEMMA GraphCallStep ==
  ASSUME GraphInv, EndedStay, state' \in [JobIds -> JobStates \cup {"NONE"}],
         NEW c \in Tasks, NEW t \in TaskStates, Goto(c, t),
         ReasonOK(t)', UNCHANGED deps
  PROVE  GraphInv'
<1>1. /\ task' \in [Tasks -> TaskStates]
      /\ task'[c] = t
      /\ \A d \in Tasks \ {c} : task'[d] = task[d]
  BY DEF GraphInv, GraphTypeOK, Goto
<1>2. ReasonOK(task[c])'
  BY <1>1 DEF ReasonOK
<1> QED
  BY <1>1, <1>2, GraphKept DEF GraphInv, GraphTypeOK

\* No edge leaves a state that is final or of no row, and every edge leads to a
\* state.
LEMMA Edges ==
  /\ \A from \in Terminal \cup {"NONE"} : \A to : ~can_transition(from, to)
  /\ \A from, to : can_transition(from, to) => to \in JobStates
  BY DEF JobStates, Terminal, can_transition, Waiting

\* Rows step along edges of the state machine, so a job that has ended stays.
LEMMA OneStateSteps ==
  ASSUME GraphTypeOK, NEW j \in JobIds, NEW to,
         state' = [state EXCEPT ![j] = to],
         (state[j] = "NONE" /\ to = "CREATED") \/ can_transition(state[j], to)
  PROVE  EndedStay /\ state' \in [JobIds -> JobStates \cup {"NONE"}]
<1>1. state[j] \notin Terminal /\ to \in JobStates
  BY Edges DEF Terminal, JobStates
<1>2. state \in [JobIds -> JobStates \cup {"NONE"}]
  BY Edges DEF GraphTypeOK
<1> QED
  BY <1>1, <1>2 DEF EndedStay

\* What is left after a transition has the reason the call had before it.
LEMMA AfterOK ==
  ASSUME NEW t \in TaskStates, t.op \in {"get", "update"}, ReasonOK(t)
  PROVE  AfterTransition(t) \in TaskStates /\ ReasonOK(AfterTransition(t))
<1>1. t.path \in Paths /\ t.job \in JobIds /\ t.required \in SUBSET JobIds
  BY DEF TaskStates, NoCall
<1>2. CASE Len(t.path) = 1
  <2>1. AfterTransition(t) = NoCall
    BY <1>2 DEF AfterTransition
  <2> QED
    BY <2>1 DEF TaskStates, NoCall, ReasonOK
<1>3. CASE Len(t.path) # 1
  <2>1. t.path = <<"PENDING", "BLOCKED">>
    BY <1>1, <1>3, PathsDiffer
  <2>2. AfterTransition(t) =
          [op |-> "get", job |-> t.job, path |-> <<"BLOCKED">>,
           required |-> t.required]
    BY <1>3, <2>1, PathFacts DEF AfterTransition
  <2>3. <<"BLOCKED">> \in Paths
    BY DEF Paths
  <2>4. AfterTransition(t) \in TaskStates
    BY <1>1, <2>2, <2>3 DEF TaskStates
  <2>5. \E k \in t.required : state[k] \in {"FAILED", "CANCELLED"}
    BY <2>1 DEF ReasonOK
  <2>6. <<"BLOCKED">> # <<"READY">>
    BY PathFacts
  <2> QED
    BY <2>2, <2>4, <2>5, <2>6 DEF ReasonOK
<1> QED
  BY <1>2, <1>3

\* The first state a resolver makes for is what it read, so it has its reason.
LEMMA ResolvedReason ==
  ASSUME GraphTypeOK, NEW j \in JobIds, NEW current \in JobStates
  PROVE  LET required == Required(j)
             target == ResolvedState(required)
             path == IF current = "CREATED" /\ target = "BLOCKED"
                     THEN <<"PENDING", "BLOCKED">> ELSE <<target>>
             t == [op |-> "get", job |-> j, path |-> path, required |-> required]
         IN  t \in TaskStates /\ ReasonOK(t)
<1> DEFINE required == Required(j)
           target == ResolvedState(required)
           path == IF current = "CREATED" /\ target = "BLOCKED"
                   THEN <<"PENDING", "BLOCKED">> ELSE <<target>>
           t == [op |-> "get", job |-> j, path |-> path, required |-> required]
<1>1. required \in SUBSET JobIds
  BY DEF GraphTypeOK, Dependencies, Required
<1>2. target \in {"READY", "PENDING", "BLOCKED"}
  BY DEF ResolvedState
<1>3. path \in Paths
  BY <1>2 DEF Paths
<1>4. t \in TaskStates
  BY <1>1, <1>3 DEF TaskStates
<1>5. path = <<"READY">> => target = "READY"
  BY <1>2, PathFacts
<1>6. path \in {<<"BLOCKED">>, <<"PENDING", "BLOCKED">>} => target = "BLOCKED"
  BY <1>2, PathFacts
<1>7. target = "READY" => \A k \in required : state[k] = "COMPLETED"
  BY DEF ResolvedState
<1>8. target = "BLOCKED" => \E k \in required : state[k] \in {"FAILED", "CANCELLED"}
  BY DEF ResolvedState
<1>9. ReasonOK(t)
  <2> HIDE DEF path, required, target
  <2>1. t.path = path /\ t.required = required /\ t.op = "get"
    OBVIOUS
  <2> HIDE DEF t
  <2> QED
    BY <1>5, <1>6, <1>7, <1>8, <2>1 DEF ReasonOK
<1> QED
  BY <1>4, <1>9

\* Inserting an edge keeps the table keyed by its two ends.
LEMMA InsertKeyed ==
  ASSUME GraphInv, NEW c \in Tasks, InsertDependency(c)
  PROVE  GraphInv' /\ EndedStay
<1> DEFINE t == task[c]
<1>1. t \in [op : {"insert"}, job : JobIds, dep : JobIds, optional : BOOLEAN]
  BY DEF GraphInv, GraphTypeOK, TaskStates, InsertDependency, NoCall
<1>2. PICK edge \in Dependencies :
        /\ edge = [job |-> t.job, dep |-> t.dep, optional |-> t.optional]
        /\ deps' = {d \in deps : <<d.job, d.dep>> # <<edge.job, edge.dep>>}
                   \cup {edge}
  BY <1>1 DEF InsertDependency, Dependencies
<1>3. /\ deps \subseteq Dependencies
      /\ \A d, e \in deps : d.job = e.job /\ d.dep = e.dep => d = e
  BY DEF GraphInv, GraphTypeOK
<1>4. deps' \subseteq Dependencies
  BY <1>2, <1>3
<1>5. \A d, e \in deps' : d.job = e.job /\ d.dep = e.dep => d = e
  BY <1>2, <1>3
<1>6. EndedStay /\ state' \in [JobIds -> JobStates \cup {"NONE"}]
  BY Edges DEF GraphInv, GraphTypeOK, InsertDependency, EndedStay
<1>7. /\ task' \in [Tasks -> TaskStates]
      /\ task'[c] = NoCall
      /\ \A d \in Tasks \ {c} : task'[d] = task[d]
  BY DEF GraphInv, GraphTypeOK, InsertDependency, Goto, TaskStates
<1>8. ReasonOK(task[c])'
  BY <1>7 DEF ReasonOK, NoCall
<1> QED
  BY <1>4, <1>5, <1>6, <1>7, <1>8, GraphKept

\* A step of transition: the reason passes from the SELECT to the UPDATE, and
\* over to what is left of the call.
LEMMA TransitionKeeps ==
  ASSUME GraphInv, NEW c \in Tasks, MoveStep(c)
  PROVE  GraphInv' /\ EndedStay
<1>1. PICK t \in TaskStates : t = task[c] /\ ReasonOK(t)
  BY DEF GraphInv, GraphTypeOK, ReasonsOK
<1>2. NoCall \in TaskStates /\ ReasonOK(NoCall)
  BY DEF TaskStates, NoCall, ReasonOK
<1>3. CASE MoveGet(c)
  <2>1. t.op = "get" /\ UNCHANGED <<state, deps>>
    BY <1>1, <1>3 DEF MoveGet
  <2>2. t \in [op : {"get"}, job : JobIds, path : Paths,
               required : SUBSET JobIds]
    BY <2>1 DEF TaskStates, NoCall
  <2>3. EndedStay /\ state' \in [JobIds -> JobStates \cup {"NONE"}]
    BY <2>1, Edges DEF GraphInv, GraphTypeOK, EndedStay
  <2>4. PICK r \in TaskStates : Goto(c, r) /\ ReasonOK(r)
    <3>1. CASE state[t.job] = Head(t.path)
      <4>1. Goto(c, AfterTransition(t))
        BY <1>1, <1>3, <3>1 DEF MoveGet
      <4> QED
        BY <1>1, <2>1, <4>1, AfterOK
    <3>2. CASE state[t.job] # Head(t.path)
               /\ can_transition(state[t.job], Head(t.path))
      <4> DEFINE r == [op |-> "update", job |-> t.job, path |-> t.path,
                       required |-> t.required, from |-> state[t.job]]
      <4>1. Goto(c, r)
        BY <1>1, <1>3, <3>2, Edges DEF MoveGet
      <4>2. state[t.job] \in JobStates
        BY <2>2, <3>2, Edges DEF GraphInv, GraphTypeOK
      <4>3. r \in TaskStates
        BY <2>2, <4>2, Edges DEF TaskStates
      <4>4. ReasonOK(r)
        BY <1>1, <2>1, <3>2 DEF ReasonOK
      <4> QED
        BY <4>1, <4>3, <4>4
    <3>3. CASE state[t.job] # Head(t.path)
               /\ ~can_transition(state[t.job], Head(t.path))
      <4>1. Goto(c, NoCall)
        BY <1>1, <1>3, <3>3, Edges DEF MoveGet
      <4> QED
        BY <1>2, <4>1
    <3> QED
      BY <3>1, <3>2, <3>3
  <2>5. ReasonOK(r)'
    BY <2>3, <2>4, ReasonStays
  <2> QED
    BY <2>1, <2>3, <2>4, <2>5, GraphCallStep
<1>4. CASE MoveUpdate(c)
  <2>1. t.op = "update" /\ UNCHANGED deps
    BY <1>1, <1>4 DEF MoveUpdate
  <2>2. t.job \in JobIds /\ can_transition(t.from, Head(t.path))
    BY <1>1, <2>1 DEF TaskStates, NoCall, ReasonOK
  <2>3. CASE state[t.job] = t.from
    <3>1. /\ state' = [state EXCEPT ![t.job] = Head(t.path)]
          /\ Goto(c, AfterTransition(t))
      BY <1>1, <1>4, <2>3 DEF MoveUpdate
    <3>2. EndedStay /\ state' \in [JobIds -> JobStates \cup {"NONE"}]
      BY <2>2, <2>3, <3>1, OneStateSteps DEF GraphInv
    <3>3. PICK r \in TaskStates : Goto(c, r) /\ ReasonOK(r)
      BY <1>1, <2>1, <3>1, AfterOK
    <3>4. ReasonOK(r)'
      BY <3>2, <3>3, ReasonStays
    <3> QED
      BY <2>1, <3>2, <3>3, <3>4, GraphCallStep
  <2>4. CASE state[t.job] # t.from
    <3>1. UNCHANGED state /\ Goto(c, NoCall)
      BY <1>1, <1>4, <2>4 DEF MoveUpdate
    <3>2. EndedStay /\ state' \in [JobIds -> JobStates \cup {"NONE"}]
      BY <3>1, Edges DEF GraphInv, GraphTypeOK, EndedStay
    <3>3. ReasonOK(NoCall)'
      BY DEF NoCall, ReasonOK
    <3> QED
      BY <1>2, <2>1, <3>1, <3>2, <3>3, GraphCallStep
  <2> QED
    BY <2>3, <2>4
<1> QED
  BY <1>3, <1>4 DEF MoveStep

\* Every step keeps the invariant, and no step moves a job that has ended.
LEMMA GraphNextInv == GraphInv /\ [GraphNext]_graphVars => GraphInv' /\ EndedStay
<1> SUFFICES ASSUME GraphInv, [GraphNext]_graphVars
             PROVE  GraphInv' /\ EndedStay
  OBVIOUS
<1>0. /\ state \in [JobIds -> JobStates \cup {"NONE"}]
      /\ deps \subseteq Dependencies
      /\ \A d, e \in deps : d.job = e.job /\ d.dep = e.dep => d = e
      /\ task \in [Tasks -> TaskStates]
  BY Edges DEF GraphInv, GraphTypeOK
<1>1. ASSUME UNCHANGED state PROVE EndedStay
  BY <1>1 DEF EndedStay
<1>2. ASSUME EndedStay, state' \in [JobIds -> JobStates \cup {"NONE"}],
             UNCHANGED <<deps, task>>
      PROVE  GraphInv'
  BY <1>0, <1>2, GraphKept
<1>3. ASSUME NEW c \in Tasks, NEW t \in TaskStates, Goto(c, t),
             ReasonOK(t), UNCHANGED <<state, deps>>
      PROVE  GraphInv' /\ EndedStay
  <2>1. EndedStay
    BY <1>1, <1>3
  <2>2. ReasonOK(t)'
    BY <1>3, <2>1, ReasonStays
  <2> QED
    BY <1>0, <1>3, <2>1, <2>2, GraphCallStep
<1>4. CASE \E j \in JobIds : create(j) \/ Execute(j)
  <2>1. PICK j \in JobIds : create(j) \/ Execute(j)
    BY <1>4
  <2>2. PICK to :
          /\ state' = [state EXCEPT ![j] = to]
          /\ (state[j] = "NONE" /\ to = "CREATED") \/ can_transition(state[j], to)
          /\ UNCHANGED <<deps, task>>
    BY <2>1, Edges DEF create, Execute
  <2> QED
    BY <1>2, <2>2, OneStateSteps DEF GraphInv
<1>5. CASE \E c \in Adders : AddStep(c)
  <2>1. PICK c \in Adders : AddStep(c)
    BY <1>5
  <2>2. c \in Tasks
    BY DEF Tasks
  <2>3. ASSUME NEW j \in JobIds, NEW k \in JobIds, NEW b \in BOOLEAN,
               add_dependency(c, j, k, b)
        PROVE  GraphInv' /\ EndedStay
    <3> DEFINE t == [op |-> "insert", job |-> j, dep |-> k, optional |-> b]
    <3>1. t \in TaskStates /\ ReasonOK(t)
      BY DEF TaskStates, ReasonOK
    <3>2. Goto(c, t) /\ UNCHANGED <<state, deps>>
      BY <2>3 DEF add_dependency
    <3> QED
      BY <1>3, <2>2, <3>1, <3>2
  <2> QED
    BY <2>1, <2>2, <2>3, InsertKeyed DEF AddStep
<1>6. CASE \E c \in Resolvers : ResolveStep(c)
  <2>1. PICK c \in Resolvers : ResolveStep(c)
    BY <1>6
  <2>2. c \in Tasks
    BY DEF Tasks
  <2>3. ASSUME NEW j \in JobIds, resolve_dependencies(c, j)
        PROVE  GraphInv' /\ EndedStay
    <3> DEFINE t == [op |-> "resolve", job |-> j, current |-> state[j]]
    <3>1. state[j] \in JobStates
      BY <2>3 DEF resolve_dependencies, JobStates
    <3>2. t \in TaskStates /\ ReasonOK(t)
      BY <3>1, Edges DEF TaskStates, ReasonOK
    <3>3. Goto(c, t) /\ UNCHANGED <<state, deps>>
      BY <2>3 DEF resolve_dependencies
    <3> QED
      BY <1>3, <2>2, <3>2, <3>3
  <2>4. CASE ReadDependencies(c)
    <3>1. PICK t \in TaskStates : t = task[c]
      BY <1>0, <2>2
    <3>2. t.op = "resolve" /\ t.job \in JobIds /\ t.current \in JobStates
      BY <2>4, <3>1, Edges DEF ReadDependencies, TaskStates, NoCall
    <3> DEFINE required == Required(t.job)
               target == ResolvedState(required)
               path == IF t.current = "CREATED" /\ target = "BLOCKED"
                       THEN <<"PENDING", "BLOCKED">> ELSE <<target>>
               r == [op |-> "get", job |-> t.job, path |-> path,
                     required |-> required]
    <3>3. r \in TaskStates /\ ReasonOK(r)
      BY <3>2, ResolvedReason DEF GraphInv
    <3>4. NoCall \in TaskStates /\ ReasonOK(NoCall)
      BY DEF TaskStates, NoCall, ReasonOK
    <3>5. /\ Goto(c, NoCall) \/ Goto(c, r)
          /\ UNCHANGED <<state, deps>>
      BY <2>4, <3>1 DEF ReadDependencies
    <3> HIDE DEF r
    <3> QED
      BY <1>3, <2>2, <3>3, <3>4, <3>5
  <2> QED
    BY <2>1, <2>3, <2>4 DEF ResolveStep
<1>7. CASE \E c \in Resumers, j \in JobIds : resume_job(c, j)
  <2>1. PICK c \in Resumers, j \in JobIds : resume_job(c, j)
    BY <1>7
  <2> DEFINE t == [op |-> "get", job |-> j, path |-> <<"READY">>, required |-> {}]
  <2>2. t \in TaskStates /\ c \in Tasks
    BY DEF TaskStates, Tasks, Paths
  <2>3. ReasonOK(t)
    BY PathFacts DEF ReasonOK
  <2>4. Goto(c, t) /\ UNCHANGED <<state, deps>>
    BY <2>1 DEF resume_job
  <2> QED
    BY <1>3, <2>2, <2>3, <2>4
<1>8. CASE \E c \in Resolvers \cup Resumers : MoveStep(c)
  <2>1. PICK c \in Tasks : MoveStep(c)
    BY <1>8 DEF Tasks
  <2> QED
    BY <2>1, TransitionKeeps
<1>9. CASE UNCHANGED graphVars
  <2>1. UNCHANGED <<state, deps, task>>
    BY <1>9 DEF graphVars
  <2> QED
    BY <1>0, <1>1, <1>2, <2>1
<1> QED
  BY <1>4, <1>5, <1>6, <1>7, <1>8, <1>9 DEF GraphNext

LEMMA GraphInvariance == GraphSpec => []GraphInv
<1>1. GraphInit => GraphInv
  BY GraphStarts
<1>2. GraphInv /\ [GraphNext]_graphVars => GraphInv'
  BY GraphNextInv
<1> QED
  BY <1>1, <1>2, PTL DEF GraphSpec

\* Job states, edges and calls have their types, and an edge is there once.
THEOREM GraphTypes == GraphSpec => []GraphTypeOK
<1>1. GraphInv => GraphTypeOK
  BY DEF GraphInv
<1> QED
  BY <1>1, GraphInvariance, PTL

\* When resolve_dependencies writes READY every required dependency it read has
\* completed, and when it writes BLOCKED one of them has failed for good, whatever
\* ran since it read them: the reason a call carries is there at its UPDATE.
THEOREM ResolverHasCause == GraphSpec => ResolvedForCause
<1> DEFINE Cause(c) ==
      (MoveUpdate(c) /\ state[task[c].job] = task[c].from) =>
        LET to == Head(task[c].path)
            required == task[c].required IN
        /\ to = "READY" => \A k \in required : state[k] = "COMPLETED"
        /\ to = "BLOCKED" => \E k \in required : state[k] \in {"FAILED", "CANCELLED"}
<1>1. GraphInv => \A c \in Resolvers : Cause(c)
  <2> SUFFICES ASSUME GraphInv, NEW c \in Resolvers, MoveUpdate(c)
               PROVE  Cause(c)
    OBVIOUS
  <2>1. PICK t \in TaskStates : t = task[c] /\ t.op = "update" /\ ReasonOK(t)
    BY DEF GraphInv, GraphTypeOK, ReasonsOK, Tasks, MoveUpdate
  <2>2. t.path \in Paths
    BY <2>1 DEF TaskStates, NoCall
  <2>3. /\ Head(t.path) = "READY" => t.path = <<"READY">>
        /\ Head(t.path) = "BLOCKED" => t.path = <<"BLOCKED">>
    BY <2>2, PathsDiffer
  <2> QED
    BY <2>1, <2>3 DEF ReasonOK
<1>2. GraphInv => [\A c \in Resolvers : Cause(c)]_graphVars
  BY <1>1
<1> QED
  BY <1>2, GraphInvariance, PTL DEF GraphSpec, ResolvedForCause

\* An edge from a to b closes no cycle when there was none, a is not b, and b
\* does not depend on a: for every job there is a closed set that holds what it
\* depends on and not the job.
LEMMA InsertAcyclic ==
  ASSUME NEW graph \in SUBSET Dependencies, NEW next \in SUBSET Dependencies,
         \A j \in JobIds : j \notin Reachable(graph, j),
         NEW a \in JobIds, NEW b \in JobIds, a # b, a \notin Reachable(graph, b),
         Direct(next, a) \subseteq Direct(graph, a) \cup {b},
         \A j \in JobIds \ {a} : Direct(next, j) \subseteq Direct(graph, j)
  PROVE  \A j \in JobIds : j \notin Reachable(next, j)
<1> SUFFICES ASSUME NEW j \in JobIds PROVE j \notin Reachable(next, j)
  OBVIOUS
<1>1. ASSUME NEW set \in SUBSET JobIds, j \notin set,
             Direct(next, j) \subseteq set, Closed(next, set)
      PROVE  j \notin Reachable(next, j)
  BY <1>1 DEF Reachable
<1>2. PICK J, B : J = Reachable(graph, j) /\ B = Reachable(graph, b)
  OBVIOUS
<1>3. /\ J \subseteq JobIds /\ Direct(graph, j) \subseteq J /\ Closed(graph, J)
      /\ B \subseteq JobIds /\ Direct(graph, b) \subseteq B /\ Closed(graph, B)
  BY <1>2, ReachableLeast
<1>4. j \notin J
  BY <1>2
<1>5. CASE a \notin J \cup {j}
  <2>1. Direct(next, j) \subseteq J /\ Closed(next, J)
    BY <1>3, <1>5 DEF Closed
  <2> QED
    BY <1>1, <1>3, <1>4, <2>1
<1>6. CASE a \in J \cup {j}
  <2>1. j # b
    BY <1>2, <1>6
  <2>2. j \notin B
    <3> SUFFICES ASSUME j \in B PROVE FALSE
      OBVIOUS
    <3>1. Direct(graph, j) \subseteq B
      BY <1>3 DEF Closed
    <3>2. J \subseteq B
      BY <1>2, <1>3, <3>1, ReachableLeast
    <3> QED
      BY <1>2, <1>6, <3>2
  <2>3. PICK set : set = J \cup {b} \cup B
    OBVIOUS
  <2>4. Closed(next, set)
    <3> SUFFICES ASSUME NEW k \in set PROVE Direct(next, k) \subseteq set
      BY DEF Closed
    <3>1. Direct(graph, k) \subseteq set
      BY <1>3, <2>3 DEF Closed
    <3>2. k \in JobIds
      BY <1>3, <2>3
    <3> QED
      BY <2>3, <3>1, <3>2
  <2>5. Direct(next, j) \subseteq set
    BY <1>3, <2>3
  <2> QED
    BY <1>1, <1>3, <1>4, <2>1, <2>2, <2>3, <2>4, <2>5
<1> QED
  BY <1>5, <1>6

\* An INSERT keeps the edges that no race has let in free of cycles, and what the
\* other adders are about to do harmless, unless it overtakes them.
LEMMA InsertKeeps ==
  ASSUME GraphInv, GraphInv', InsertsOK, Acyclic, NEW c \in Tasks, InsertDependency(c)
  PROVE  InsertsOK' /\ Acyclic'
<1>0. /\ GraphTypeOK /\ GraphTypeOK' /\ task \in [Tasks -> TaskStates]
      /\ deps \subseteq Dependencies /\ deps' \subseteq Dependencies
      /\ Clean \subseteq deps /\ Clean' \subseteq deps'
  BY DEF GraphInv, GraphTypeOK, Clean
<1>1. PICK t \in TaskStates : t = task[c] /\ t.op = "insert"
  BY <1>0 DEF InsertDependency
<1>2. PICK a \in JobIds, b \in JobIds : a = t.job /\ b = t.dep
  BY <1>1 DEF TaskStates, NoCall
<1>3. /\ c \in Adders /\ a # b
      /\ c \notin overtaken => a \notin Reachable(deps, b)
  BY <1>1, <1>2 DEF InsertsOK, InsertOK
<1>4. PICK edge : edge = [job |-> a, dep |-> b, optional |-> t.optional]
  OBVIOUS
<1>5. /\ edge.job = a /\ edge.dep = b
      /\ deps' = {d \in deps : <<d.job, d.dep>> # <<a, b>>} \cup {edge}
      /\ Record(c, <<a, b>>)
  BY <1>1, <1>2, <1>4 DEF InsertDependency
<1>6. /\ task'[c] = NoCall
      /\ \A d \in Tasks \ {c} : task'[d] = task[d]
  BY <1>0 DEF InsertDependency, Goto
<1>7. PICK new \in BOOLEAN : new = \A d \in deps : <<d.job, d.dep>> # <<a, b>>
  OBVIOUS
<1>8. ~new => \A j : Direct(deps', j) = Direct(deps, j)
  BY <1>5, <1>7 DEF Direct
<1>9. ASSUME NEW d \in Tasks PROVE InsertOK(d)'
  <2>1. CASE d = c
    BY <1>6, <2>1 DEF InsertOK, NoCall
  <2>2. CASE d # c /\ new
    <3>1. d \in Adders /\ task[d].op = "insert" => d \in overtaken'
      BY <1>5, <1>7, <2>2 DEF Record
    <3> QED
      BY <1>6, <2>2, <3>1 DEF InsertsOK, InsertOK
  <2>3. CASE d # c /\ ~new
    <3>1. \A j \in JobIds : Reachable(deps', j) = Reachable(deps, j)
      BY <1>8, <2>3, SameReach
    <3>2. overtaken' = overtaken \ {c}
      BY <1>5, <1>7, <2>3 DEF Record
    <3>3. task[d].op = "insert" => task[d].dep \in JobIds
      BY <1>0 DEF TaskStates, NoCall
    <3> QED
      BY <1>6, <2>3, <3>1, <3>2, <3>3 DEF InsertsOK, InsertOK
  <2> QED
    BY <2>1, <2>2, <2>3
<1>10. CASE c \in overtaken
  <2>1. raced' = IF new THEN raced \cup {<<a, b>>} ELSE raced
    BY <1>5, <1>7, <1>10 DEF Record
  <2>2. \A j : Direct(Clean', j) = Direct(Clean, j)
    <3>1. CASE new
      <4>1. Clean' = Clean
        BY <1>5, <1>7, <2>1, <3>1 DEF Clean
      <4> QED
        BY <4>1
    <3>2. CASE ~new
      <4>1. \A j, k : (\E d \in deps' : d.job = j /\ d.dep = k)
                        <=> (\E d \in deps : d.job = j /\ d.dep = k)
        BY <1>5, <1>7, <3>2
      <4>2. ASSUME NEW j, NEW k
            PROVE  k \in Direct(Clean', j) <=> k \in Direct(Clean, j)
        BY <2>1, <3>2, <4>1 DEF Clean, Direct
      <4> QED
        BY <4>2 DEF Direct
    <3> QED
      BY <3>1, <3>2
  <2>3. \A j \in JobIds : Reachable(Clean', j) = Reachable(Clean, j)
    BY <2>2, SameReach
  <2> QED
    BY <1>9, <2>3 DEF InsertsOK, Acyclic
<1>11. CASE c \notin overtaken
  <2>1. raced' = raced \ {<<a, b>>}
    BY <1>5, <1>11 DEF Record
  <2>2. Clean' = {d \in Clean : <<d.job, d.dep>> # <<a, b>>} \cup {edge}
    BY <1>5, <2>1 DEF Clean
  <2>3. /\ Direct(Clean', a) \subseteq Direct(Clean, a) \cup {b}
        /\ \A j \in JobIds \ {a} : Direct(Clean', j) \subseteq Direct(Clean, j)
    BY <1>5, <2>2 DEF Direct
  <2>4. a \notin Reachable(Clean, b)
    BY <1>0, <1>3, <1>11, ReachableGrows
  <2>5. PICK graph \in SUBSET Dependencies, next \in SUBSET Dependencies :
          graph = Clean /\ next = Clean'
    BY <1>0
  <2>6. \A j \in JobIds : j \notin Reachable(next, j)
    BY <1>3, <2>3, <2>4, <2>5, InsertAcyclic DEF Acyclic
  <2> QED
    BY <1>9, <2>5, <2>6 DEF InsertsOK, Acyclic
<1> QED
  BY <1>10, <1>11

\* A step keeps the edges that no race has let in free of cycles, and the edge
\* about to be added harmless.
LEMMA AcyclicNext ==
  ASSUME GraphInv, InsertsOK, Acyclic, [GraphNext]_graphVars
  PROVE  InsertsOK' /\ Acyclic'
<1>0. /\ GraphInv' /\ GraphTypeOK /\ GraphTypeOK'
      /\ task \in [Tasks -> TaskStates]
  BY GraphNextInv DEF GraphInv, GraphTypeOK
<1>1. ASSUME UNCHANGED <<deps, race>>,
             \A c \in Tasks : task'[c] = task[c]
                                      \/ task'[c].op # "insert"
      PROVE  InsertsOK' /\ Acyclic'
  <2>1. deps' = deps /\ Clean' = Clean /\ overtaken' = overtaken
    BY <1>1 DEF Clean, race
  <2>2. Acyclic'
    BY <2>1 DEF Acyclic
  <2>3. InsertsOK'
    BY <1>1, <2>1 DEF InsertsOK, InsertOK
  <2> QED
    BY <2>2, <2>3
<1>2. ASSUME NEW c \in Tasks, NEW t, t.op # "insert", Goto(c, t)
      PROVE  \A d \in Tasks : task'[d] = task[d]
                                      \/ task'[d].op # "insert"
  BY <1>0, <1>2 DEF Goto
<1>3. CASE \E j \in JobIds : create(j) \/ Execute(j)
  BY <1>1, <1>3 DEF create, Execute
<1>4. ASSUME NEW c \in Adders, NEW j \in JobIds, NEW k \in JobIds, NEW b \in BOOLEAN,
             add_dependency(c, j, k, b)
      PROVE  InsertsOK' /\ Acyclic'
  <2>1. /\ c \in Tasks /\ UNCHANGED <<deps, race>>
        /\ j # k /\ j \notin Reachable(deps, k)
    BY <1>4 DEF Tasks, add_dependency
  <2>2. deps' = deps /\ Clean' = Clean /\ overtaken' = overtaken
    BY <2>1 DEF Clean, race
  <2>3. Acyclic'
    BY <2>2 DEF Acyclic
  <2>4. /\ task'[c] = [op |-> "insert", job |-> j, dep |-> k, optional |-> b]
        /\ \A d \in Tasks \ {c} : task'[d] = task[d]
    BY <1>0, <1>4, <2>1 DEF add_dependency, Goto
  <2>5. InsertOK(c)'
    BY <2>1, <2>2, <2>4 DEF InsertOK
  <2>6. ASSUME NEW d \in Tasks, d # c PROVE InsertOK(d)'
    BY <2>2, <2>4, <2>6 DEF InsertsOK, InsertOK
  <2> QED
    BY <2>3, <2>5, <2>6 DEF InsertsOK
<1>5. ASSUME NEW c \in Adders, InsertDependency(c)
      PROVE  InsertsOK' /\ Acyclic'
  BY <1>0, <1>5, InsertKeeps DEF Tasks
<1>6. ASSUME NEW c \in Resolvers, ResolveStep(c)
      PROVE  InsertsOK' /\ Acyclic'
  <2>1. c \in Tasks /\ UNCHANGED <<deps, race>>
    BY <1>6 DEF Tasks, ResolveStep, resolve_dependencies,
                ReadDependencies
  <2>2. PICK t : Goto(c, t) /\ t.op # "insert"
    <3>1. ASSUME NEW j \in JobIds, resolve_dependencies(c, j)
          PROVE  \E t : Goto(c, t) /\ t.op # "insert"
      BY <3>1 DEF resolve_dependencies
    <3>2. ASSUME ReadDependencies(c)
          PROVE  \E t : Goto(c, t) /\ t.op # "insert"
      <4>1. PICK path, required :
              \/ Goto(c, NoCall)
              \/ Goto(c, [op |-> "get", job |-> task[c].job,
                                  path |-> path, required |-> required])
        BY <3>2 DEF ReadDependencies
      <4> QED
        BY <4>1 DEF NoCall
    <3> QED
      BY <1>6, <3>1, <3>2 DEF ResolveStep
  <2> QED
    BY <1>1, <1>2, <2>1, <2>2
<1>7. ASSUME NEW c \in Resumers, NEW j \in JobIds, resume_job(c, j)
      PROVE  InsertsOK' /\ Acyclic'
  <2>1. c \in Tasks /\ UNCHANGED <<deps, race>>
    BY <1>7 DEF Tasks, resume_job
  <2>2. PICK t : Goto(c, t) /\ t.op # "insert"
    BY <1>7 DEF resume_job
  <2> QED
    BY <1>1, <1>2, <2>1, <2>2
<1>8. ASSUME NEW c \in Resolvers \cup Resumers, MoveStep(c)
      PROVE  InsertsOK' /\ Acyclic'
  <2>1. c \in Tasks /\ UNCHANGED <<deps, race>>
    BY <1>8 DEF Tasks, MoveStep, MoveGet,
                MoveUpdate
  <2>2. \A t : AfterTransition(t).op # "insert"
    BY DEF AfterTransition, NoCall
  <2>3. PICK t : Goto(c, t) /\ t.op # "insert"
    BY <1>8, <2>2 DEF MoveStep, MoveGet,
                      MoveUpdate, NoCall
  <2> QED
    BY <1>1, <1>2, <2>1, <2>3
<1>9. CASE UNCHANGED graphVars
  BY <1>1, <1>9 DEF graphVars
<1> QED
  BY <1>3, <1>4, <1>5, <1>6, <1>7, <1>8, <1>9 DEF GraphNext, AddStep

\* Every cycle of the dependency graph has an edge that was checked before another
\* edge was inserted and inserted after it, for any number of jobs and of tasks that
\* add dependencies: the check of add_dependency and its INSERT are two statements,
\* and nothing but a race between them lets a cycle in.
THEOREM DependenciesAcyclic == GraphSpec => []Acyclic
<1> DEFINE Inv == InsertsOK /\ Acyclic
<1>1. GraphInit => Inv
  BY GraphStarts
<1>2. Inv /\ GraphInv /\ [GraphNext]_graphVars => Inv'
  BY AcyclicNext
<1>3. Inv => Acyclic
  OBVIOUS
<1> QED
  BY <1>1, <1>2, <1>3, GraphInvariance, PTL DEF GraphSpec

\* One task that adds dependencies, or several that take turns, race with nobody:
\* as long as no INSERT overtakes a check the whole graph has no cycle.
THEOREM UnracedAcyclic ==
  GraphSpec => [](raced = {} => \A j \in JobIds : j \notin Reachable(deps, j))
<1>1. Acyclic => (raced = {} => \A j \in JobIds : j \notin Reachable(deps, j))
  <2> SUFFICES ASSUME Acyclic, raced = {}
               PROVE  \A j \in JobIds : j \notin Reachable(deps, j)
    OBVIOUS
  <2>1. Clean = deps
    BY DEF Clean
  <2> QED
    BY <2>1 DEF Acyclic
<1> QED
  BY <1>1, DependenciesAcyclic, PTL
=============================================================================
