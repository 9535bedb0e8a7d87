------------------------ MODULE WorkerRuntimeProofs ------------------------
(***************************************************************************)
(* What the runtime guarantees whatever is combined: any jobs, workers and *)
(* commands, exits, stalls and starts of the Core.                         *)
(*                                                                         *)
(* The invariant has five layers, each inductive given those before it:    *)
(* IInv (types, rows and what tasks know), LifeOK (processes and readers), *)
(* CountsOK (attempts), Owners (a worker has one job, wherever it is)      *)
(* and SteadyOK (the table agrees with the processes).                     *)
(***************************************************************************)
EXTENDS WorkerRuntime, SequenceTheorems, TLAPS

\* What goes through the channels and pipes, and what a process works on.
Orders == [type : {"PAUSE", "CANCEL"}, job : Jobs]
Inputs == Orders \cup {Dispatch(j) : j \in Jobs}
Executions == [job : Jobs, cancel : BOOLEAN, pause : BOOLEAN, done : BOOLEAN]

InboxOK == DOMAIN inbox = Workers /\ \A w \in Workers : inbox[w] \in Seq(Inputs)
OutboxOK == DOMAIN outbox = Workers /\ \A w \in Workers : outbox[w] \in Seq(Messages)
RunningOK == running \in [Workers -> SUBSET Executions]
ControlOK == control \in Seq(Orders)

Pipes == InboxOK /\ OutboxOK /\ RunningOK /\ ControlOK

\* What a task knows between two statements: the rows it has read, where it will
\* move them, and that the worker it is about is one of this start of the Core.
SchedulerOK(s, boot) ==
    /\ s.op \in {"start", "send"} => s.worker \in SpawnedBy(boot) /\ s.job \in Jobs
    /\ s.op = "start" => s.snap \in Rows

UserOK(c) ==
    /\ c.op = "cancel" => c.job \in Jobs
    /\ c.op = "update" =>
         c.job \in Jobs /\ c.target \in {"PAUSING", "READY", "CANCELLED"} /\ c.snap \in Rows

ReaderOK(w, r, boot) ==
    /\ r.op = "result" => r.outcome \in Results /\ r.job \in Jobs
    /\ r.op = "update" =>
         /\ r.target \in {"COMPLETED", "FAILED", "CANCELLED", "PAUSED"}
         /\ r.job \in Jobs /\ r.snap \in Rows
    /\ w \notin SpawnedBy(boot) => r = Closed

OrderOK(c) == c.op = "deliver" => c.message \in Orders /\ c.worker \in Workers

TasksOK ==
    /\ DOMAIN task = Tasks
    /\ OrderOK(task["control"])
    /\ SchedulerOK(task["scheduler"], boots)
    /\ \A u \in Users : UserOK(task[u])
    /\ \A w \in Workers : ReaderOK(w, task[w], boots)

HandlesOK == handles \subseteq SpawnedBy(boots)

\* A row, with the starts and resumes of its job. Every start of a job that is not
\* idempotent has used up the READY it was created with or a resume gave it.
RowOK(j, row, starts, resumes, boot) ==
    /\ row \in Rows /\ starts \in Nat /\ resumes \in Nat
    /\ ~row.checkpoint /\ (j \notin Idempotent => ~row.idempotent)
    /\ row.state = "RUNNING" => row.worker \in SpawnedBy(boot)
    /\ j \notin Idempotent =>
         starts <= 1 + resumes /\ (row.state = "READY" => starts <= resumes)

Histories == [starts : [Jobs -> Nat], resumes : [Jobs -> Nat], stalls : Nat,
              forgotten : SUBSET Jobs, given : SUBSET Jobs,
              taken : SUBSET ((Workers \cup {NULL}) \X Jobs)]

TableOK ==
    /\ job \in [Jobs -> Rows]
    /\ aux \in Histories
    /\ \A j \in Jobs : RowOK(j, job[j], aux.starts[j], aux.resumes[j], boots)

Core == TasksOK /\ HandlesOK /\ TableOK

IInv == Core /\ Pipes
-----------------------------------------------------------------------------
(* Tasks *)

\* Each task moves on its own.
LEMMA SchedulerGoes ==
    ASSUME TasksOK, boots' = boots, NEW s, Goto("scheduler", s), SchedulerOK(s, boots)
    PROVE  TasksOK'
<1>1. /\ task'["scheduler"] = s /\ DOMAIN task' = Tasks
      /\ \A t \in Users \cup Workers \cup {"control"} : task'[t] = task[t]
  BY TasksAssumption DEF TasksOK, Goto, Tasks
<1> QED
  BY <1>1 DEF TasksOK, SchedulerOK, ReaderOK, UserOK, OrderOK

LEMMA ReaderGoes ==
    ASSUME TasksOK, boots' = boots, NEW w \in Workers, NEW r, Goto(w, r),
           ReaderOK(w, r, boots)
    PROVE  TasksOK'
<1>1. /\ task'[w] = r /\ DOMAIN task' = Tasks
      /\ \A t \in Users \cup Workers \cup {"scheduler", "control"} :
           t # w => task'[t] = task[t]
      /\ w \notin {"scheduler", "control"} /\ w \notin Users
  BY TasksAssumption DEF TasksOK, Goto, Tasks
<1> QED
  BY <1>1 DEF TasksOK, SchedulerOK, ReaderOK, UserOK, OrderOK

LEMMA UserGoes ==
    ASSUME TasksOK, boots' = boots, NEW u \in Users, NEW c, Goto(u, c), UserOK(c)
    PROVE  TasksOK'
<1>1. /\ task'[u] = c /\ DOMAIN task' = Tasks
      /\ \A t \in Users \cup Workers \cup {"scheduler", "control"} :
           t # u => task'[t] = task[t]
      /\ u \notin {"scheduler", "control"} /\ u \notin Workers
  BY TasksAssumption DEF TasksOK, Goto, Tasks
<1> QED
  BY <1>1 DEF TasksOK, SchedulerOK, ReaderOK, UserOK, OrderOK

LEMMA LivenessGoes ==
    ASSUME TasksOK, boots' = boots, NEW l, Goto("liveness", l)
    PROVE  TasksOK'
<1>1. /\ DOMAIN task' = Tasks
      /\ \A t \in Users \cup Workers \cup {"scheduler", "control"} : task'[t] = task[t]
  BY TasksAssumption DEF TasksOK, Goto, Tasks
<1> QED
  BY <1>1 DEF TasksOK, SchedulerOK, ReaderOK, UserOK, OrderOK

LEMMA ControlGoes ==
    ASSUME TasksOK, boots' = boots, NEW c, Goto("control", c), OrderOK(c)
    PROVE  TasksOK'
<1>1. /\ DOMAIN task' = Tasks /\ task'["control"] = c
      /\ \A t \in Users \cup Workers \cup {"scheduler"} : task'[t] = task[t]
  BY TasksAssumption DEF TasksOK, Goto, Tasks
<1> QED
  BY <1>1 DEF TasksOK, SchedulerOK, ReaderOK, UserOK, OrderOK

LEMMA TasksStay == TasksOK /\ UNCHANGED <<task, boots>> => TasksOK'
BY DEF TasksOK, SchedulerOK, ReaderOK, UserOK, OrderOK

LEMMA Scans == \A q, boot : SchedulerOK(Scan(q), boot)
BY DEF Scan, Idle, SchedulerOK

LEMMA HandlesShrink ==
    HandlesOK /\ boots' = boots /\ handles' \subseteq handles => HandlesOK'
BY DEF HandlesOK

LEMMA TableStays == TableOK /\ UNCHANGED <<job, aux, boots>> => TableOK'
BY DEF TableOK, RowOK

LEMMA CoreStays ==
    Core /\ UNCHANGED <<task, boots, job, aux>> /\ handles' \subseteq handles => Core'
BY TasksStay, HandlesShrink, TableStays DEF Core
-----------------------------------------------------------------------------
(* Messages *)

\* What a reader takes is a message of the type it asks for.
LEMMA Received ==
    ASSUME OutboxOK, NEW w \in Workers, NEW type, Receive(w, type)
    PROVE  /\ Head(outbox[w]) \in Messages /\ Head(outbox[w]).type = type
           /\ task[w] = Idle /\ outbox[w] # <<>>
           /\ outbox' = [outbox EXCEPT ![w] = Tail(outbox[w])]
           /\ OutboxOK'
<1>1. outbox[w] \in Seq(Messages) /\ outbox[w] # <<>>
  BY DEF OutboxOK, Receive
<1>2. Head(outbox[w]) \in Messages /\ Tail(outbox[w]) \in Seq(Messages)
  BY <1>1, HeadTailProperties
<1>3. outbox' = [outbox EXCEPT ![w] = Tail(outbox[w])]
  BY DEF Receive
<1>4. OutboxOK'
  BY <1>2, <1>3 DEF OutboxOK
<1> QED
  BY <1>1, <1>2, <1>3, <1>4 DEF Receive

LEMMA ResultReceived ==
    ASSUME OutboxOK, NEW w \in Workers, Receive(w, "JOB_RESULT")
    PROVE  Head(outbox[w]).job \in Jobs /\ Head(outbox[w]).outcome \in Results
<1>1. PICK m \in Messages : m = Head(outbox[w]) /\ m.type = "JOB_RESULT"
  BY Received
<1>2. m # Register
  BY <1>1 DEF Register
<1> QED
  BY <1>1, <1>2 DEF Messages, Result

LEMMA OutboxGets ==
    ASSUME OutboxOK, NEW w \in Workers, NEW m \in Messages, From(w, m)
    PROVE  OutboxOK'
<1>1. Append(outbox[w], m) \in Seq(Messages)
  BY AppendProperties DEF OutboxOK
<1> QED
  BY <1>1 DEF OutboxOK, From

LEMMA InboxGets ==
    ASSUME InboxOK, NEW w \in Workers, NEW m \in Inputs, To(w, m)
    PROVE  InboxOK'
<1>1. Append(inbox[w], m) \in Seq(Inputs)
  BY AppendProperties DEF InboxOK
<1> QED
  BY <1>1 DEF InboxOK, To

LEMMA ControlGets ==
    ASSUME ControlOK, NEW j \in Jobs, NEW type \in {"PAUSE", "CANCEL"},
           control' = Append(control, [type |-> type, job |-> j])
    PROVE  ControlOK'
<1>1. [type |-> type, job |-> j] \in Orders
  BY DEF Orders
<1> QED
  BY <1>1, AppendProperties DEF ControlOK
-----------------------------------------------------------------------------
(* Rows *)

LEMMA InitInv == Init => IInv
<1> SUFFICES ASSUME Init PROVE IInv
  OBVIOUS
<1>1. TasksOK
  BY TasksAssumption
     DEF Init, TasksOK, Tasks, SchedulerOK, UserOK, ReaderOK, OrderOK, Idle, Closed
<1>2. Pipes
  <2>1. /\ <<>> \in Seq(Inputs) /\ <<>> \in Seq(Orders) /\ <<>> \in Seq(Messages)
        /\ <<Register>> \in Seq(Messages)
    BY DEF Messages
  <2>2. /\ DOMAIN outbox = Workers
        /\ \A w \in Workers : outbox[w] \in {<<>>, <<Register>>}
    BY DEF Init
  <2>3. OutboxOK
    BY <2>1, <2>2 DEF OutboxOK
  <2>4. InboxOK /\ RunningOK /\ ControlOK
    BY <2>1 DEF Init, InboxOK, RunningOK, ControlOK
  <2> QED
    BY <2>3, <2>4 DEF Pipes
<1>3. HandlesOK
  BY DEF Init, HandlesOK
<1>4. TableOK
  <2>1. ASSUME NEW j \in Jobs
        PROVE  /\ job[j] \in Rows /\ job[j].state = "READY"
               /\ ~job[j].checkpoint
               /\ j \notin Idempotent => ~job[j].idempotent
    <3>1. PICK b : b = (j \in Idempotent)
      OBVIOUS
    <3>0. /\ b \in BOOLEAN
          /\ j \notin Idempotent => ~b
      <4>1. b \in BOOLEAN
        BY <3>1, SMT
      <4>2. j \notin Idempotent => ~b
        BY <3>1, Zenon
      <4> QED
        BY <4>1, <4>2
    <3>2. PICK new : new = NewRow(MaxAttempts[j], b)
      OBVIOUS
    <3>3. new \in Rows /\ new.idempotent = b /\ ~new.checkpoint
      BY <3>0, <3>2, AttemptsAssumption DEF NewRow, NoRow, Rows, JobStates
    <3>4. job[j] = [new EXCEPT !.state = "READY"]
      BY <3>1, <3>2 DEF Init
    <3> QED
      BY <3>0, <3>3, <3>4 DEF Rows, JobStates
  <2>2. \A j \in Jobs : aux.starts[j] = 0 /\ aux.resumes[j] = 0
    BY DEF Init
  <2>3. /\ job \in [Jobs -> Rows]
        /\ aux \in Histories
    BY <2>1 DEF Init, Histories
  <2>4. ASSUME NEW j \in Jobs
        PROVE  RowOK(j, job[j], aux.starts[j], aux.resumes[j], boots)
    BY <2>1, <2>2 DEF RowOK
  <2> QED
    BY <2>3, <2>4 DEF TableOK
<1> QED
  BY <1>1, <1>2, <1>3, <1>4 DEF IInv, Core

\* The rows that statements write. A recovery makes nothing READY that may not be
\* repeated, and nothing RUNNING;
LEMMA Recovers ==
    ASSUME NEW j, NEW row, NEW starts, NEW resumes, NEW boot, NEW boot2,
           RowOK(j, row, starts, resumes, boot),
           NEW next, next = ReleasedRow(row, recovery_target(row))
    PROVE  RowOK(j, next, starts, resumes, boot2)
<1>1. PICK to : to = recovery_target(row)
  OBVIOUS
<1>2. to \in {"READY", "FAILED"} /\ (to = "READY" => row.idempotent)
  BY <1>1 DEF recovery_target, RowOK
<1>3. next \in Rows /\ next.state = to /\ next.idempotent = row.idempotent
      /\ next.checkpoint = row.checkpoint
  BY <1>1, <1>2 DEF ReleasedRow, RowOK, Rows, JobStates
<1> QED
  BY <1>2, <1>3 DEF RowOK

\* a result, a pause or a cancellation does neither;
LEMMA Moves ==
    ASSUME NEW j, NEW row, NEW starts, NEW resumes, NEW boot,
           RowOK(j, row, starts, resumes, boot), NEW snap \in Rows,
           NEW to \in {"PAUSING", "PAUSED"} \cup Terminal,
           NEW next, next = TransitionRow(row, snap, to) \/ next = ReleasedRow(row, to)
    PROVE  RowOK(j, next, starts, resumes, boot)
<1>1. next \in Rows /\ next.state = to /\ next.idempotent = row.idempotent
      /\ next.checkpoint = row.checkpoint
  BY DEF TransitionRow, ReleasedRow, RowOK, Rows, JobStates, Terminal
<1>2. to \notin {"READY", "RUNNING"}
  BY DEF Terminal
<1> QED
  BY <1>1, <1>2 DEF RowOK

\* a resume makes it READY, and counts;
LEMMA Resumes ==
    ASSUME NEW j, NEW row, NEW starts, NEW resumes, NEW boot,
           RowOK(j, row, starts, resumes, boot), NEW snap \in Rows,
           NEW next, next = TransitionRow(row, snap, "READY")
    PROVE  RowOK(j, next, starts, resumes + 1, boot)
<1>1. next \in Rows /\ next.state = "READY" /\ next.idempotent = row.idempotent
      /\ next.checkpoint = row.checkpoint
  BY DEF TransitionRow, RowOK, Rows, JobStates, releases_worker
<1> QED
  BY <1>1 DEF RowOK

\* and a start uses READY up.
LEMMA Starts ==
    ASSUME NEW j, NEW row, NEW starts, NEW resumes, NEW boot,
           RowOK(j, row, starts, resumes, boot), row.state = "READY", NEW snap \in Rows,
           NEW w \in SpawnedBy(boot), NEW next, next = StartedRow(row, snap, w)
    PROVE  RowOK(j, next, starts + 1, resumes, boot)
<1>0. j \notin Idempotent => starts <= resumes
  BY DEF RowOK
<1>1. /\ row \in Rows /\ starts \in Nat /\ resumes \in Nat /\ ~row.checkpoint
      /\ j \notin Idempotent => ~row.idempotent
  BY DEF RowOK
<1>2. next \in Rows /\ next.state = "RUNNING" /\ next.idempotent = row.idempotent
      /\ next.checkpoint = row.checkpoint /\ next.worker = w
  <2>1. PICK n \in Nat : n = snap.attempt + 1
    BY DEF Rows
  <2>2. next = [row EXCEPT !.state = "RUNNING", !.attempt = n, !.worker = w]
    BY <2>1 DEF StartedRow
  <2>3. w \in Workers /\ "RUNNING" \in JobStates
    BY DEF SpawnedBy, JobStates
  <2> QED
    BY <1>1, <2>2, <2>3 DEF Rows
<1>3. starts + 1 \in Nat /\ (j \notin Idempotent => starts + 1 <= 1 + resumes)
  BY <1>0, <1>1
<1>4. j \notin Idempotent => ~next.idempotent
  BY <1>1, <1>2
<1> QED
  BY <1>1, <1>2, <1>3, <1>4 DEF RowOK

\* A statement that writes rows and no history.
LEMMA RowsMove ==
    ASSUME TableOK, UNCHANGED <<aux, boots>>, job' = [j \in Jobs |-> job'[j]],
           \A j \in Jobs : RowOK(j, job'[j], aux.starts[j], aux.resumes[j], boots)
    PROVE  TableOK'
<1>1. job' \in [Jobs -> Rows]
  BY DEF RowOK
<1> QED
  BY <1>1 DEF TableOK, RowOK

\* An UPDATE of transition or fail by task t has written next to its job. The attempt
\* keeps its value, or is copied from an older row.
Wrote(t, next, n) ==
    /\ Write(t, next, n)
    /\ next.attempt \in {job[task[t].job].attempt, task[t].snap.attempt}

LEMMA WroteRows ==
    ASSUME NEW t, job[task[t].job] \in Rows, NEW next, NEW n, Write(t, next, n),
           \/ next = ReleasedRow(job[task[t].job], "FAILED")
           \/ \E target : target # "RUNNING"
                          /\ next = TransitionRow(job[task[t].job], task[t].snap, target)
    PROVE  Wrote(t, next, n)
<1>1. PICK row, snap : row = job[task[t].job] /\ snap = task[t].snap
  OBVIOUS
<1>2. next.attempt \in {row.attempt, snap.attempt}
  <2>1. CASE next = ReleasedRow(row, "FAILED")
    BY <1>1, <2>1 DEF ReleasedRow, Rows
  <2>2. CASE next # ReleasedRow(row, "FAILED")
    <3>1. PICK target : target # "RUNNING" /\ next = TransitionRow(row, snap, target)
      BY <1>1, <2>2
    <3>2. PICK w : w = (IF releases_worker(target) THEN NULL ELSE snap.worker)
      OBVIOUS
    <3>3. next = [row EXCEPT !.state = target, !.attempt = snap.attempt, !.worker = w]
      BY <3>1, <3>2 DEF TransitionRow
    <3> QED
      BY <1>1, <3>3 DEF Rows
  <2> QED
    BY <2>1, <2>2
<1> QED
  BY <1>1, <1>2 DEF Wrote

\* What such an UPDATE leaves of its job and of the history. It notes when it takes the
\* job from a worker that its caller did not know of.
Marked(t, i, next, n) ==
    /\ job'[i] = next /\ \A j \in Jobs \ {i} : job'[j] = job[j]
    /\ job' \in [Jobs -> Rows] /\ aux' \in Histories
    /\ aux'.starts = aux.starts /\ aux'.stalls = aux.stalls
    /\ aux'.resumes[i] = aux.resumes[i] + n
    /\ \A j \in Jobs \ {i} : aux'.resumes[j] = aux.resumes[j]
    /\ aux.forgotten \subseteq aux'.forgotten
    /\ aux.given \subseteq aux'.given /\ aux.taken \subseteq aux'.taken
    /\ i \notin aux'.forgotten => next.attempt = job[i].attempt
    /\ job[i].state \in Active /\ job[i].worker \notin {next.worker, Believed(t)}
         => /\ <<job[i].worker, i>> \in aux'.taken
            /\ next.worker # NULL => i \in aux'.given

LEMMA WriteMarks ==
    ASSUME TableOK, NEW t, NEW i \in Jobs, task[t].job = i, NEW next \in Rows, NEW n \in Nat,
           Wrote(t, next, n), aux.resumes[i] + n \in Nat
    PROVE  Marked(t, i, next, n)
<1>1. PICK snap, row, other, F, G, T :
        /\ snap = task[t].snap /\ row = job[i]
        /\ other = (row.state \in Active /\ row.worker \notin {next.worker, Believed(t)})
        /\ F = IF next.attempt = snap.attempt /\ snap.attempt # row.attempt
               THEN aux.forgotten \cup {i} ELSE aux.forgotten
        /\ G = IF other /\ next.worker # NULL THEN aux.given \cup {i} ELSE aux.given
        /\ T = IF other THEN aux.taken \cup {<<row.worker, i>>} ELSE aux.taken
  OBVIOUS
<1>2. /\ job' = [job EXCEPT ![i] = next]
      /\ aux' = [aux EXCEPT !.resumes[i] = @ + n, !.forgotten = F, !.given = G, !.taken = T]
  BY <1>1 DEF Wrote, Write
<1>3. row.worker \in Workers \cup {NULL}
  BY <1>1 DEF TableOK, Rows
<1>4. /\ F \in SUBSET Jobs /\ G \in SUBSET Jobs
      /\ T \in SUBSET ((Workers \cup {NULL}) \X Jobs)
      /\ aux.forgotten \subseteq F /\ aux.given \subseteq G /\ aux.taken \subseteq T
  BY <1>1, <1>3 DEF TableOK, Histories
<1>5. PICK R : R = [aux.resumes EXCEPT ![i] = aux.resumes[i] + n]
  OBVIOUS
<1>6. /\ R \in [Jobs -> Nat] /\ R[i] = aux.resumes[i] + n
      /\ \A j \in Jobs \ {i} : R[j] = aux.resumes[j]
  BY <1>5 DEF TableOK, Histories
<1>7. aux' = [aux EXCEPT !.resumes = R, !.forgotten = F, !.given = G, !.taken = T]
  BY <1>2, <1>5 DEF TableOK, Histories
<1>8. /\ aux' \in Histories /\ aux'.resumes = R
      /\ aux'.starts = aux.starts /\ aux'.stalls = aux.stalls
      /\ aux'.forgotten = F /\ aux'.given = G /\ aux'.taken = T
  BY <1>4, <1>6, <1>7 DEF TableOK, Histories
<1>9. /\ job' \in [Jobs -> Rows] /\ job'[i] = next
      /\ \A j \in Jobs \ {i} : job'[j] = job[j]
  BY <1>2 DEF TableOK
<1>10. i \notin F => next.attempt = row.attempt
  BY <1>1 DEF Wrote
<1>11. other => /\ <<row.worker, i>> \in T
                /\ next.worker # NULL => i \in G
  BY <1>1
<1> QED
  BY <1>1, <1>4, <1>6, <1>8, <1>9, <1>10, <1>11 DEF Marked

LEMMA Writes ==
    ASSUME TableOK, boots' = boots, NEW t, NEW i \in Jobs, task[t].job = i, NEW next,
           NEW n \in Nat, Wrote(t, next, n),
           RowOK(i, next, aux.starts[i], aux.resumes[i] + n, boots)
    PROVE  TableOK'
<1>1. next \in Rows /\ aux.resumes[i] + n \in Nat
  BY DEF RowOK
<1>2. Marked(t, i, next, n)
  BY <1>1, WriteMarks
<1> QED
  BY <1>2 DEF Marked, TableOK

LEMMA WorkersRecovered ==
    ASSUME TableOK, NEW w, job' = Recovered(w), UNCHANGED <<aux, boots>>
    PROVE  TableOK'
<1>1. ASSUME NEW j \in Jobs
      PROVE  RowOK(j, job'[j], aux.starts[j], aux.resumes[j], boots)
  <2>1. RowOK(j, job[j], aux.starts[j], aux.resumes[j], boots)
    BY DEF TableOK
  <2>2. job'[j] \in {job[j], ReleasedRow(job[j], recovery_target(job[j]))}
    BY DEF Recovered
  <2> QED
    BY <2>1, <2>2, Recovers
<1>2. job' = [j \in Jobs |-> job'[j]]
  BY DEF Recovered
<1> QED
  BY <1>1, <1>2, RowsMove
-----------------------------------------------------------------------------
(* The scheduler *)

LEMMA SchedulerInv == ASSUME IInv, Scheduler PROVE Core'
<1>0. TasksOK /\ HandlesOK /\ TableOK
  BY DEF IInv, Core
<1>1. ASSUME NEW q, Goto("scheduler", Scan(q)) \/ Goto("scheduler", Idle),
             UNCHANGED <<job, aux, handles, boots>>
      PROVE  Core'
  <2>1. TasksOK'
    BY <1>0, <1>1, SchedulerGoes, Scans DEF SchedulerOK, Idle
  <2> QED
    BY <1>0, <1>1, <2>1, HandlesShrink, TableStays DEF Core
<1>2. CASE list_ready
  BY <1>1, <1>2 DEF list_ready, table, map
<1>3. CASE NoIdleWorker
  BY <1>1, <1>3 DEF NoIdleWorker, table, map
<1>4. CASE PrepareFails
  BY <1>1, <1>4 DEF PrepareFails, table, map
<1>5. CASE ClaimWorker
  <2>1. UNCHANGED <<job, aux, handles, boots>>
    BY <1>5 DEF ClaimWorker, table
  <2>2. CASE \E q : Goto("scheduler", Scan(q))
    BY <1>1, <2>1, <2>2
  <2>3. ASSUME NEW w \in handles, NEW j \in Jobs, Startable(w, j), NEW s,
               s = [op |-> "start", queue |-> task["scheduler"].queue \ {j},
                    job |-> j, worker |-> w, snap |-> job[j]],
               Goto("scheduler", s)
        PROVE  Core'
    <3>1. SchedulerOK(s, boots)
      BY <1>0, <2>3 DEF SchedulerOK, HandlesOK, TableOK
    <3>2. TasksOK'
      BY <1>0, <2>1, <2>3, <3>1, SchedulerGoes
    <3> QED
      BY <1>0, <2>1, <3>2, HandlesShrink, TableStays DEF Core
  <2> QED
    BY <1>5, <2>2, <2>3 DEF ClaimWorker
<1>6. CASE start_on_worker
  <2>1. PICK s, j, row : s = task["scheduler"] /\ j = s.job /\ row = job[j]
    OBVIOUS
  <2>2. /\ s.op = "start" /\ s.worker \in SpawnedBy(boots)
        /\ j \in Jobs /\ s.snap \in Rows /\ UNCHANGED <<handles, boots>>
    BY <1>0, <1>6, <2>1 DEF start_on_worker, TasksOK, SchedulerOK
  <2>3. CASE row.state = "READY" /\ row.worker = NULL
    <3>1. PICK next, s2 :
            /\ next = StartedRow(row, s.snap, s.worker)
            /\ s2 = [op |-> "send", queue |-> s.queue, job |-> j, worker |-> s.worker]
      OBVIOUS
    <3>2. /\ job' = [job EXCEPT ![j] = next]
          /\ aux' = [aux EXCEPT !.starts[j] = @ + 1, !.given = @ \ {j}]
          /\ Goto("scheduler", s2)
      BY <1>6, <2>1, <2>3, <3>1 DEF start_on_worker
    <3>3. TasksOK'
      <4>1. SchedulerOK(s2, boots)
        BY <2>2, <3>1 DEF SchedulerOK
      <4> QED
        BY <1>0, <2>2, <3>2, <4>1, SchedulerGoes
    <3>4. RowOK(j, row, aux.starts[j], aux.resumes[j], boots)
      BY <1>0, <2>1, <2>2 DEF TableOK
    <3>5. RowOK(j, next, aux.starts[j] + 1, aux.resumes[j], boots)
      BY <2>2, <2>3, <3>1, <3>4, Starts
    <3>6. next \in Rows /\ aux.starts[j] + 1 \in Nat
      BY <3>5 DEF RowOK
    <3>7. /\ job' \in [Jobs -> Rows] /\ job'[j] = next
          /\ \A i \in Jobs \ {j} : job'[i] = job[i]
      BY <1>0, <2>2, <3>2, <3>6 DEF TableOK
    <3>8. /\ aux' \in Histories
          /\ aux'.starts[j] = aux.starts[j] + 1 /\ aux'.resumes = aux.resumes
          /\ \A i \in Jobs \ {j} : aux'.starts[i] = aux.starts[i]
      BY <1>0, <2>2, <3>2, <3>6 DEF TableOK, Histories
    <3>9. TableOK'
      BY <1>0, <2>2, <3>5, <3>7, <3>8 DEF TableOK
    <3> QED
      BY <1>0, <2>2, <3>3, <3>9, HandlesShrink DEF Core
  <2>4. CASE ~(row.state = "READY" /\ row.worker = NULL)
    BY <1>1, <1>6, <2>1, <2>2, <2>4 DEF start_on_worker, table
  <2> QED
    BY <2>3, <2>4
<1>7. CASE SendDispatch
  <2>1. PICK q : Goto("scheduler", Scan(q))
    BY <1>7 DEF SendDispatch
  <2>2. UNCHANGED <<aux, boots>> /\ handles' \subseteq handles
    BY <1>7 DEF SendDispatch, map
  <2>3. TasksOK'
    BY <1>0, <2>1, <2>2, SchedulerGoes, Scans
  <2>4. TableOK'
    <3>1. job' = job \/ \E w : job' = Recovered(w)
      BY <1>7 DEF SendDispatch
    <3> QED
      BY <1>0, <2>2, <3>1, WorkersRecovered, TableStays
  <2> QED
    BY <1>0, <2>2, <2>3, <2>4, HandlesShrink DEF Core
<1> QED
  BY <1>2, <1>3, <1>4, <1>5, <1>6, <1>7 DEF Scheduler
-----------------------------------------------------------------------------
(* The other loops *)

LEMMA LivenessInv == ASSUME IInv, Liveness PROVE Core'
<1>0. TasksOK /\ HandlesOK /\ TableOK
  BY DEF IInv, Core
<1>1. UNCHANGED <<aux, boots>> /\ handles' \subseteq handles
  BY DEF Liveness, LostScan, MarkLost, RecoverMarked, RemoveMarked, table, map
<1>2. \E r : Goto("liveness", r)
  BY DEF Liveness, LostScan, MarkLost, RecoverMarked, RemoveMarked
<1>3. job' = job \/ \E w : job' = Recovered(w)
  BY DEF Liveness, LostScan, MarkLost, RecoverMarked, RemoveMarked, table
<1>4. TasksOK'
  BY <1>0, <1>1, <1>2, LivenessGoes
<1>5. TableOK'
  BY <1>0, <1>1, <1>3, WorkersRecovered, TableStays
<1> QED
  BY <1>0, <1>1, <1>4, <1>5, HandlesShrink DEF Core

LEMMA ControlInv == ASSUME IInv, Control PROVE Core'
<1>0. Core /\ TasksOK /\ ControlOK /\ TableOK
  BY DEF IInv, Core, Pipes
<1>1. UNCHANGED <<job, aux, handles, boots>>
  BY DEF Control, ReceiveControl, DeliverControl, table, map
<1>2. CASE ReceiveControl
  <2>1. Head(control) \in Orders
    BY <1>0, <1>2, HeadTailProperties DEF ReceiveControl, ControlOK
  <2>2. job[Head(control).job].worker \in Workers \cup {NULL}
    BY <1>0, <2>1 DEF Orders, TableOK, Rows
  <2>3. PICK m, w : m = Head(control) /\ w = job[m.job].worker
    OBVIOUS
  <2>4. PICK c : /\ c = IF w # NULL /\ w \in handles
                         THEN [op |-> "deliver", message |-> m, worker |-> w] ELSE Idle
                 /\ Goto("control", c)
    BY <1>2, <2>3 DEF ReceiveControl
  <2>5. OrderOK(c)
    BY <2>1, <2>2, <2>3, <2>4 DEF OrderOK, Idle
  <2>6. TasksOK'
    BY <1>0, <1>1, <2>4, <2>5, ControlGoes
  <2> QED
    BY <1>0, <1>1, <2>6, HandlesShrink, TableStays DEF Core
<1>3. CASE DeliverControl
  <2>1. OrderOK(Idle) /\ Goto("control", Idle)
    BY <1>3 DEF OrderOK, Idle, DeliverControl
  <2>2. TasksOK'
    BY <1>0, <1>1, <2>1, ControlGoes
  <2> QED
    BY <1>0, <1>1, <2>2, HandlesShrink, TableStays DEF Core
<1> QED
  BY <1>2, <1>3 DEF Control
-----------------------------------------------------------------------------
(* Readers *)

\* Only the reader of a process of this start reads.
LEMMA Open ==
    ASSUME IInv, NEW w \in Workers, task[w] # Closed
    PROVE  w \in SpawnedBy(boots)
BY DEF IInv, Core, TasksOK, ReaderOK

LEMMA ReaderInv == ASSUME IInv, NEW w \in Workers, Reader(w) PROVE Core'
<1>0. TasksOK /\ HandlesOK /\ TableOK
  BY DEF IInv, Core
<1>1. CASE register(w)
  <2>1. /\ UNCHANGED <<job, aux, task, boots>> /\ Receive(w, "REGISTER")
        /\ handles' = handles \cup {w}
    BY <1>1 DEF register, table
  <2>2. w \in SpawnedBy(boots)
    BY <2>1, Open DEF Receive, Idle, Closed
  <2>3. HandlesOK'
    BY <1>0, <2>1, <2>2 DEF HandlesOK
  <2> QED
    BY <1>0, <2>1, <2>3, TasksStay, TableStays DEF Core
<1>2. CASE JobResult(w)
  <2>1. UNCHANGED <<job, aux, handles, boots>> /\ Receive(w, "JOB_RESULT")
    BY <1>2 DEF JobResult, table
  <2>2. PICK j, outcome : j = Head(outbox[w]).job /\ outcome = Head(outbox[w]).outcome
    OBVIOUS
  <2>3. j \in Jobs /\ outcome \in Results
    BY <2>1, <2>2, ResultReceived DEF IInv, Pipes
  <2>4. w \in SpawnedBy(boots)
    BY <2>1, Open DEF Receive, Idle, Closed
  <2>5. PICK r : r = [op |-> "result", job |-> j, outcome |-> outcome]
    OBVIOUS
  <2>6. ReaderOK(w, r, boots)
    BY <2>3, <2>4, <2>5 DEF ReaderOK
  <2>7. Goto(w, r) \/ UNCHANGED task
    BY <1>2, <2>2, <2>5 DEF JobResult
  <2>8. TasksOK'
    BY <1>0, <2>1, <2>6, <2>7, ReaderGoes, TasksStay
  <2> QED
    BY <1>0, <2>1, <2>3, <2>8, HandlesShrink, TableStays DEF Core
<1>3. CASE ResultGet(w)
  <2>1. /\ UNCHANGED <<job, aux, handles, boots>> /\ task[w].op = "result"
    BY <1>3 DEF ResultGet, table
  <2>2. /\ w \in SpawnedBy(boots) /\ task[w].outcome \in Results
        /\ task[w].job \in Jobs
    BY <1>0, <2>1, Open DEF Closed, TasksOK, ReaderOK
  <2>3. PICK j, target : j = task[w].job /\ target = TargetOf(task[w].outcome)
    OBVIOUS
  <2>4. target \in {"COMPLETED", "FAILED", "CANCELLED", "PAUSED"}
    BY <2>2, <2>3 DEF TargetOf, Results
  <2>5. CASE Goto(w, Idle)
    <3>1. ReaderOK(w, Idle, boots)
      BY <2>2 DEF ReaderOK, Idle
    <3>2. TasksOK'
      BY <1>0, <2>1, <2>5, <3>1, ReaderGoes
    <3> QED
      BY <1>0, <2>1, <3>2, HandlesShrink, TableStays DEF Core
  <2>6. CASE /\ can_transition(job[j].state, target)
             /\ Goto(w, [op |-> "update", job |-> j, target |-> target, snap |-> job[j]])
    <3>1. PICK r : r = [op |-> "update", job |-> j, target |-> target, snap |-> job[j]]
      OBVIOUS
    <3>2. ReaderOK(w, r, boots)
      BY <1>0, <2>2, <2>3, <2>4, <3>1 DEF ReaderOK, TableOK
    <3>3. TasksOK'
      BY <1>0, <2>1, <2>6, <3>1, <3>2, ReaderGoes
    <3> QED
      BY <1>0, <2>1, <3>3, HandlesShrink, TableStays DEF Core
  <2> QED
    BY <1>3, <2>3, <2>5, <2>6 DEF ResultGet
<1>4. CASE ResultUpdate(w)
  <2>1. UNCHANGED <<handles, boots>> /\ task[w].op = "update" /\ Goto(w, Idle)
    BY <1>4 DEF ResultUpdate
  <2>2. w \in SpawnedBy(boots) /\ ReaderOK(w, task[w], boots)
    BY <1>0, <2>1, Open DEF Closed, TasksOK
  <2>3. TasksOK'
    <3>1. ReaderOK(w, Idle, boots)
      BY <2>2 DEF ReaderOK, Idle
    <3> QED
      BY <1>0, <2>1, <3>1, ReaderGoes
  <2>4. PICK r, i : r = task[w] /\ i = r.job
    OBVIOUS
  <2>5. /\ i \in Jobs /\ r.snap \in Rows /\ r.target \in {"PAUSED"} \cup Terminal
        /\ "FAILED" \in Terminal
        /\ RowOK(i, job[i], aux.starts[i], aux.resumes[i], boots)
    BY <1>0, <2>1, <2>2, <2>4 DEF TableOK, ReaderOK, Terminal
  <2>6. TableOK'
    <3>1. CASE UNCHANGED table
      BY <1>0, <2>1, <3>1, TableStays DEF table
    <3>2. ASSUME NEW next, Wrote(w, next, 0),
                 \/ next = ReleasedRow(job[i], "FAILED")
                 \/ next = TransitionRow(job[i], r.snap, r.target)
          PROVE  TableOK'
      <4>1. RowOK(i, next, aux.starts[i], aux.resumes[i], boots)
        <5>1. CASE next = ReleasedRow(job[i], "FAILED")
          BY <2>5, <5>1, Moves
        <5>2. CASE next = TransitionRow(job[i], r.snap, r.target)
          BY <2>5, <5>2, Moves
        <5> QED
          BY <3>2, <5>1, <5>2
      <4>2. RowOK(i, next, aux.starts[i], aux.resumes[i] + 0, boots)
        BY <4>1 DEF RowOK
      <4> QED
        BY <1>0, <2>1, <2>4, <2>5, <3>2, <4>2, Writes
    <3>3. ASSUME NEW next, Write(w, next, 0),
                 \/ next = ReleasedRow(job[i], "FAILED")
                 \/ next = TransitionRow(job[i], r.snap, r.target)
          PROVE  TableOK'
      <4>1. r.target # "RUNNING" /\ job[i] \in Rows
        BY <2>5 DEF RowOK, Terminal
      <4>2. Wrote(w, next, 0)
        BY <2>4, <3>3, <4>1, WroteRows
      <4> QED
        BY <3>2, <3>3, <4>2
    <3> QED
      BY <1>4, <2>4, <3>1, <3>3 DEF ResultUpdate
  <2> QED
    BY <1>0, <2>1, <2>3, <2>6, HandlesShrink DEF Core
<1>5. CASE ReaderEnds(w)
  <2>1. /\ UNCHANGED <<job, aux, boots>> /\ handles' \subseteq handles
        /\ task[w] = Idle
    BY <1>5 DEF ReaderEnds, table
  <2>2. PICK r \in {Closed, [op |-> "exited"]} : Goto(w, r)
    BY <1>5 DEF ReaderEnds
  <2>3. ReaderOK(w, r, boots)
    BY <2>1, <2>2, Open DEF ReaderOK, Closed, Idle
  <2>4. TasksOK'
    BY <1>0, <2>1, <2>2, <2>3, ReaderGoes
  <2> QED
    BY <1>0, <2>1, <2>4, HandlesShrink, TableStays DEF Core
<1>6. CASE RecoverExited(w)
  <2>1. /\ UNCHANGED <<aux, handles, boots>> /\ job' = Recovered(w)
        /\ Goto(w, Closed)
    BY <1>6 DEF RecoverExited, map
  <2>2. ReaderOK(w, Closed, boots)
    BY DEF ReaderOK, Closed
  <2>3. TasksOK' /\ TableOK'
    BY <1>0, <2>1, <2>2, ReaderGoes, WorkersRecovered
  <2> QED
    BY <1>0, <2>1, <2>3, HandlesShrink DEF Core
<1> QED
  BY <1>1, <1>2, <1>3, <1>4, <1>5, <1>6 DEF Reader
-----------------------------------------------------------------------------
(* Users *)

LEMMA CommandInv == ASSUME IInv, NEW u \in Users, Command(u) PROVE Core'
<1>0. TasksOK /\ HandlesOK /\ TableOK
  BY DEF IInv, Core
<1>1. UNCHANGED <<job, aux, handles, boots>>
  BY DEF Command, PauseJob, ResumeJob, CancelJob, Issue, UserTransition, table, map
<1>2. \/ task' = task
      \/ \E j \in Jobs, target \in {"PAUSING", "READY"} : UserTransition(u, j, target)
      \/ \E j \in Jobs : Goto(u, [op |-> "cancel", job |-> j])
  BY DEF Command, PauseJob, ResumeJob, CancelJob
<1>3. ASSUME NEW j \in Jobs, NEW target \in {"PAUSING", "READY"},
             UserTransition(u, j, target)
      PROVE  TasksOK'
  <2>1. PICK c : c = [op |-> "update", job |-> j, target |-> target, snap |-> job[j]]
    OBVIOUS
  <2>2. Goto(u, c)
    BY <1>3, <2>1 DEF UserTransition
  <2>3. UserOK(c)
    BY <1>0, <2>1 DEF UserOK, TableOK
  <2> QED
    BY <1>0, <1>1, <2>2, <2>3, UserGoes
<1>4. ASSUME NEW j \in Jobs, NEW c, c = [op |-> "cancel", job |-> j], Goto(u, c)
      PROVE  TasksOK'
  <2>1. UserOK(c)
    BY <1>4 DEF UserOK
  <2> QED
    BY <1>0, <1>1, <1>4, <2>1, UserGoes
<1>5. TasksOK'
  BY <1>0, <1>1, <1>2, <1>3, <1>4, TasksStay
<1> QED
  BY <1>0, <1>1, <1>5, HandlesShrink, TableStays DEF Core

LEMMA CancelGetInv == ASSUME IInv, NEW u \in Users, CancelGet(u) PROVE Core'
<1>0. TasksOK /\ HandlesOK /\ TableOK
  BY DEF IInv, Core
<1>1. PICK c, j, d : /\ c = task[u] /\ j = c.job
                     /\ d = [op |-> "update", job |-> j, target |-> "CANCELLED",
                             snap |-> job[j]]
  OBVIOUS
<1>2. /\ c.op = "cancel" /\ UNCHANGED <<job, aux, handles, boots>>
      /\ Goto(u, d) \/ Goto(u, Idle)
  BY <1>1 DEF CancelGet, table, map
<1>3. j \in Jobs
  BY <1>0, <1>1, <1>2 DEF TasksOK, UserOK
<1>4. UserOK(d) /\ UserOK(Idle)
  BY <1>0, <1>1, <1>3 DEF UserOK, Idle, TableOK
<1>5. TasksOK'
  BY <1>0, <1>2, <1>4, UserGoes
<1> QED
  BY <1>0, <1>2, <1>5, HandlesShrink, TableStays DEF Core

LEMMA UserUpdateInv == ASSUME IInv, NEW u \in Users, UserUpdate(u) PROVE Core'
<1>0. TasksOK /\ HandlesOK /\ TableOK
  BY DEF IInv, Core
<1>1. PICK c, i, next : /\ c = task[u] /\ i = c.job
                        /\ next = TransitionRow(job[i], c.snap, c.target)
  OBVIOUS
<1>2. /\ c.op = "update" /\ Goto(u, Idle) /\ UNCHANGED <<handles, boots>>
      /\ \/ UNCHANGED <<job, aux>>
         \/ Write(u, next, IF c.target = "READY" THEN 1 ELSE 0)
  BY <1>1 DEF UserUpdate, table, map
<1>3. /\ i \in Jobs /\ c.target \in {"PAUSING", "READY", "CANCELLED"} /\ c.snap \in Rows
      /\ RowOK(i, job[i], aux.starts[i], aux.resumes[i], boots)
  BY <1>0, <1>1, <1>2 DEF TasksOK, UserOK, TableOK
<1>4. ASSUME NEW n, Write(u, next, n) PROVE Wrote(u, next, n)
  BY <1>1, <1>3, <1>4, WroteRows DEF RowOK
<1>5. TasksOK'
  <2>1. UserOK(Idle)
    BY DEF UserOK, Idle
  <2> QED
    BY <1>0, <1>2, <2>1, UserGoes
<1>6. TableOK'
  <2>1. CASE UNCHANGED <<job, aux>>
    BY <1>0, <1>2, <2>1, TableStays
  <2>2. CASE c.target # "READY" /\ Wrote(u, next, 0)
    <3>1. c.target \in {"PAUSING", "PAUSED"} \cup Terminal
      BY <1>3, <2>2 DEF Terminal
    <3>2. RowOK(i, next, aux.starts[i], aux.resumes[i], boots)
      BY <1>1, <1>3, <3>1, Moves
    <3>3. RowOK(i, next, aux.starts[i], aux.resumes[i] + 0, boots)
      BY <3>2 DEF RowOK
    <3> QED
      BY <1>0, <1>1, <1>2, <1>3, <2>2, <3>3, Writes
  <2>3. CASE c.target = "READY" /\ Wrote(u, next, 1)
    <3>1. RowOK(i, next, aux.starts[i], aux.resumes[i] + 1, boots)
      BY <1>1, <1>3, <2>3, Resumes
    <3> QED
      BY <1>0, <1>1, <1>2, <1>3, <2>3, <3>1, Writes
  <2> QED
    BY <1>2, <1>4, <2>1, <2>2, <2>3
<1> QED
  BY <1>0, <1>2, <1>5, <1>6, HandlesShrink DEF Core
-----------------------------------------------------------------------------
(* Processes and faults *)

LEMMA ProcessInv == ASSUME IInv, NEW w \in Workers, Process(w) PROVE Core'
<1>1. UNCHANGED <<job, aux, handles, task, boots>>
  BY DEF Process, HandleMessage, JobThread, JobThreadEnds, table, map
<1> QED
  BY <1>1, CoreStays DEF IInv

\* Time, deaths of processes, and the pipes to them.
LEMMA OtherInv ==
    ASSUME IInv, NEW w \in Workers,
           heartbeat(w) \/ WriterEnds(w) \/ DeadExpires(w) \/ WorkerExits(w) \/ Stalls(w)
    PROVE  Core'
<1>0. TasksOK /\ HandlesOK /\ TableOK
  BY DEF IInv, Core
<1>1. UNCHANGED <<job, handles, task, boots>>
  BY DEF heartbeat, WriterEnds, DeadExpires, WorkerExits, Stalls, Expire, table, map
<1>2. aux' = aux \/ aux' = [aux EXCEPT !.stalls = @ + 1]
  BY DEF heartbeat, WriterEnds, DeadExpires, WorkerExits, Stalls, table
<1>3. TableOK'
  <2>1. /\ aux' \in Histories
        /\ aux'.starts = aux.starts /\ aux'.resumes = aux.resumes
    BY <1>0, <1>2 DEF TableOK, Histories
  <2> QED
    BY <1>0, <1>1, <2>1 DEF TableOK
<1> QED
  BY <1>0, <1>1, <1>3, TasksStay, HandlesShrink DEF Core

LEMMA RestartInv == ASSUME IInv, Restart PROVE Core'
<1>0. TasksOK /\ HandlesOK /\ TableOK
  BY DEF IInv, Core
<1>1. TasksOK'
  <2>1. /\ boots' = boots + 1
        /\ task' = [t \in Tasks |-> IF t \in Workers \ SpawnedBy(boots') THEN Closed ELSE Idle]
    BY DEF Restart
  <2>2. /\ task'["scheduler"] = Idle /\ task'["control"] = Idle
        /\ \A u \in Users : task'[u] = Idle
        /\ \A w \in Workers : task'[w] \in {Closed, Idle}
        /\ \A w \in Workers : w \notin SpawnedBy(boots') => task'[w] = Closed
    BY <2>1, TasksAssumption DEF Tasks
  <2>3. DOMAIN task' = Tasks
    BY <2>1
  <2>4. SchedulerOK(Idle, boots') /\ UserOK(Idle) /\ OrderOK(Idle)
    BY DEF SchedulerOK, UserOK, OrderOK, Idle
  <2>5. \A w \in Workers : ReaderOK(w, task'[w], boots')
    BY <2>2 DEF ReaderOK, Idle, Closed
  <2> QED
    BY <2>2, <2>3, <2>4, <2>5 DEF TasksOK
<1>3. HandlesOK'
  BY DEF Restart, HandlesOK
<1>4. TableOK'
  <2>1. job' = [j \in Jobs |-> job'[j]] /\ UNCHANGED aux
    BY DEF Restart, recover_interrupted
  <2>2. ASSUME NEW j \in Jobs
        PROVE  RowOK(j, job'[j], aux.starts[j], aux.resumes[j], boots')
    <3>1. RowOK(j, job[j], aux.starts[j], aux.resumes[j], boots)
      BY <1>0 DEF TableOK
    <3>2. CASE job[j].state = "RUNNING"
      <4>1. job'[j] = ReleasedRow(job[j], recovery_target(job[j]))
        BY <3>2 DEF Restart, recover_interrupted
      <4> QED
        BY <3>1, <4>1, Recovers
    <3>3. CASE job[j].state # "RUNNING"
      <4>1. job'[j] = job[j]
        BY <3>3 DEF Restart, recover_interrupted
      <4> QED
        BY <3>1, <3>3, <4>1 DEF RowOK
    <3> QED
      BY <3>2, <3>3
  <2>3. job' \in [Jobs -> Rows]
    BY <2>1, <2>2 DEF RowOK
  <2> QED
    BY <1>0, <2>1, <2>2, <2>3 DEF TableOK
<1> QED
  BY <1>1, <1>3, <1>4 DEF Core
-----------------------------------------------------------------------------
LEMMA CoreInv == IInv /\ [Next]_vars => Core'
<1> SUFFICES ASSUME IInv, [Next]_vars PROVE Core'
  OBVIOUS
<1>1. CASE UNCHANGED vars
  <2>1. UNCHANGED <<job, aux, handles, task, boots>>
    BY <1>1 DEF vars
  <2> QED
    BY <2>1, CoreStays DEF IInv
<1>2. ASSUME NEW w \in Workers,
             \/ Reader(w) \/ Process(w)
             \/ heartbeat(w) \/ WriterEnds(w) \/ DeadExpires(w) \/ WorkerExits(w) \/ Stalls(w)
      PROVE  Core'
  BY <1>2, ReaderInv, ProcessInv, OtherInv
<1> QED
  BY <1>1, <1>2, SchedulerInv, LivenessInv, ControlInv, CommandInv, CancelGetInv,
     UserUpdateInv, RestartInv DEF Next, Fault
-----------------------------------------------------------------------------
(* What goes through the pipes *)

LEMMA PipesStay == Pipes /\ UNCHANGED <<inbox, outbox, running, control>> => Pipes'
BY DEF Pipes, InboxOK, OutboxOK, RunningOK, ControlOK

LEMMA InboxEmptied ==
    ASSUME InboxOK, NEW w, inbox' = [inbox EXCEPT ![w] = <<>>]
    PROVE  InboxOK'
<1>1. <<>> \in Seq(Inputs)
  OBVIOUS
<1> QED
  BY <1>1 DEF InboxOK

\* The main thread of a process.
LEMMA HandlePipes == ASSUME IInv, NEW w \in Workers, HandleMessage(w) PROVE Pipes'
<1>0. InboxOK /\ OutboxOK /\ RunningOK /\ ControlOK
  BY DEF IInv, Pipes
<1>1. PICK m : m = Head(inbox[w])
  OBVIOUS
<1>2. m \in Inputs /\ Tail(inbox[w]) \in Seq(Inputs)
  BY <1>0, <1>1, HeadTailProperties DEF HandleMessage, InboxOK
<1>3. InboxOK' /\ control' = control
  <2>1. inbox' = [inbox EXCEPT ![w] = Tail(inbox[w])] /\ control' = control
    BY DEF HandleMessage
  <2> QED
    BY <1>0, <1>2, <2>1 DEF InboxOK
<1>4. m.job \in Jobs
  BY <1>2 DEF Inputs, Orders, Dispatch
<1>5. CASE From(w, Result(m.job, "FAILED")) /\ UNCHANGED running
  <2>1. Result(m.job, "FAILED") \in Messages
    BY <1>4 DEF Messages, Results
  <2>2. OutboxOK'
    BY <1>0, <1>5, <2>1, OutboxGets
  <2> QED
    BY <1>0, <1>3, <1>5, <2>2 DEF Pipes, RunningOK, ControlOK
<1>6. CASE /\ UNCHANGED outbox /\ m.type \in {"JOB_DISPATCH", "PAUSE", "CANCEL"}
           /\ ~(m.type = "JOB_DISPATCH" /\ \E e \in running[w] : e.job = m.job)
  <2>1. PICK mine : mine = {e \in running[w] : e.job = m.job}
    OBVIOUS
  <2>2. running[w] \subseteq Executions /\ mine \subseteq Executions
    BY <1>0, <2>1 DEF RunningOK
  <2>3. \/ /\ m.type = "JOB_DISPATCH"
           /\ running' = [running EXCEPT ![w] = running[w] \cup {Execution(m.job)}]
        \/ /\ m.type = "CANCEL"
           /\ running' = [running EXCEPT ![w] =
                 (running[w] \ mine) \cup {[e EXCEPT !.cancel = TRUE] : e \in mine}]
        \/ /\ m.type = "PAUSE"
           /\ running' = [running EXCEPT ![w] =
                 (running[w] \ mine) \cup {[e EXCEPT !.pause = TRUE] : e \in mine}]
    <3>1. running' = [running EXCEPT ![w] =
                 CASE m.type = "JOB_DISPATCH" -> running[w] \cup {Execution(m.job)}
                   [] m.type = "CANCEL" ->
                        (running[w] \ mine) \cup {[e EXCEPT !.cancel = TRUE] : e \in mine}
                   [] m.type = "PAUSE" ->
                        (running[w] \ mine) \cup {[e EXCEPT !.pause = TRUE] : e \in mine}]
      BY <1>1, <1>6, <2>1 DEF HandleMessage
    <3> QED
      BY <1>6, <3>1
  <2>4. Execution(m.job) \in Executions
    BY <1>4 DEF Execution, Executions
  <2>5. /\ {[e EXCEPT !.cancel = TRUE] : e \in mine} \subseteq Executions
        /\ {[e EXCEPT !.pause = TRUE] : e \in mine} \subseteq Executions
    BY <2>2 DEF Executions
  <2>6. \E R \in SUBSET Executions : running' = [running EXCEPT ![w] = R]
    BY <2>2, <2>3, <2>4, <2>5
  <2>7. RunningOK'
    BY <1>0, <2>6 DEF RunningOK
  <2> QED
    BY <1>0, <1>3, <1>6, <2>7 DEF Pipes, OutboxOK, ControlOK
<1>7. m.type \in {"JOB_DISPATCH", "PAUSE", "CANCEL"}
  BY <1>2 DEF Inputs, Orders, Dispatch
<1>8. PICK mine : mine = {e \in running[w] : e.job = m.job}
  OBVIOUS
<1>9. \/ /\ m.type = "JOB_DISPATCH" /\ mine # {}
         /\ From(w, Result(m.job, "FAILED")) /\ UNCHANGED running
      \/ ~(m.type = "JOB_DISPATCH" /\ mine # {}) /\ UNCHANGED outbox
  BY <1>1, <1>8 DEF HandleMessage
<1> QED
  BY <1>5, <1>6, <1>7, <1>8, <1>9

\* The threads of its jobs.
LEMMA ThreadPipes ==
    ASSUME IInv, NEW w \in Workers, JobThread(w) \/ JobThreadEnds(w)
    PROVE  Pipes'
<1>0. InboxOK /\ OutboxOK /\ RunningOK /\ ControlOK
  BY DEF IInv, Pipes
<1>1. CASE JobThread(w)
  <2>1. PICK e \in running[w], outcome \in Outcomes :
          /\ From(w, Result(e.job, IF outcome = "FAILED" THEN "FAILED"
                                   ELSE IF e.cancel THEN "CANCELLED"
                                   ELSE IF e.pause THEN "PAUSED"
                                   ELSE outcome))
          /\ running' = [running EXCEPT ![w] = (@ \ {e}) \cup {[e EXCEPT !.done = TRUE]}]
          /\ UNCHANGED <<inbox, control>>
    BY <1>1 DEF JobThread
  <2>2. PICK o : o = IF outcome = "FAILED" THEN "FAILED"
                     ELSE IF e.cancel THEN "CANCELLED"
                     ELSE IF e.pause THEN "PAUSED"
                     ELSE outcome
    OBVIOUS
  <2>3. o \in Results
    BY <2>2, OutcomesAssumption DEF Results
  <2>4. e \in Executions
    BY <1>0 DEF RunningOK
  <2>5. e.job \in Jobs /\ [e EXCEPT !.done = TRUE] \in Executions
    BY <2>4 DEF Executions
  <2>6. Result(e.job, o) \in Messages
    BY <2>3, <2>5 DEF Messages
  <2>7. OutboxOK'
    BY <1>0, <2>1, <2>2, <2>6, OutboxGets
  <2>8. (running[w] \ {e}) \cup {[e EXCEPT !.done = TRUE]} \in SUBSET Executions
    BY <1>0, <2>5 DEF RunningOK
  <2>9. RunningOK'
    BY <1>0, <2>1, <2>8 DEF RunningOK
  <2> QED
    BY <1>0, <2>1, <2>7, <2>9 DEF Pipes, InboxOK, ControlOK
<1>2. CASE JobThreadEnds(w)
  <2>1. PICK e \in running[w] : running' = [running EXCEPT ![w] = running[w] \ {e}]
    BY <1>2 DEF JobThreadEnds
  <2>2. running[w] \ {e} \in SUBSET Executions
    BY <1>0 DEF RunningOK
  <2>3. RunningOK'
    BY <1>0, <2>1, <2>2 DEF RunningOK
  <2> QED
    BY <1>0, <1>2, <2>3 DEF JobThreadEnds, pipes, Pipes, InboxOK, OutboxOK, ControlOK
<1> QED
  BY <1>1, <1>2

\* The Core: what its loops and commands send, and what its readers take.
LEMMA CorePipes ==
    ASSUME IInv,
           \/ Scheduler \/ Liveness \/ Control
           \/ \E w \in Workers : Reader(w)
           \/ \E u \in Users : Command(u) \/ CancelGet(u) \/ UserUpdate(u)
    PROVE  Pipes'
<1>0. Pipes /\ InboxOK /\ OutboxOK /\ RunningOK /\ ControlOK /\ TasksOK
  BY DEF IInv, Pipes, Core
<1>1. CASE Scheduler
  <2>1. CASE SendDispatch /\ inbox' # inbox
    <3>1. PICK s : s = task["scheduler"]
      OBVIOUS
    <3>2. To(s.worker, Dispatch(s.job)) /\ s.op = "send"
      BY <2>1, <3>1 DEF SendDispatch
    <3>3. s.worker \in Workers /\ Dispatch(s.job) \in Inputs
      BY <1>0, <3>1, <3>2 DEF TasksOK, SchedulerOK, SpawnedBy, Inputs
    <3>4. InboxOK'
      BY <1>0, <3>2, <3>3, InboxGets
    <3>5. UNCHANGED <<outbox, running, control>>
      BY <2>1 DEF SendDispatch, workers
    <3> QED
      BY <1>0, <3>4, <3>5 DEF Pipes, OutboxOK, RunningOK, ControlOK
  <2>2. CASE SendDispatch /\ inbox' = inbox
    BY <1>0, <2>2, PipesStay DEF SendDispatch, workers
  <2>3. CASE list_ready \/ NoIdleWorker \/ PrepareFails
    BY <1>0, <2>3, PipesStay DEF list_ready, NoIdleWorker, PrepareFails, pipes, workers
  <2>4. CASE ClaimWorker
    BY <1>0, <2>4, PipesStay DEF ClaimWorker, pipes, workers
  <2>5. CASE start_on_worker
    BY <1>0, <2>5, PipesStay DEF start_on_worker, pipes, workers
  <2> QED
    BY <1>1, <2>1, <2>2, <2>3, <2>4, <2>5 DEF Scheduler
<1>2. CASE Liveness
  BY <1>0, <1>2, PipesStay
     DEF Liveness, LostScan, MarkLost, RecoverMarked, RemoveMarked, pipes, workers
<1>3. CASE ReceiveControl
  <2>1. Tail(control) \in Seq(Orders) /\ control' = Tail(control)
    BY <1>0, <1>3, HeadTailProperties DEF ReceiveControl, ControlOK
  <2>2. UNCHANGED <<inbox, outbox, running>>
    BY <1>3 DEF ReceiveControl, pipes, workers
  <2> QED
    BY <1>0, <2>1, <2>2 DEF Pipes, InboxOK, OutboxOK, RunningOK, ControlOK
<1>4. CASE DeliverControl
  <2>1. PICK c : c = task["control"]
    OBVIOUS
  <2>2. c.message \in Inputs /\ c.worker \in Workers
    BY <1>0, <1>4, <2>1 DEF DeliverControl, TasksOK, OrderOK, Inputs
  <2>3. inbox' = inbox \/ To(c.worker, c.message)
    BY <1>4, <2>1 DEF DeliverControl
  <2>4. InboxOK'
    BY <1>0, <2>2, <2>3, InboxGets DEF InboxOK
  <2>5. UNCHANGED <<outbox, running, control>>
    BY <1>4 DEF DeliverControl, workers
  <2> QED
    BY <1>0, <2>4, <2>5 DEF Pipes, OutboxOK, RunningOK, ControlOK
<1>5. ASSUME NEW w \in Workers, Reader(w) PROVE Pipes'
  <2>1. CASE register(w) \/ JobResult(w)
    <3>1. PICK type : Receive(w, type)
      BY <2>1 DEF register, JobResult
    <3>2. UNCHANGED <<inbox, running, control>>
      BY <2>1 DEF register, JobResult, workers
    <3> QED
      BY <1>0, <3>1, <3>2, Received DEF Pipes, InboxOK, RunningOK, ControlOK
  <2>2. CASE ResultGet(w) \/ ResultUpdate(w)
    BY <1>0, <2>2, PipesStay DEF ResultGet, ResultUpdate, pipes, workers
  <2>3. CASE ReaderEnds(w) \/ RecoverExited(w)
    BY <1>0, <2>3, PipesStay DEF ReaderEnds, RecoverExited, pipes, workers
  <2> QED
    BY <1>5, <2>1, <2>2, <2>3 DEF Reader
<1>6. ASSUME NEW u \in Users, Command(u) \/ CancelGet(u) \/ UserUpdate(u) PROVE Pipes'
  <2>1. UNCHANGED <<inbox, outbox, running>>
    BY <1>6 DEF Command, PauseJob, ResumeJob, CancelJob, Issue, CancelGet, UserUpdate, pipes,
                workers
  <2>2. CASE Command(u)
    <3>1. \/ control' = control
          \/ \E j \in Jobs, type \in {"PAUSE", "CANCEL"} :
               control' = Append(control, [type |-> type, job |-> j])
      BY <2>2 DEF Command, PauseJob, ResumeJob, CancelJob, UserTransition
    <3>2. ControlOK'
      BY <1>0, <3>1, ControlGets DEF ControlOK
    <3> QED
      BY <1>0, <2>1, <3>2 DEF Pipes, InboxOK, OutboxOK, RunningOK
  <2>3. CASE UserUpdate(u)
    <3>1. PICK j : j = task[u].job
      OBVIOUS
    <3>2. j \in Jobs
      BY <1>0, <2>3, <3>1 DEF UserUpdate, TasksOK, UserOK
    <3>3. \/ control' = control
          \/ control' = Append(control, [type |-> "PAUSE", job |-> j])
      BY <2>3, <3>1 DEF UserUpdate
    <3>4. ControlOK'
      BY <1>0, <3>2, <3>3, ControlGets DEF ControlOK
    <3> QED
      BY <1>0, <2>1, <3>4 DEF Pipes, InboxOK, OutboxOK, RunningOK
  <2>4. CASE CancelGet(u)
    BY <1>0, <2>4, PipesStay DEF CancelGet, pipes, workers
  <2> QED
    BY <1>6, <2>2, <2>3, <2>4
<1> QED
  BY <1>1, <1>2, <1>3, <1>4, <1>5, <1>6 DEF Control

LEMMA OtherPipes ==
    ASSUME IInv, NEW w \in Workers,
           heartbeat(w) \/ WriterEnds(w) \/ DeadExpires(w) \/ WorkerExits(w) \/ Stalls(w)
    PROVE  Pipes'
<1>0. Pipes /\ InboxOK /\ OutboxOK /\ RunningOK /\ ControlOK
  BY DEF IInv, Pipes
<1>1. CASE heartbeat(w) \/ DeadExpires(w) \/ Stalls(w)
  BY <1>0, <1>1, PipesStay DEF heartbeat, DeadExpires, Stalls, Expire, pipes, workers
<1>2. CASE WriterEnds(w)
  <2>1. InboxOK'
    BY <1>0, <1>2, InboxEmptied DEF WriterEnds
  <2> QED
    BY <1>0, <1>2, <2>1 DEF WriterEnds, workers, Pipes, OutboxOK, RunningOK, ControlOK
<1>3. CASE WorkerExits(w)
  <2>1. InboxOK'
    BY <1>0, <1>3, InboxEmptied DEF WorkerExits
  <2>2. RunningOK'
    BY <1>0, <1>3 DEF WorkerExits, RunningOK
  <2> QED
    BY <1>0, <1>3, <2>1, <2>2 DEF WorkerExits, Pipes, OutboxOK, ControlOK
<1> QED
  BY <1>1, <1>2, <1>3

LEMMA RestartPipes == Restart => Pipes'
<1> SUFFICES ASSUME Restart PROVE Pipes'
  OBVIOUS
<1>1. /\ <<>> \in Seq(Inputs) /\ <<>> \in Seq(Orders) /\ <<>> \in Seq(Messages)
      /\ <<Register>> \in Seq(Messages)
  BY DEF Messages
<1>2. DOMAIN outbox' = Workers /\ \A w \in Workers : outbox'[w] \in {<<>>, <<Register>>}
  BY DEF Restart
<1>3. OutboxOK'
  BY <1>1, <1>2 DEF OutboxOK
<1>4. InboxOK' /\ RunningOK' /\ ControlOK'
  BY <1>1 DEF Restart, InboxOK, RunningOK, ControlOK
<1> QED
  BY <1>3, <1>4 DEF Pipes

LEMMA NextInv == IInv /\ [Next]_vars => IInv'
<1> SUFFICES ASSUME IInv, [Next]_vars PROVE IInv'
  OBVIOUS
<1>1. CASE UNCHANGED vars
  BY <1>1, PipesStay, CoreInv DEF IInv, vars
<1>2. ASSUME NEW w \in Workers, Process(w) PROVE Pipes'
  BY <1>2, HandlePipes, ThreadPipes DEF Process
<1>3. ASSUME NEW w \in Workers,
             heartbeat(w) \/ WriterEnds(w) \/ DeadExpires(w) \/ WorkerExits(w) \/ Stalls(w)
      PROVE  Pipes'
  BY <1>3, OtherPipes
<1>4. CASE Next
  BY <1>2, <1>3, <1>4, CorePipes, RestartPipes, CoreInv DEF Next, Fault, IInv
<1> QED
  BY <1>1, <1>4

-----------------------------------------------------------------------------
(* Positions in a pipe *)

\* Where the messages of a type are, and the jobs they are about.
At(q, type) == {i \in DOMAIN q : q[i].type = type}
JobsIn(q, type) == {q[i].job : i \in At(q, type)}
Sole(q, type) == \A i, k \in At(q, type) : i = k

LEMMA AppendHolds ==
    ASSUME NEW S, NEW q \in Seq(S), NEW m \in S, NEW type
    PROVE  /\ JobsIn(Append(q, m), type) =
                JobsIn(q, type) \cup (IF m.type = type THEN {m.job} ELSE {})
           /\ At(Append(q, m), type) = {} <=> At(q, type) = {} /\ m.type # type
           /\ Sole(q, type) /\ (m.type # type \/ At(q, type) = {})
                => Sole(Append(q, m), type)
<1>1. PICK r : r = Append(q, m)
  OBVIOUS
<1>2. PICK n \in Nat : n = Len(q) /\ DOMAIN q = 1..n
  BY LenProperties
<1>3. /\ DOMAIN r = 1..(n + 1) /\ r[n + 1] = m
      /\ \A i \in 1..n : r[i] = q[i]
  BY <1>1, <1>2, AppendProperties
<1>4. At(r, type) = At(q, type) \cup (IF m.type = type THEN {n + 1} ELSE {})
  BY <1>2, <1>3 DEF At
<1>5. n + 1 \notin At(q, type) /\ \A i \in At(q, type) : r[i] = q[i]
  BY <1>2, <1>3 DEF At
<1>6. JobsIn(r, type) = JobsIn(q, type) \cup (IF m.type = type THEN {m.job} ELSE {})
  <2>1. CASE m.type = type
    BY <1>3, <1>4, <1>5, <2>1 DEF JobsIn
  <2>2. CASE m.type # type
    BY <1>4, <1>5, <2>2 DEF JobsIn
  <2> QED
    BY <2>1, <2>2
<1> QED
  BY <1>1, <1>4, <1>6 DEF Sole

LEMMA TailHolds ==
    ASSUME NEW S, NEW q \in Seq(S), q # <<>>, NEW type
    PROVE  /\ JobsIn(Tail(q), type) \subseteq JobsIn(q, type)
           /\ At(Tail(q), type) # {} => At(q, type) # {}
           /\ Sole(q, type) => Sole(Tail(q), type)
           /\ Head(q).type = type =>
                /\ Head(q).job \in JobsIn(q, type) /\ At(q, type) # {}
                /\ Sole(q, type) => At(Tail(q), type) = {}
<1>1. PICK r : r = Tail(q)
  OBVIOUS
<1>2. PICK n \in Nat : n = Len(q) /\ DOMAIN q = 1..n /\ n # 0
  BY LenProperties, EmptySeq
<1>3. /\ DOMAIN r = 1..(n - 1)
      /\ \A i \in 1..(n - 1) : r[i] = q[i + 1]
  <2>1. r \in Seq(S) /\ Len(r) = n - 1 /\ \A i \in 1..Len(r) : r[i] = q[i + 1]
    BY <1>1, <1>2, HeadTailProperties
  <2> QED
    BY <2>1, LenProperties
<1>4. \A i \in At(r, type) : i + 1 \in At(q, type) /\ r[i] = q[i + 1] /\ i \in Nat /\ i # 0
  BY <1>2, <1>3 DEF At
<1>5. Head(q) = q[1] /\ 1 \in DOMAIN q
  BY <1>2
<1>6. JobsIn(r, type) \subseteq JobsIn(q, type)
  BY <1>4 DEF JobsIn
<1>7. Sole(q, type) => Sole(r, type)
  <2>1. ASSUME Sole(q, type), NEW i \in At(r, type), NEW k \in At(r, type)
        PROVE  i = k
    <3>1. i + 1 = k + 1
      BY <1>4, <2>1 DEF Sole
    <3> QED
      BY <1>4, <3>1
  <2> QED
    BY <2>1 DEF Sole
<1>8. ASSUME q[1].type = type
      PROVE  /\ q[1].job \in JobsIn(q, type) /\ At(q, type) # {}
             /\ Sole(q, type) => At(r, type) = {}
  <2>1. 1 \in At(q, type)
    BY <1>5, <1>8 DEF At
  <2>2. q[1].job \in JobsIn(q, type)
    BY <2>1 DEF JobsIn
  <2>3. ASSUME Sole(q, type), NEW i \in At(r, type)
        PROVE  FALSE
    <3>1. i + 1 = 1
      BY <1>4, <2>1, <2>3 DEF Sole
    <3> QED
      BY <1>4, <3>1
  <2> QED
    BY <2>1, <2>2, <2>3
<1> QED
  BY <1>1, <1>4, <1>5, <1>6, <1>7, <1>8

LEMMA EmptyHolds == \A type : At(<<>>, type) = {} /\ JobsIn(<<>>, type) = {} /\ Sole(<<>>, type)
<1>1. DOMAIN <<>> = {}
  OBVIOUS
<1> QED
  BY <1>1 DEF At, JobsIn, Sole

LEMMA NoneAt == \A q, type : At(q, type) = {} <=> JobsIn(q, type) = {}
BY DEF JobsIn
-----------------------------------------------------------------------------
(* Processes *)

\* What a worker's process, reader and handle say of each other.
Life(w) ==
    /\ process[w] \in {"OFF", "UP", "EXITED"}
    /\ process[w] # "OFF" => Generation[w] <= boots
    /\ process[w] # "UP" => running[w] = {}
    /\ w \in broken => process[w] = "EXITED"
    /\ task[w].op \in {"exited", "closed"} =>
         process[w] # "UP" /\ outbox[w] = <<>> /\ w \notin handles
    /\ task[w].op = "exited" => process[w] = "EXITED"

LifeOK == boots \in Nat /\ DOMAIN process = Workers /\ \A w \in Workers : Life(w)

\* Nothing of w changes.
Same(w) ==
    /\ inbox'[w] = inbox[w] /\ outbox'[w] = outbox[w] /\ running'[w] = running[w]
    /\ process'[w] = process[w] /\ task'[w] = task[w]
    /\ w \in handles' <=> w \in handles
    /\ w \in busy' <=> w \in busy
    /\ w \in broken' <=> w \in broken
    /\ w \in stale' <=> w \in stale

LEMMA TaskMoves ==
    ASSUME TasksOK, NEW t \in Tasks, NEW r, Goto(t, r)
    PROVE  task'[t] = r /\ \A q \in Tasks \ {t} : task'[q] = task[q]
BY DEF TasksOK, Goto

\* The reader, the process and the faults of one worker touch no other, and no
\* task but the reader.
OfWorker(v) ==
    \/ Reader(v) \/ Process(v) \/ heartbeat(v) \/ WriterEnds(v)
    \/ DeadExpires(v) \/ WorkerExits(v) \/ Stalls(v)

LEMMA Elsewhere ==
    ASSUME IInv, LifeOK, NEW v \in Workers, OfWorker(v)
    PROVE  /\ \A w \in Workers \ {v} : Same(w)
           /\ \A t \in Tasks \ {v} : task'[t] = task[t]
           /\ boots' = boots /\ DOMAIN process' = Workers
<1>0. TasksOK /\ InboxOK /\ OutboxOK /\ RunningOK /\ v \in Tasks
  BY DEF IInv, Core, Pipes, Tasks
<1>1. boots' = boots
  BY DEF OfWorker, Reader, Process, register, JobResult, ResultGet, ResultUpdate, ReaderEnds,
         RecoverExited, HandleMessage, JobThread, JobThreadEnds, heartbeat, WriterEnds,
         DeadExpires, WorkerExits, Stalls, Expire
<1>2. task' = task \/ \E r : Goto(v, r)
  BY DEF OfWorker, Reader, Process, register, JobResult, ResultGet, ResultUpdate, ReaderEnds,
         RecoverExited, HandleMessage, JobThread, JobThreadEnds, heartbeat, WriterEnds,
         DeadExpires, WorkerExits, Stalls, Expire
<1>3. \A t \in Tasks \ {v} : task'[t] = task[t]
  BY <1>0, <1>2, TaskMoves
<1>4. process' = process \/ \E x : process' = [process EXCEPT ![v] = x]
  BY DEF OfWorker, Reader, Process, register, JobResult, ResultGet, ResultUpdate, ReaderEnds,
         RecoverExited, HandleMessage, JobThread, JobThreadEnds, heartbeat, WriterEnds,
         DeadExpires, WorkerExits, Stalls, Expire, workers
<1>5. running' = running \/ \E x : running' = [running EXCEPT ![v] = x]
  BY DEF OfWorker, Reader, Process, register, JobResult, ResultGet, ResultUpdate, ReaderEnds,
         RecoverExited, HandleMessage, JobThread, JobThreadEnds, heartbeat, WriterEnds,
         DeadExpires, WorkerExits, Stalls, Expire, workers
<1>6. inbox' = inbox \/ \E x : inbox' = [inbox EXCEPT ![v] = x]
  BY DEF OfWorker, Reader, Process, register, JobResult, ResultGet, ResultUpdate, ReaderEnds,
         RecoverExited, HandleMessage, JobThread, JobThreadEnds, heartbeat, WriterEnds,
         DeadExpires, WorkerExits, Stalls, Expire, pipes
<1>7. outbox' = outbox \/ \E x : outbox' = [outbox EXCEPT ![v] = x]
  BY DEF OfWorker, Reader, Process, register, JobResult, ResultGet, ResultUpdate, ReaderEnds,
         RecoverExited, HandleMessage, JobThread, JobThreadEnds, heartbeat, WriterEnds,
         DeadExpires, WorkerExits, Stalls, Expire, pipes, Receive, From
<1>8. broken' \in {broken, broken \cup {v}} /\ stale' \in {stale, stale \cup {v}, stale \ {v}}
  BY DEF OfWorker, Reader, Process, register, JobResult, ResultGet, ResultUpdate, ReaderEnds,
         RecoverExited, HandleMessage, JobThread, JobThreadEnds, heartbeat, WriterEnds,
         DeadExpires, WorkerExits, Stalls, Expire, pipes, registry
<1>9. /\ handles' \in {handles, handles \cup {v}, handles \ {v}}
      /\ busy' \in {busy, busy \ {v}}
  BY DEF OfWorker, Reader, Process, register, JobResult, ResultGet, ResultUpdate, ReaderEnds,
         RecoverExited, HandleMessage, JobThread, JobThreadEnds, heartbeat, WriterEnds,
         DeadExpires, WorkerExits, Stalls, Expire, map, release_worker
<1>10. ASSUME NEW w \in Workers \ {v} PROVE Same(w)
  <2>1. task'[w] = task[w]
    BY <1>3 DEF Tasks
  <2>2. process'[w] = process[w] /\ running'[w] = running[w]
    BY <1>0, <1>4, <1>5 DEF LifeOK, RunningOK
  <2>3. inbox'[w] = inbox[w] /\ outbox'[w] = outbox[w]
    BY <1>0, <1>6, <1>7 DEF InboxOK, OutboxOK
  <2> QED
    BY <1>8, <1>9, <2>1, <2>2, <2>3 DEF Same
<1> QED
  BY <1>1, <1>3, <1>4, <1>10 DEF LifeOK

\* The loops and the commands, which are no worker's: what they leave alone.
OfCore == \/ Scheduler \/ Liveness \/ Control
          \/ \E u \in Users : Command(u) \/ CancelGet(u) \/ UserUpdate(u)

LEMMA CoreSteps ==
    ASSUME IInv, OfCore
    PROVE  /\ UNCHANGED <<outbox, running, process, broken, stale, boots>>
           /\ handles' \subseteq handles
           /\ \A w \in Workers : task'[w] = task[w]
<1>0. TasksOK
  BY DEF IInv, Core
<1>1. UNCHANGED <<outbox, running, process, broken, stale, boots>> /\ handles' \subseteq handles
  BY DEF OfCore, Scheduler, list_ready, NoIdleWorker, PrepareFails, ClaimWorker,
         start_on_worker, SendDispatch, Liveness, LostScan, MarkLost, RecoverMarked,
         RemoveMarked, Control, ReceiveControl, DeliverControl, Command, PauseJob,
         ResumeJob, CancelJob, Issue, CancelGet, UserUpdate, registry, map, pipes,
         workers
<1>2. \/ task' = task
      \/ \E t \in {"scheduler", "liveness", "control"} \cup Users : \E r : Goto(t, r)
  <2>1. CASE Scheduler
    BY <2>1 DEF Scheduler, list_ready, NoIdleWorker, PrepareFails, ClaimWorker,
         start_on_worker, SendDispatch
  <2>2. CASE Liveness \/ Control
    BY <2>2 DEF Liveness, LostScan, MarkLost, RecoverMarked,
         RemoveMarked, Control, ReceiveControl, DeliverControl
  <2>3. ASSUME NEW u \in Users, Command(u) \/ CancelGet(u) \/ UserUpdate(u)
        PROVE  task' = task \/ \E r : Goto(u, r)
    BY <2>3 DEF Command, PauseJob, ResumeJob, CancelJob, UserTransition, CancelGet,
         UserUpdate
  <2> QED
    BY <2>1, <2>2, <2>3 DEF OfCore
<1>3. \A w \in Workers : task'[w] = task[w]
  BY <1>0, <1>2, TaskMoves, TasksAssumption DEF Tasks
<1> QED
  BY <1>1, <1>3

LEMMA Steps ==
    ASSUME [Next]_vars
    PROVE  \/ UNCHANGED vars \/ OfCore \/ Restart \/ \E v \in Workers : OfWorker(v)
BY DEF Next, OfCore, OfWorker, Fault

LEMMA LifeInit == Init => LifeOK
<1> SUFFICES ASSUME Init PROVE LifeOK
  OBVIOUS
<1>1. ASSUME NEW w \in Workers PROVE Life(w)
  <2>1. task[w] = IF w \in SpawnedBy(1) THEN Idle ELSE Closed
    BY DEF Init, Tasks
  <2> QED
    BY <2>1 DEF Init, Life, SpawnedBy, Idle, Closed
<1> QED
  BY <1>1 DEF Init, LifeOK

LEMMA LifeNext == IInv /\ LifeOK /\ [Next]_vars => LifeOK'
<1> SUFFICES ASSUME IInv, LifeOK, [Next]_vars PROVE LifeOK'
  OBVIOUS
<1>0. TasksOK /\ OutboxOK /\ RunningOK
  BY DEF IInv, Core, Pipes
<1>1. CASE UNCHANGED vars
  BY <1>1 DEF vars, LifeOK, Life
<1>2. CASE OfCore
  BY <1>2, CoreSteps DEF LifeOK, Life
<1>3. ASSUME NEW v \in Workers, OfWorker(v) PROVE LifeOK'
  <2>0. v \in Tasks
    BY DEF Tasks
  <2>1. \A w \in Workers \ {v} : Life(w)'
    BY <1>3, Elsewhere DEF LifeOK, Life, Same
  <2>2. Life(v)'
    <3>1. CASE register(v) \/ JobResult(v)
      <4>1. task[v] = Idle /\ UNCHANGED <<process, running, broken, boots>>
        BY <3>1 DEF register, JobResult, Receive, workers
      <4>2. task'[v].op \notin {"exited", "closed"}
        <5>1. PICK r : r = [op |-> "result", job |-> Head(outbox[v]).job,
                            outcome |-> Head(outbox[v]).outcome]
          OBVIOUS
        <5>2. UNCHANGED task \/ Goto(v, r)
          BY <3>1, <5>1 DEF register, JobResult
        <5>3. task'[v] = Idle \/ task'[v] = r
          BY <1>0, <2>0, <4>1, <5>2, TaskMoves
        <5>4. r.op = "result" /\ Idle.op = "idle"
          BY <5>1 DEF Idle
        <5> QED
          BY <5>3, <5>4
      <4> QED
        BY <4>1, <4>2 DEF LifeOK, Life
    <3>2. CASE ResultGet(v) \/ ResultUpdate(v)
      <4>1. UNCHANGED <<process, running, broken, boots>>
        BY <3>2 DEF ResultGet, ResultUpdate, pipes, workers
      <4>2. task'[v].op \notin {"exited", "closed"}
        <5>1. PICK r : r = [op |-> "update", job |-> task[v].job,
                            target |-> TargetOf(task[v].outcome), snap |-> job[task[v].job]]
          OBVIOUS
        <5>2. Goto(v, Idle) \/ Goto(v, r)
          BY <3>2, <5>1 DEF ResultGet, ResultUpdate
        <5>3. task'[v] = Idle \/ task'[v] = r
          BY <1>0, <2>0, <5>2, TaskMoves
        <5>4. r.op = "update" /\ Idle.op = "idle"
          BY <5>1 DEF Idle
        <5> QED
          BY <5>3, <5>4
      <4> QED
        BY <4>1, <4>2 DEF LifeOK, Life
    <3>3. CASE ReaderEnds(v)
      <4>1. /\ UNCHANGED <<process, running, broken, boots, outbox>>
            /\ process[v] = "EXITED" /\ outbox[v] = <<>> /\ v \notin handles'
        BY <3>3 DEF ReaderEnds, pipes, workers
      <4> QED
        BY <4>1 DEF LifeOK, Life
    <3>4. CASE RecoverExited(v)
      <4>1. /\ UNCHANGED <<process, running, broken, boots, outbox, handles>>
            /\ task[v].op = "exited"
        BY <3>4 DEF RecoverExited, pipes, workers, map
      <4> QED
        BY <4>1 DEF LifeOK, Life
    <3>5. CASE Process(v)
      <4>1. UNCHANGED <<process, broken, boots, task, handles>>
        BY <3>5 DEF Process, HandleMessage, JobThread, JobThreadEnds, map, pipes
      <4>2. process[v] = "UP"
        BY <3>5 DEF Process, HandleMessage, JobThread, JobThreadEnds, LifeOK, Life
      <4> QED
        BY <4>1, <4>2 DEF LifeOK, Life
    <3>6. CASE WriterEnds(v) \/ WorkerExits(v)
      <4>1. UNCHANGED <<outbox, boots, task, handles>>
        BY <3>6 DEF WriterEnds, WorkerExits, map
      <4>2. CASE WriterEnds(v)
        BY <4>1, <4>2 DEF LifeOK, Life, WriterEnds, workers
      <4>3. CASE WorkerExits(v)
        <5>1. process'[v] = "EXITED" /\ running'[v] = {} /\ process[v] = "UP"
          BY <1>0, <4>3 DEF WorkerExits, LifeOK, RunningOK
        <5> QED
          BY <4>1, <4>3, <5>1 DEF LifeOK, Life, WorkerExits
      <4> QED
        BY <3>6, <4>2, <4>3
    <3>7. CASE heartbeat(v) \/ DeadExpires(v) \/ Stalls(v)
      <4>1. UNCHANGED <<process, running, broken, boots, outbox, handles, task>>
        BY <3>7 DEF heartbeat, DeadExpires, Stalls, Expire, pipes, workers, map
      <4> QED
        BY <4>1 DEF LifeOK, Life
    <3> QED
      BY <1>3, <3>1, <3>2, <3>3, <3>4, <3>5, <3>6, <3>7 DEF OfWorker, Reader
  <2>3. boots' = boots /\ DOMAIN process' = Workers
    BY <1>3, Elsewhere
  <2> QED
    BY <2>1, <2>2, <2>3 DEF LifeOK
<1>4. CASE Restart
  <2>1. /\ boots' = boots + 1 /\ DOMAIN process' = Workers /\ boots' \in Nat
        /\ handles' = {} /\ broken' = {}
    BY <1>4 DEF Restart, LifeOK
  <2>2. ASSUME NEW w \in Workers PROVE Life(w)'
    <3>1. /\ process'[w] = IF w \in SpawnedBy(boots + 1) THEN "UP"
                            ELSE IF process[w] = "OFF" THEN "OFF" ELSE "EXITED"
          /\ running'[w] = {}
          /\ outbox'[w] = IF w \in SpawnedBy(boots + 1) THEN <<Register>> ELSE <<>>
      BY <1>4 DEF Restart
    <3>2. task'[w] = IF w \in SpawnedBy(boots + 1) THEN Idle ELSE Closed
      BY <1>4 DEF Restart, Tasks
    <3>3. Generation[w] \in Nat /\ boots \in Nat
      BY GenerationAssumption DEF LifeOK
    <3>4. process'[w] # "OFF" => Generation[w] <= boots + 1
      BY <3>1, <3>3 DEF LifeOK, Life, SpawnedBy
    <3> QED
      BY <2>1, <3>1, <3>2, <3>4 DEF Life, Idle, Closed
  <2> QED
    BY <2>1, <2>2 DEF LifeOK
<1> QED
  BY <1>1, <1>2, <1>3, <1>4, Steps

-----------------------------------------------------------------------------
(* The way of one job through a worker *)

\* Where a worker has a job: in the pipe to it, in a thread, in the pipe from it, in
\* its reader.
Dispatched(w) == JobsIn(inbox[w], "JOB_DISPATCH")
Undone(w) == {e \in running[w] : ~e.done}
Executed(w) == {e.job : e \in Undone(w)}
Reported(w) == JobsIn(outbox[w], "JOB_RESULT")
Handled(w) == IF task[w].op \in {"result", "update"} THEN {task[w].job} ELSE {}

Early(w) == Dispatched(w) \cup Executed(w)
Late(w) == Reported(w) \cup Handled(w)
Work(w) == Early(w) \cup Late(w)

Registering(w) == At(outbox[w], "REGISTER") # {}

\* A worker has one job at one place at a time, and registers once.
OneItem(w) ==
    /\ Sole(inbox[w], "JOB_DISPATCH")
    /\ \A e, f \in Undone(w) : e = f
    /\ Sole(outbox[w], "JOB_RESULT")
    /\ Sole(outbox[w], "REGISTER")
    /\ Dispatched(w) = {} \/ Executed(w) = {}
    /\ Early(w) = {} \/ Late(w) = {}
    /\ Reported(w) = {} \/ Handled(w) = {}

\* The jobs the table has to say w executes: what a dead process was given, and
\* will never do, is not among them.
Due(w) == IF process[w] = "UP" THEN Work(w) ELSE Late(w)

\* A step takes the job of w further and gives it no other.
Advances(w) ==
    /\ OneItem(w)'
    /\ Work(w)' \subseteq Work(w)
    /\ Due(w)' \subseteq Due(w)
    /\ Registering(w)' => Registering(w)

LEMMA SameAdvances ==
    ASSUME NEW w, OneItem(w), inbox'[w] = inbox[w], outbox'[w] = outbox[w],
           running'[w] = running[w], task'[w] = task[w], process'[w] = process[w]
    PROVE  Advances(w)
BY DEF Advances, OneItem, Work, Due, Registering, Early, Late, Dispatched, Undone, Executed,
       Reported, Handled

LEMMA OneHead ==
    ASSUME IInv, NEW w \in Workers, OneItem(w), inbox[w] # <<>>
    PROVE  LET m == Head(inbox[w])
               dispatched == JobsIn(Tail(inbox[w]), "JOB_DISPATCH")
           IN  /\ m \in Inputs
               /\ Sole(Tail(inbox[w]), "JOB_DISPATCH")
               /\ dispatched \subseteq Dispatched(w)
               /\ m.type = "JOB_DISPATCH" =>
                    /\ m.job \in Dispatched(w) /\ dispatched = {}
                    /\ Executed(w) = {} /\ Undone(w) = {} /\ Late(w) = {}
<1>1. inbox[w] \in Seq(Inputs)
  BY DEF IInv, Pipes, InboxOK
<1>2. PICK q, r : q = inbox[w] /\ r = Tail(q)
  OBVIOUS
<1>3. Head(q) \in Inputs
  BY <1>1, <1>2, HeadTailProperties
<1>4. /\ JobsIn(r, "JOB_DISPATCH") \subseteq JobsIn(q, "JOB_DISPATCH")
      /\ Sole(q, "JOB_DISPATCH") => Sole(r, "JOB_DISPATCH")
      /\ Head(q).type = "JOB_DISPATCH" =>
           /\ Head(q).job \in JobsIn(q, "JOB_DISPATCH")
           /\ Sole(q, "JOB_DISPATCH") => At(r, "JOB_DISPATCH") = {}
  BY <1>1, <1>2, TailHolds
<1>5. At(r, "JOB_DISPATCH") = {} => JobsIn(r, "JOB_DISPATCH") = {}
  BY NoneAt
<1>6. Executed(w) = {} => Undone(w) = {}
  BY DEF Executed
<1> QED
  BY <1>2, <1>3, <1>4, <1>5, <1>6 DEF OneItem, Dispatched, Early

LEMMA OneReceived ==
    ASSUME IInv, NEW w \in Workers, OneItem(w), NEW type, Receive(w, type)
    PROVE  /\ JobsIn(outbox'[w], "JOB_RESULT") \subseteq Reported(w)
           /\ At(outbox'[w], "REGISTER") # {} => Registering(w)
           /\ Sole(outbox'[w], "JOB_RESULT") /\ Sole(outbox'[w], "REGISTER")
           /\ Handled(w) = {}
           /\ type = "JOB_RESULT" => /\ Head(outbox[w]).job \in Reported(w)
                                     /\ JobsIn(outbox'[w], "JOB_RESULT") = {}
                                     /\ Early(w) = {}
           /\ type = "REGISTER" => /\ Registering(w)
                                   /\ At(outbox'[w], "REGISTER") = {}
<1>0. OutboxOK
  BY DEF IInv, Pipes
<1>1. /\ outbox[w] \in Seq(Messages) /\ outbox[w] # <<>> /\ task[w] = Idle
      /\ Head(outbox[w]).type = type /\ outbox'[w] = Tail(outbox[w])
  BY <1>0, Received DEF OutboxOK
<1>2. PICK q, r : q = outbox[w] /\ r = Tail(q)
  OBVIOUS
<1>3. /\ JobsIn(r, "JOB_RESULT") \subseteq JobsIn(q, "JOB_RESULT")
      /\ Sole(q, "JOB_RESULT") => Sole(r, "JOB_RESULT")
      /\ Head(q).type = "JOB_RESULT" =>
           /\ Head(q).job \in JobsIn(q, "JOB_RESULT")
           /\ Sole(q, "JOB_RESULT") => At(r, "JOB_RESULT") = {}
  BY <1>1, <1>2, TailHolds
<1>4. /\ At(r, "REGISTER") # {} => At(q, "REGISTER") # {}
      /\ Sole(q, "REGISTER") => Sole(r, "REGISTER")
      /\ Head(q).type = "REGISTER" =>
           /\ At(q, "REGISTER") # {}
           /\ Sole(q, "REGISTER") => At(r, "REGISTER") = {}
  BY <1>1, <1>2, TailHolds
<1>5. At(r, "JOB_RESULT") = {} => JobsIn(r, "JOB_RESULT") = {}
  BY NoneAt
<1>6. Handled(w) = {}
  BY <1>1 DEF Handled, Idle
<1> QED
  BY <1>1, <1>2, <1>3, <1>4, <1>5, <1>6 DEF OneItem, Reported, Registering, Late

\* The process writes a result.
LEMMA OneReport ==
    ASSUME IInv, NEW w \in Workers, OneItem(w), NEW j, NEW outcome,
           Result(j, outcome) \in Messages, From(w, Result(j, outcome)), Reported(w) = {}
    PROVE  /\ JobsIn(outbox'[w], "JOB_RESULT") = {j}
           /\ Sole(outbox'[w], "JOB_RESULT") /\ Sole(outbox'[w], "REGISTER")
           /\ At(outbox'[w], "REGISTER") # {} => Registering(w)
<1>1. outbox[w] \in Seq(Messages) /\ outbox'[w] = Append(outbox[w], Result(j, outcome))
  BY DEF IInv, Pipes, OutboxOK, From
<1>2. PICK q, m, r : q = outbox[w] /\ m = Result(j, outcome) /\ r = Append(q, m)
  OBVIOUS
<1>3. m.type = "JOB_RESULT" /\ m.job = j
  BY <1>2 DEF Result
<1>4. /\ JobsIn(r, "JOB_RESULT") =
           JobsIn(q, "JOB_RESULT") \cup (IF m.type = "JOB_RESULT" THEN {m.job} ELSE {})
      /\ Sole(q, "JOB_RESULT") /\ (m.type # "JOB_RESULT" \/ At(q, "JOB_RESULT") = {})
           => Sole(r, "JOB_RESULT")
  BY <1>1, <1>2, AppendHolds
<1>5. /\ At(r, "REGISTER") = {} <=> At(q, "REGISTER") = {} /\ m.type # "REGISTER"
      /\ Sole(q, "REGISTER") /\ (m.type # "REGISTER" \/ At(q, "REGISTER") = {})
           => Sole(r, "REGISTER")
  BY <1>1, <1>2, AppendHolds
<1>6. At(q, "JOB_RESULT") = {} <=> JobsIn(q, "JOB_RESULT") = {}
  BY NoneAt
<1> QED
  BY <1>1, <1>2, <1>3, <1>4, <1>5, <1>6 DEF OneItem, Reported, Registering

LEMMA HandleAdvances ==
    ASSUME IInv, NEW w \in Workers, OneItem(w), HandleMessage(w)
    PROVE  Advances(w)
<1>1. PICK m, rest : m = Head(inbox[w]) /\ rest = Tail(inbox[w])
  OBVIOUS
<1>2. /\ inbox[w] # <<>> /\ inbox'[w] = rest
      /\ UNCHANGED <<task, process>> /\ process[w] = "UP"
  BY <1>1 DEF HandleMessage, IInv, Pipes, InboxOK
<1>3. /\ m \in Inputs /\ Dispatched(w)' \subseteq Dispatched(w)
      /\ Sole(inbox[w], "JOB_DISPATCH")'
      /\ m.type = "JOB_DISPATCH" =>
           /\ m.job \in Dispatched(w) /\ Dispatched(w)' = {}
           /\ Executed(w) = {} /\ Undone(w) = {} /\ Late(w) = {}
  BY <1>1, <1>2, OneHead DEF Dispatched
<1>4. Handled(w)' = Handled(w)
  BY <1>2 DEF Handled
<1>5. PICK mine : mine = {e \in running[w] : e.job = m.job}
  OBVIOUS
<1>6. running[w] \subseteq Executions /\ mine \subseteq Executions
  BY <1>5 DEF IInv, Pipes, RunningOK
<1>7. CASE m.type = "JOB_DISPATCH" /\ mine # {}
  <2>1. From(w, Result(m.job, "FAILED")) /\ UNCHANGED running
    BY <1>1, <1>5, <1>7 DEF HandleMessage
  <2>2. Result(m.job, "FAILED") \in Messages
    <3>1. m.job \in Jobs
      BY <1>3 DEF Inputs, Orders, Dispatch
    <3> QED
      BY <3>1 DEF Messages, Results
  <2>3. Reported(w) = {} /\ Handled(w) = {}
    BY <1>3, <1>7 DEF Late
  <2>4. /\ Reported(w)' = {m.job} /\ (Registering(w)' => Registering(w))
        /\ Sole(outbox[w], "JOB_RESULT")' /\ Sole(outbox[w], "REGISTER")'
    BY <2>1, <2>2, <2>3, OneReport DEF Reported, Registering
  <2>5. Executed(w)' = {} /\ Undone(w)' = {}
    BY <1>3, <1>7, <2>1 DEF Executed, Undone
  <2> QED
    BY <1>2, <1>3, <1>4, <1>7, <2>3, <2>4, <2>5 DEF Advances, OneItem, Work, Due, Early, Late
<1>8. CASE ~(m.type = "JOB_DISPATCH" /\ mine # {})
  <2>1. UNCHANGED outbox
    BY <1>1, <1>5, <1>8 DEF HandleMessage
  <2>2. PICK started, cancelled, paused :
          /\ started = running[w] \cup {Execution(m.job)}
          /\ cancelled = (running[w] \ mine) \cup {[e EXCEPT !.cancel = TRUE] : e \in mine}
          /\ paused = (running[w] \ mine) \cup {[e EXCEPT !.pause = TRUE] : e \in mine}
          /\ running' = [running EXCEPT ![w] = CASE m.type = "JOB_DISPATCH" -> started
                                                 [] m.type = "CANCEL" -> cancelled
                                                 [] m.type = "PAUSE" -> paused]
    BY <1>1, <1>5, <1>8 DEF HandleMessage
  <2>3. running \in [Workers -> SUBSET Executions]
    BY DEF IInv, Pipes, RunningOK
  <2>4. /\ Reported(w)' = Reported(w) /\ Registering(w)' = Registering(w)
        /\ Sole(outbox[w], "JOB_RESULT")' /\ Sole(outbox[w], "REGISTER")'
    BY <2>1 DEF Reported, Registering, OneItem
  <2>5. CASE m.type = "JOB_DISPATCH"
    <3>1. running'[w] = running[w] \cup {Execution(m.job)}
      BY <2>2, <2>3, <2>5
    <3>2. PICK e : e = Execution(m.job)
      OBVIOUS
    <3>3. e.job = m.job /\ ~e.done
      BY <3>2 DEF Execution
    <3>4. Undone(w)' = Undone(w) \cup {e}
      BY <3>1, <3>2, <3>3 DEF Undone
    <3>5. Undone(w)' = {e} /\ Executed(w)' = {m.job}
      BY <1>3, <2>5, <3>3, <3>4 DEF Executed
    <3> QED
      BY <1>2, <1>3, <1>4, <2>4, <2>5, <3>5
         DEF Advances, OneItem, Work, Due, Early, Late
  <2>6. CASE m.type \in {"CANCEL", "PAUSE"}
    <3>1. PICK f : f = [e \in mine |-> IF m.type = "CANCEL" THEN [e EXCEPT !.cancel = TRUE]
                                       ELSE [e EXCEPT !.pause = TRUE]]
      OBVIOUS
    <3>2. \A e \in mine : f[e].job = e.job /\ f[e].done = e.done
      BY <1>6, <3>1 DEF Executions
    <3>3. running'[w] = (running[w] \ mine) \cup {f[e] : e \in mine}
      <4>1. CASE m.type = "CANCEL"
        <5>0. running'[w] = cancelled
          BY <2>2, <2>3, <4>1
        <5>1. running'[w] = (running[w] \ mine) \cup {[e EXCEPT !.cancel = TRUE] : e \in mine}
          BY <2>2, <5>0
        <5>2. \A e \in mine : f[e] = [e EXCEPT !.cancel = TRUE]
          BY <3>1, <4>1
        <5>3. {[e EXCEPT !.cancel = TRUE] : e \in mine} = {f[e] : e \in mine}
          BY <5>2, Zenon
        <5> QED
          BY <5>1, <5>3
      <4>2. CASE m.type = "PAUSE"
        <5>0. running'[w] = paused
          BY <2>2, <2>3, <4>2
        <5>1. running'[w] = (running[w] \ mine) \cup {[e EXCEPT !.pause = TRUE] : e \in mine}
          BY <2>2, <5>0
        <5>2. \A e \in mine : f[e] = [e EXCEPT !.pause = TRUE]
          BY <3>1, <4>2
        <5>3. {[e EXCEPT !.pause = TRUE] : e \in mine} = {f[e] : e \in mine}
          BY <5>2, Zenon
        <5> QED
          BY <5>1, <5>3
      <4> QED
        BY <2>6, <4>1, <4>2
    <3>4. \A x \in running'[w] : \E e \in running[w] :
            /\ x.job = e.job /\ x.done = e.done
            /\ x = IF e \in mine THEN f[e] ELSE e
      <4>1. ASSUME NEW x \in running'[w]
            PROVE  \E e \in running[w] : /\ x.job = e.job /\ x.done = e.done
                                         /\ x = IF e \in mine THEN f[e] ELSE e
        <5>1. CASE x \in running[w] \ mine
          BY <5>1
        <5>2. CASE \E e \in mine : x = f[e]
          BY <1>5, <3>2, <5>2
        <5> QED
          BY <3>3, <5>1, <5>2
      <4> QED
        BY <4>1
    <3>5. Executed(w)' \subseteq Executed(w)
      BY <3>4 DEF Executed, Undone
    <3>6. \A e, g \in Undone(w)' : e = g
      <4>1. \A e, g \in Undone(w) : e = g
        BY DEF OneItem
      <4> QED
        BY <3>4, <4>1 DEF Undone
    <3> QED
      BY <1>2, <1>3, <1>4, <2>4, <2>6, <3>5, <3>6
         DEF Advances, OneItem, Work, Due, Early, Late
  <2>7. m.type \in {"JOB_DISPATCH", "PAUSE", "CANCEL"}
    BY <1>3 DEF Inputs, Orders, Dispatch
  <2> QED
    BY <2>5, <2>6, <2>7
<1> QED
  BY <1>7, <1>8

LEMMA ThreadAdvances ==
    ASSUME IInv, LifeOK, NEW w \in Workers, OneItem(w), JobThread(w) \/ JobThreadEnds(w)
    PROVE  Advances(w)
<1>0. running \in [Workers -> SUBSET Executions]
  BY DEF IInv, Pipes, RunningOK
<1>1. UNCHANGED <<inbox, task, process>>
  BY DEF JobThread, JobThreadEnds, pipes
<1>2. /\ Dispatched(w)' = Dispatched(w) /\ Handled(w)' = Handled(w)
      /\ Sole(inbox[w], "JOB_DISPATCH")'
  BY <1>1 DEF Dispatched, Handled, OneItem
<1>3. CASE JobThread(w)
  <2>1. PICK e \in running[w], o \in Results :
          /\ ~e.done /\ From(w, Result(e.job, o))
          /\ running' = [running EXCEPT ![w] = (@ \ {e}) \cup {[e EXCEPT !.done = TRUE]}]
    <3>1. PICK e \in running[w], outcome \in Outcomes :
            /\ ~e.done
            /\ From(w, Result(e.job, IF outcome = "FAILED" THEN "FAILED"
                                     ELSE IF e.cancel THEN "CANCELLED"
                                     ELSE IF e.pause THEN "PAUSED"
                                     ELSE outcome))
            /\ running' = [running EXCEPT ![w] = (@ \ {e}) \cup {[e EXCEPT !.done = TRUE]}]
      BY <1>3 DEF JobThread
    <3>2. PICK o : o = IF outcome = "FAILED" THEN "FAILED"
                       ELSE IF e.cancel THEN "CANCELLED"
                       ELSE IF e.pause THEN "PAUSED"
                       ELSE outcome
      OBVIOUS
    <3>3. o \in Results
      BY <3>2, OutcomesAssumption DEF Results
    <3> QED
      BY <3>1, <3>2, <3>3
  <2>2. e \in Executions /\ e \in Undone(w)
    BY <1>0, <2>1 DEF Undone
  <2>3. e.job \in Jobs /\ [e EXCEPT !.done = TRUE].done
    BY <2>2 DEF Executions
  <2>4. Undone(w) = {e} /\ Executed(w) = {e.job}
    BY <2>2 DEF OneItem, Executed
  <2>5. Dispatched(w) = {} /\ Late(w) = {} /\ Reported(w) = {} /\ Handled(w) = {}
    BY <2>4 DEF OneItem, Early, Late
  <2>6. running'[w] = (running[w] \ {e}) \cup {[e EXCEPT !.done = TRUE]}
    BY <1>0, <2>1
  <2>7. Undone(w)' = {} /\ Executed(w)' = {}
    <3>1. Undone(w)' = {}
      BY <2>3, <2>4, <2>6 DEF Undone
    <3> QED
      BY <3>1 DEF Executed
  <2>8. Result(e.job, o) \in Messages
    BY <2>3 DEF Messages
  <2>9. /\ Reported(w)' = {e.job} /\ (Registering(w)' => Registering(w))
        /\ Sole(outbox[w], "JOB_RESULT")' /\ Sole(outbox[w], "REGISTER")'
    BY <2>1, <2>5, <2>8, OneReport DEF Reported, Registering
  <2>10. process[w] = "UP"
    BY DEF LifeOK, Life
  <2> QED
    BY <1>1, <1>2, <2>4, <2>5, <2>7, <2>9, <2>10 DEF Advances, OneItem, Work, Due, Early, Late
<1>4. CASE JobThreadEnds(w)
  <2>1. PICK e \in running[w] : e.done /\ running' = [running EXCEPT ![w] = running[w] \ {e}]
    BY <1>4 DEF JobThreadEnds
  <2>2. running'[w] = running[w] \ {e}
    BY <1>0, <2>1
  <2>3. Undone(w)' = Undone(w)
    BY <2>1, <2>2 DEF Undone
  <2>4. Executed(w)' = Executed(w)
    BY <2>3 DEF Executed
  <2>5. UNCHANGED outbox
    BY <1>4 DEF JobThreadEnds, pipes
  <2>6. /\ Reported(w)' = Reported(w) /\ Registering(w)' = Registering(w)
        /\ Sole(outbox[w], "JOB_RESULT")' /\ Sole(outbox[w], "REGISTER")'
    BY <2>5 DEF Reported, Registering, OneItem
  <2> QED
    BY <1>1, <1>2, <2>3, <2>4, <2>6 DEF Advances, OneItem, Work, Due, Early, Late
<1> QED
  BY <1>3, <1>4

\* The reader takes a result, and when it goes no further with it w has none.
LEMMA ResultAdvances ==
    ASSUME IInv, NEW w \in Workers, OneItem(w), JobResult(w)
    PROVE  /\ Advances(w)
           /\ Head(outbox[w]).job \in Late(w)
           /\ task' = task => Work(w)' = {}
<1>1. /\ Receive(w, "JOB_RESULT") /\ UNCHANGED <<inbox, running, process>>
  BY DEF JobResult, workers
<1>2. PICK j : j = Head(outbox[w]).job
  OBVIOUS
<1>3. /\ Reported(w)' = {} /\ j \in Reported(w) /\ Handled(w) = {} /\ Early(w) = {}
      /\ Registering(w)' => Registering(w)
      /\ Sole(outbox[w], "JOB_RESULT")' /\ Sole(outbox[w], "REGISTER")'
  BY <1>1, <1>2, OneReceived DEF Reported, Registering
<1>4. Dispatched(w)' = Dispatched(w) /\ Executed(w)' = Executed(w) /\ Undone(w)' = Undone(w)
  BY <1>1 DEF Dispatched, Executed, Undone
<1>5. Handled(w)' = {} \/ Handled(w)' = {j}
  <2>1. PICK r : r = [op |-> "result", job |-> j, outcome |-> Head(outbox[w]).outcome]
    OBVIOUS
  <2>2. UNCHANGED task \/ Goto(w, r)
    BY <1>2, <2>1 DEF JobResult
  <2>3. task'[w] = task[w] \/ task'[w] = r
    BY <2>2, TaskMoves DEF IInv, Core, Tasks
  <2>4. r.op = "result" /\ r.job = j
    BY <2>1
  <2> QED
    BY <1>3, <2>3, <2>4 DEF Handled
<1>6. task' = task => Handled(w)' = {}
  BY <1>3 DEF Handled
<1>7. Sole(inbox[w], "JOB_DISPATCH")'
  BY <1>1 DEF OneItem
<1> QED
  BY <1>1, <1>2, <1>3, <1>4, <1>5, <1>6, <1>7 DEF Advances, OneItem, Work, Due, Early, Late

LEMMA HandledAdvances ==
    ASSUME IInv, NEW w \in Workers, OneItem(w), ResultGet(w) \/ ResultUpdate(w)
    PROVE  /\ Advances(w)
           /\ task[w].job \in Late(w)
           /\ Goto(w, Idle) => Work(w)' = {}
<1>1. UNCHANGED <<inbox, outbox, running, process>>
  BY DEF ResultGet, ResultUpdate, pipes, workers
<1>2. /\ Reported(w)' = Reported(w) /\ Registering(w)' = Registering(w)
      /\ Dispatched(w)' = Dispatched(w) /\ Executed(w)' = Executed(w)
      /\ Undone(w)' = Undone(w)
      /\ Sole(outbox[w], "JOB_RESULT")' /\ Sole(outbox[w], "REGISTER")'
      /\ Sole(inbox[w], "JOB_DISPATCH")'
  BY <1>1 DEF Reported, Registering, Dispatched, Executed, Undone, OneItem
<1>3. task[w].op \in {"result", "update"} /\ Handled(w) = {task[w].job}
  BY DEF ResultGet, ResultUpdate, Handled
<1>4. Early(w) = {} /\ Reported(w) = {}
  BY <1>3 DEF OneItem, Late
<1>5. Goto(w, Idle) => Handled(w)' = {}
  <2>1. ASSUME Goto(w, Idle) PROVE task'[w] = Idle
    BY <2>1, TaskMoves DEF IInv, Core, Tasks
  <2> QED
    BY <2>1 DEF Handled, Idle
<1>6. Handled(w)' = {} \/ Handled(w)' = {task[w].job}
  <2>1. PICK r : r = [op |-> "update", job |-> task[w].job,
                      target |-> TargetOf(task[w].outcome), snap |-> job[task[w].job]]
    OBVIOUS
  <2>2. Goto(w, Idle) \/ Goto(w, r)
    BY <2>1 DEF ResultGet, ResultUpdate
  <2>3. ASSUME Goto(w, r) PROVE task'[w] = r
    BY <2>3, TaskMoves DEF IInv, Core, Tasks
  <2>4. r.op = "update" /\ r.job = task[w].job
    BY <2>1
  <2> QED
    BY <1>5, <2>2, <2>3, <2>4 DEF Handled
<1> QED
  BY <1>1, <1>2, <1>3, <1>4, <1>5, <1>6 DEF Advances, OneItem, Work, Due, Early, Late

LEMMA RegisterAdvances ==
    ASSUME IInv, NEW w \in Workers, OneItem(w), register(w)
    PROVE  Advances(w) /\ Registering(w) /\ ~Registering(w)'
<1>1. Receive(w, "REGISTER") /\ UNCHANGED <<inbox, running, process, task>>
  BY DEF register, workers
<1>2. /\ Reported(w)' \subseteq Reported(w) /\ Registering(w) /\ ~Registering(w)'
      /\ Sole(outbox[w], "JOB_RESULT")' /\ Sole(outbox[w], "REGISTER")'
  BY <1>1, OneReceived DEF Reported, Registering
<1>3. /\ Dispatched(w)' = Dispatched(w) /\ Executed(w)' = Executed(w)
      /\ Undone(w)' = Undone(w) /\ Handled(w)' = Handled(w)
      /\ Sole(inbox[w], "JOB_DISPATCH")'
  BY <1>1 DEF Dispatched, Executed, Undone, Handled, OneItem
<1> QED
  BY <1>1, <1>2, <1>3 DEF Advances, OneItem, Work, Due, Early, Late

LEMMA ExitAdvances ==
    ASSUME IInv, LifeOK, NEW w \in Workers, OneItem(w),
           ReaderEnds(w) \/ RecoverExited(w) \/ WriterEnds(w) \/ WorkerExits(w)
    PROVE  Advances(w)
<1>1. UNCHANGED outbox
  BY DEF ReaderEnds, RecoverExited, WriterEnds, WorkerExits, pipes
<1>2. /\ Reported(w)' = Reported(w) /\ Registering(w)' = Registering(w)
      /\ Sole(outbox[w], "JOB_RESULT")' /\ Sole(outbox[w], "REGISTER")'
  BY <1>1 DEF Reported, Registering, OneItem
<1>3. Handled(w)' = Handled(w)
  <2>1. CASE task' = task
    BY <2>1 DEF Handled
  <2>2. CASE ReaderEnds(w) \/ RecoverExited(w)
    <3>1. task[w].op \notin {"result", "update"}
      BY <2>2 DEF ReaderEnds, RecoverExited, Idle
    <3>2. PICK r : r = [op |-> "exited"]
      OBVIOUS
    <3>3. Goto(w, Closed) \/ Goto(w, r)
      BY <2>2, <3>2 DEF ReaderEnds, RecoverExited
    <3>4. task'[w] = Closed \/ task'[w] = r
      BY <3>3, TaskMoves DEF IInv, Core, Tasks
    <3>5. Closed.op = "closed" /\ r.op = "exited"
      BY <3>2 DEF Closed
    <3> QED
      BY <3>1, <3>4, <3>5 DEF Handled
  <2>3. CASE WriterEnds(w) \/ WorkerExits(w)
    BY <2>1, <2>3 DEF WriterEnds, WorkerExits
  <2> QED
    BY <2>2, <2>3
<1>4. inbox'[w] = inbox[w] \/ inbox'[w] = <<>>
  BY DEF ReaderEnds, RecoverExited, WriterEnds, WorkerExits, pipes, IInv, Pipes, InboxOK
<1>5. Dispatched(w)' \subseteq Dispatched(w) /\ Sole(inbox[w], "JOB_DISPATCH")'
  BY <1>4, EmptyHolds DEF Dispatched, OneItem
<1>6. running'[w] = running[w] \/ running'[w] = {}
  BY DEF ReaderEnds, RecoverExited, WriterEnds, WorkerExits, workers, IInv, Pipes, RunningOK
<1>7. Undone(w)' \subseteq Undone(w)
  BY <1>6 DEF Undone
<1>8. Executed(w)' \subseteq Executed(w)
  BY <1>7 DEF Executed
<1>9. process'[w] = process[w] \/ process[w] = "UP"
  BY DEF ReaderEnds, RecoverExited, WriterEnds, WorkerExits, workers
<1> QED
  BY <1>2, <1>3, <1>5, <1>7, <1>8, <1>9 DEF Advances, OneItem, Work, Due, Early, Late

\* A worker's own steps.
LEMMA WorkerAdvances ==
    ASSUME IInv, LifeOK, NEW v \in Workers, OfWorker(v), NEW w \in Workers, OneItem(w)
    PROVE  Advances(w)
<1>1. CASE v # w
  BY <1>1, Elsewhere, SameAdvances DEF Same
<1>2. CASE v = w /\ (heartbeat(w) \/ DeadExpires(w) \/ Stalls(w))
  <2>1. UNCHANGED <<inbox, outbox, running, task, process>>
    BY <1>2 DEF heartbeat, DeadExpires, Stalls, Expire, pipes, workers
  <2> QED
    BY <2>1, SameAdvances
<1> QED
  BY <1>1, <1>2, HandleAdvances, ThreadAdvances, ResultAdvances, HandledAdvances,
     RegisterAdvances, ExitAdvances DEF OfWorker, Reader, Process

\* Steps of the loops and the commands, but for the sending of a dispatch.
LEMMA LoopAdvances ==
    ASSUME IInv, OfCore, NEW w \in Workers, OneItem(w), ~SendDispatch \/ inbox' = inbox
    PROVE  Advances(w)
<1>1. /\ outbox'[w] = outbox[w] /\ running'[w] = running[w] /\ process'[w] = process[w]
      /\ task'[w] = task[w]
  BY CoreSteps
<1>2. inbox' = inbox \/ DeliverControl
  BY DEF OfCore, Scheduler, list_ready, NoIdleWorker, PrepareFails, ClaimWorker,
         start_on_worker, Liveness, LostScan, MarkLost, RecoverMarked,
         RemoveMarked, Control, ReceiveControl, Command, PauseJob,
         ResumeJob, CancelJob, Issue, CancelGet, UserUpdate, pipes
<1>3. CASE inbox' = inbox
  BY <1>1, <1>3, SameAdvances
<1>4. CASE DeliverControl /\ inbox' # inbox
  <2>1. PICK c : c = task["control"]
    OBVIOUS
  <2>2. To(c.worker, c.message) /\ c.message \in Orders
    BY <1>4, <2>1 DEF DeliverControl, IInv, Core, TasksOK, OrderOK
  <2>3. CASE c.worker # w
    <3>1. inbox'[w] = inbox[w]
      BY <2>2, <2>3 DEF To, IInv, Pipes, InboxOK
    <3> QED
      BY <1>1, <3>1, SameAdvances
  <2>4. CASE c.worker = w
    <3>1. /\ inbox[w] \in Seq(Inputs) /\ inbox'[w] = Append(inbox[w], c.message)
          /\ c.message \in Inputs /\ c.message.type # "JOB_DISPATCH"
      BY <2>2, <2>4 DEF To, IInv, Pipes, InboxOK, Inputs, Orders
    <3>2. /\ JobsIn(Append(inbox[w], c.message), "JOB_DISPATCH") =
               JobsIn(inbox[w], "JOB_DISPATCH") \cup
                 (IF c.message.type = "JOB_DISPATCH" THEN {c.message.job} ELSE {})
          /\ Sole(inbox[w], "JOB_DISPATCH") /\ c.message.type # "JOB_DISPATCH"
               => Sole(Append(inbox[w], c.message), "JOB_DISPATCH")
      BY <3>1, AppendHolds
    <3>3. Dispatched(w)' = Dispatched(w) /\ Sole(inbox[w], "JOB_DISPATCH")'
      BY <3>1, <3>2 DEF Dispatched, OneItem
    <3>4. /\ Reported(w)' = Reported(w) /\ Registering(w)' = Registering(w)
          /\ Executed(w)' = Executed(w) /\ Undone(w)' = Undone(w)
          /\ Handled(w)' = Handled(w)
          /\ Sole(outbox[w], "JOB_RESULT")' /\ Sole(outbox[w], "REGISTER")'
      BY <1>1 DEF Reported, Registering, Executed, Undone, OneItem, Handled
    <3> QED
      BY <1>1, <3>3, <3>4 DEF Advances, OneItem, Work, Due, Early, Late
  <2> QED
    BY <2>3, <2>4
<1> QED
  BY <1>2, <1>3, <1>4

\* The dispatch is the one item of a worker that has none.
LEMMA SendAdvances ==
    ASSUME IInv, NEW w \in Workers, NEW j \in Jobs, OneItem(w), Work(w) = {},
           To(w, Dispatch(j)), UNCHANGED <<outbox, running, process>>, task'[w] = task[w]
    PROVE  /\ OneItem(w)' /\ Work(w)' = {j} /\ Late(w)' = {}
           /\ Registering(w)' = Registering(w)
<1>1. PICK m : m = Dispatch(j)
  OBVIOUS
<1>2. /\ inbox[w] \in Seq(Inputs) /\ inbox'[w] = Append(inbox[w], m)
      /\ m \in Inputs /\ m.type = "JOB_DISPATCH" /\ m.job = j
  BY <1>1 DEF To, IInv, Pipes, InboxOK, Inputs, Dispatch
<1>3. /\ JobsIn(Append(inbox[w], m), "JOB_DISPATCH") =
           JobsIn(inbox[w], "JOB_DISPATCH") \cup
             (IF m.type = "JOB_DISPATCH" THEN {m.job} ELSE {})
      /\ Sole(inbox[w], "JOB_DISPATCH") /\ At(inbox[w], "JOB_DISPATCH") = {}
           => Sole(Append(inbox[w], m), "JOB_DISPATCH")
  BY <1>2, AppendHolds
<1>4. /\ Dispatched(w) = {} /\ Executed(w) = {} /\ Reported(w) = {} /\ Handled(w) = {}
  BY DEF Work, Early, Late
<1>5. At(inbox[w], "JOB_DISPATCH") = {}
  BY <1>4, NoneAt DEF Dispatched
<1>6. Dispatched(w)' = {j} /\ Sole(inbox[w], "JOB_DISPATCH")'
  BY <1>2, <1>3, <1>4, <1>5 DEF Dispatched, OneItem
<1>7. /\ Reported(w)' = Reported(w) /\ Registering(w)' = Registering(w)
      /\ Executed(w)' = Executed(w) /\ Undone(w)' = Undone(w)
      /\ Handled(w)' = Handled(w)
      /\ Sole(outbox[w], "JOB_RESULT")' /\ Sole(outbox[w], "REGISTER")'
  BY DEF Reported, Registering, Executed, Undone, OneItem, Handled
<1> QED
  BY <1>4, <1>6, <1>7 DEF OneItem, Work, Early, Late

-----------------------------------------------------------------------------
(* What a step may do to the rows *)

\* The scheduler's UPDATE finds the job as it should.
Starting ==
    LET s == task["scheduler"] IN
    /\ start_on_worker
    /\ job[s.job].state = "READY" /\ job[s.job].worker = NULL

\* The statements that write rows, other than a start.
RecoveryOf(w) ==
    \/ SendDispatch /\ w = task["scheduler"].worker /\ w \in broken
    \/ RecoverMarked /\ w = task["liveness"].worker
    \/ w \in Workers /\ RecoverExited(w)
Recovery == \E w : RecoveryOf(w) /\ job' = Recovered(w) /\ aux' = aux
Resulting(v) ==
    LET r == task[v]
        row == job[r.job] IN
    /\ r.op = "update"
    /\ row.state = r.snap.state
    /\ Write(v, IF r.target = "FAILED" THEN ReleasedRow(row, "FAILED")
                ELSE TransitionRow(row, r.snap, r.target), 0)
Commanding(u) ==
    LET c == task[u]
        row == TransitionRow(job[c.job], c.snap, c.target) IN
    /\ c.op = "update"
    /\ job[c.job].state = c.snap.state
    /\ Write(u, row, IF c.target = "READY" THEN 1 ELSE 0)

\* Neither is the history of the jobs.
Unrecorded == aux' = aux \/ \E v \in Workers : Stalls(v)

LEMMA RowSteps ==
    ASSUME [Next]_vars
    PROVE  \/ UNCHANGED job /\ Unrecorded
           \/ Recovery
           \/ Restart
           \/ \E v \in Workers : Resulting(v) /\ ResultUpdate(v)
           \/ \E u \in Users : Commanding(u)
           \/ Starting
<1>1. CASE UNCHANGED vars
  BY <1>1 DEF vars, Unrecorded
<1>2. CASE Scheduler
  <2>1. CASE list_ready \/ NoIdleWorker \/ PrepareFails
    BY <2>1 DEF list_ready, NoIdleWorker, PrepareFails, table, Unrecorded
  <2>2. CASE ClaimWorker
    BY <2>2 DEF ClaimWorker, table, Unrecorded
  <2>3. CASE start_on_worker
    BY <2>3 DEF start_on_worker, Starting, table, Unrecorded
  <2>4. CASE SendDispatch
    BY <2>4 DEF SendDispatch, Recovery, RecoveryOf, Unrecorded
  <2> QED
    BY <1>2, <2>1, <2>2, <2>3, <2>4 DEF Scheduler
<1>3. CASE Liveness \/ Control
  BY <1>3 DEF Liveness, LostScan, MarkLost, RecoverMarked, RemoveMarked, Control,
              ReceiveControl, DeliverControl, table, Recovery, RecoveryOf, Unrecorded
<1>4. ASSUME NEW u \in Users, Command(u) \/ CancelGet(u)
      PROVE  UNCHANGED <<job, aux>>
  BY <1>4 DEF Command, PauseJob, ResumeJob, CancelJob, CancelGet, UserTransition, table
<1>5. ASSUME NEW u \in Users, UserUpdate(u)
      PROVE  UNCHANGED <<job, aux>> \/ Commanding(u)
  BY <1>5 DEF UserUpdate, Commanding, table
<1>6. ASSUME NEW v \in Workers, OfWorker(v)
      PROVE  \/ UNCHANGED job /\ Unrecorded
             \/ Recovery
             \/ Resulting(v) /\ ResultUpdate(v)
  <2>1. CASE ResultUpdate(v)
    BY <2>1 DEF ResultUpdate, Resulting, table, Unrecorded
  <2>2. CASE RecoverExited(v)
    BY <2>2 DEF RecoverExited, Recovery, RecoveryOf
  <2>3. CASE register(v) \/ JobResult(v) \/ ResultGet(v) \/ ReaderEnds(v)
    BY <2>3 DEF register, JobResult, ResultGet, ReaderEnds, table, Unrecorded
  <2>4. CASE Process(v) \/ heartbeat(v) \/ WriterEnds(v) \/ DeadExpires(v) \/ WorkerExits(v)
    BY <2>4 DEF Process, HandleMessage, JobThread, JobThreadEnds, heartbeat, WriterEnds,
                DeadExpires, WorkerExits, Expire, table, Unrecorded
  <2>5. CASE Stalls(v)
    BY <2>5 DEF Stalls, Expire, Unrecorded
  <2> QED
    BY <1>6, <2>1, <2>2, <2>3, <2>4, <2>5 DEF OfWorker, Reader
<1> QED
  BY <1>1, <1>2, <1>3, <1>4, <1>5, <1>6, Steps DEF OfCore, Unrecorded

LEMMA History ==
    IInv => /\ aux = [aux EXCEPT !.stalls = @]
            /\ \A n : LET next == [aux EXCEPT !.stalls = n]
                      IN  /\ next.starts = aux.starts /\ next.forgotten = aux.forgotten
                          /\ next.given = aux.given /\ next.taken = aux.taken
                          /\ next.stalls = n
BY DEF IInv, Core, TableOK, Histories

LEMMA Unrecordeds ==
    ASSUME IInv, Unrecorded
    PROVE  /\ aux'.starts = aux.starts /\ aux'.forgotten = aux.forgotten
           /\ aux'.given = aux.given /\ aux'.taken = aux.taken
<1>1. aux \in Histories
  BY DEF IInv, Core, TableOK
<1>2. PICK n : aux' = [aux EXCEPT !.stalls = n]
  <2>1. CASE aux' = aux
    <3>1. aux' = [aux EXCEPT !.stalls = aux.stalls]
      BY <1>1, <2>1 DEF Histories
    <3> QED
      BY <3>1
  <2>2. ASSUME NEW v \in Workers, Stalls(v) PROVE aux' = [aux EXCEPT !.stalls = aux.stalls + 1]
    BY <2>2 DEF Stalls
  <2> QED
    BY <2>1, <2>2 DEF Unrecorded
<1> QED
  BY <1>1, <1>2 DEF Histories

\* A row that is taken from its worker.
LEMMA Releases ==
    \A row \in Rows :
      LET next == ReleasedRow(row, recovery_target(row))
      IN  next.attempt = row.attempt /\ next.worker = NULL /\ next.state \notin Active
<1> SUFFICES ASSUME NEW row \in Rows
             PROVE  LET next == ReleasedRow(row, recovery_target(row))
                    IN  /\ next.attempt = row.attempt /\ next.worker = NULL
                        /\ next.state \notin Active
  OBVIOUS
<1>1. PICK to : to = recovery_target(row)
  OBVIOUS
<1>2. to \in {"RECOVERABLE", "READY", "FAILED"}
  BY <1>1 DEF recovery_target
<1> QED
  BY <1>1, <1>2 DEF ReleasedRow, Rows, Active

LEMMA Rescues ==
    ASSUME TableOK, Recovery \/ Restart, NEW j \in Jobs
    PROVE  /\ aux' = aux
           /\ job'[j].attempt = job[j].attempt
           /\ \/ job'[j] = job[j]
              \/ job'[j].worker = NULL /\ job'[j].state \notin Active
<1>1. job'[j] \in {job[j], ReleasedRow(job[j], recovery_target(job[j]))} /\ aux' = aux
  BY DEF Recovery, Restart, Recovered, recover_interrupted
<1>2. job[j] \in Rows
  BY DEF TableOK
<1> QED
  BY <1>1, <1>2, Releases

\* A task has written next to job i.
WroteJob(t, i, next) ==
    /\ i \in Jobs /\ next \in Rows /\ i = task[t].job
    /\ job'[i] = next /\ \A j \in Jobs \ {i} : job'[j] = job[j]
    /\ aux'.starts = aux.starts /\ aux'.stalls = aux.stalls
    /\ aux.forgotten \subseteq aux'.forgotten
    /\ aux.given \subseteq aux'.given /\ aux.taken \subseteq aux'.taken
    /\ i \notin aux'.forgotten => next.attempt = job[i].attempt
    /\ job[i].state \in Active /\ job[i].worker \notin {next.worker, Believed(t)}
         => /\ <<job[i].worker, i>> \in aux'.taken
            /\ next.worker # NULL => i \in aux'.given

LEMMA WriteKeeps ==
    ASSUME TableOK, NEW t, NEW i \in Jobs, task[t].job = i, NEW next \in Rows, NEW n \in Nat,
           Wrote(t, next, n)
    PROVE  WroteJob(t, i, next)
<1>1. aux.resumes[i] + n \in Nat
  BY DEF TableOK, Histories
<1> QED
  BY <1>1, WriteMarks DEF Marked, WroteJob

\* The row a result writes.
LEMMA ResultRow ==
    ASSUME IInv, NEW v \in Workers, Resulting(v)
    PROVE  \E i \in Jobs, next \in Rows :
             /\ WroteJob(v, i, next)
             /\ next.state \notin Active /\ next.worker = NULL
<1>0. TableOK /\ TasksOK
  BY DEF IInv, Core
<1>1. PICK r, i, row, next :
        /\ r = task[v] /\ i = r.job /\ row = job[i]
        /\ next = IF r.target = "FAILED" THEN ReleasedRow(row, "FAILED")
                  ELSE TransitionRow(row, r.snap, r.target)
  OBVIOUS
<1>2. /\ i \in Jobs /\ r.snap \in Rows
      /\ r.target \in {"COMPLETED", "FAILED", "CANCELLED", "PAUSED"}
  BY <1>0, <1>1 DEF Resulting, TasksOK, ReaderOK
<1>3. row \in Rows
  BY <1>0, <1>1, <1>2 DEF TableOK
<1>4. next \in Rows /\ next.state \notin Active /\ next.worker = NULL
  <2>1. CASE r.target = "FAILED"
    BY <1>1, <1>3, <2>1 DEF ReleasedRow, Rows, JobStates, Active
  <2>2. CASE r.target # "FAILED"
    <3>1. releases_worker(r.target)
      BY <1>2 DEF releases_worker, Terminal
    <3>2. next = [row EXCEPT !.state = r.target, !.attempt = r.snap.attempt, !.worker = NULL]
      BY <1>1, <1>2, <2>2, <3>1 DEF TransitionRow
    <3>3. r.snap.attempt \in Nat
      BY <1>2 DEF Rows
    <3> QED
      BY <1>2, <1>3, <3>2, <3>3 DEF Rows, JobStates, Active
  <2> QED
    BY <2>1, <2>2
<1>5. Write(v, next, 0)
  BY <1>1 DEF Resulting
<1>6. Wrote(v, next, 0)
  BY <1>1, <1>2, <1>3, <1>5, WroteRows
<1>7. WroteJob(v, i, next)
  BY <1>0, <1>1, <1>2, <1>4, <1>6, WriteKeeps
<1> QED
  BY <1>2, <1>4, <1>7

\* The row a command writes.
LEMMA CommandRow ==
    ASSUME IInv, NEW u \in Users, Commanding(u)
    PROVE  \E i \in Jobs, next \in Rows :
             /\ WroteJob(u, i, next)
             /\ task[u].op = "update" /\ job[i].state = task[u].snap.state
             /\ task[u].target \in {"PAUSING", "READY", "CANCELLED"}
             /\ next.state = task[u].target
             /\ next.worker = IF task[u].target = "PAUSING" THEN task[u].snap.worker ELSE NULL
<1>0. TableOK /\ TasksOK
  BY DEF IInv, Core
<1>1. PICK c, i, row, next :
        /\ c = task[u] /\ i = c.job /\ row = job[i]
        /\ next = TransitionRow(row, c.snap, c.target)
  OBVIOUS
<1>2. i \in Jobs /\ c.snap \in Rows /\ c.target \in {"PAUSING", "READY", "CANCELLED"}
  BY <1>0, <1>1 DEF Commanding, TasksOK, UserOK
<1>3. row \in Rows
  BY <1>0, <1>1, <1>2 DEF TableOK
<1>4. /\ next \in Rows /\ next.state = c.target
      /\ next.worker = IF c.target = "PAUSING" THEN c.snap.worker ELSE NULL
  <2>1. PICK w : w = IF releases_worker(c.target) THEN NULL ELSE c.snap.worker
    OBVIOUS
  <2>2. w \in Workers \cup {NULL} /\ c.snap.attempt \in Nat
    BY <1>2, <2>1 DEF Rows
  <2>3. next = [row EXCEPT !.state = c.target, !.attempt = c.snap.attempt, !.worker = w]
    BY <1>1, <1>2, <2>1 DEF TransitionRow
  <2>4. w = IF c.target = "PAUSING" THEN c.snap.worker ELSE NULL
    BY <1>2, <2>1 DEF releases_worker, Terminal
  <2> QED
    BY <1>2, <1>3, <2>2, <2>3, <2>4 DEF Rows, JobStates
<1>5. PICK n \in Nat : n = IF c.target = "READY" THEN 1 ELSE 0
  OBVIOUS
<1>6. Write(u, next, n)
  BY <1>1, <1>5 DEF Commanding
<1>7. Wrote(u, next, n)
  BY <1>1, <1>2, <1>3, <1>6, WroteRows
<1>8. WroteJob(u, i, next)
  BY <1>0, <1>1, <1>2, <1>4, <1>7, WriteKeeps
<1> QED
  BY <1>1, <1>2, <1>4, <1>8 DEF Commanding

\* What the scheduler goes on to.
LEMMA SchedulerSteps ==
    ASSUME IInv, LifeOK, [Next]_vars
    PROVE  \/ task'["scheduler"] = task["scheduler"]
           \/ task'["scheduler"].op \notin {"start", "send"}
           \/ ClaimWorker
           \/ Starting
<1>0. TasksOK /\ "scheduler" \in Tasks
  BY DEF IInv, Core, Tasks
<1>1. CASE UNCHANGED vars
  BY <1>1 DEF vars
<1>2. CASE Restart
  <2>1. task'["scheduler"] = Idle
    BY <1>2, TasksAssumption DEF Restart, Tasks
  <2> QED
    BY <2>1 DEF Idle
<1>3. CASE \E v \in Workers : OfWorker(v)
  BY <1>0, <1>3, Elsewhere, TasksAssumption
<1>4. CASE Scheduler /\ ~ClaimWorker /\ ~Starting
  <2>1. \E q : Goto("scheduler", Scan(q)) \/ Goto("scheduler", Idle)
    <3>1. CASE list_ready \/ NoIdleWorker \/ PrepareFails
      BY <3>1 DEF list_ready, NoIdleWorker, PrepareFails
    <3>2. CASE start_on_worker
      BY <1>4, <3>2 DEF start_on_worker, Starting
    <3>3. CASE SendDispatch
      BY <3>3 DEF SendDispatch
    <3> QED
      BY <1>4, <3>1, <3>2, <3>3 DEF Scheduler
  <2>2. \E q : task'["scheduler"] \in {Scan(q), Idle}
    BY <1>0, <2>1, TaskMoves
  <2>3. \A q : Scan(q).op \notin {"start", "send"} /\ Idle.op \notin {"start", "send"}
    BY DEF Scan, Idle
  <2> QED
    BY <2>2, <2>3
<1>5. ASSUME NEW t \in Tasks \ {"scheduler"}, NEW r, Goto(t, r)
      PROVE  task'["scheduler"] = task["scheduler"]
  BY <1>0, <1>5, TaskMoves
<1>6. CASE Liveness \/ Control
  <2>1. \E t \in {"liveness", "control"} : \E r : Goto(t, r)
    BY <1>6 DEF Liveness, LostScan, MarkLost, RecoverMarked, RemoveMarked, Control,
                ReceiveControl, DeliverControl
  <2> QED
    BY <1>5, <2>1 DEF Tasks
<1>7. ASSUME NEW u \in Users, Command(u) \/ CancelGet(u) \/ UserUpdate(u)
      PROVE  task'["scheduler"] = task["scheduler"]
  <2>1. task' = task \/ \E r : Goto(u, r)
    BY <1>7 DEF Command, PauseJob, ResumeJob, CancelJob, UserTransition, CancelGet,
         UserUpdate
  <2> QED
    BY <1>5, <2>1, TasksAssumption DEF Tasks
<1> QED
  BY <1>1, <1>2, <1>3, <1>4, <1>6, <1>7, Steps DEF OfCore

LEMMA StartRow ==
    ASSUME IInv, Starting
    PROVE  \E s, sent :
             /\ s = task["scheduler"] /\ s.op = "start"
             /\ s.job \in Jobs /\ s.worker \in SpawnedBy(boots) /\ s.snap \in Rows
             /\ job[s.job].state = "READY"
             /\ job'[s.job].state = "RUNNING" /\ job'[s.job].worker = s.worker
             /\ job'[s.job].attempt = s.snap.attempt + 1
             /\ \A i \in Jobs \ {s.job} : job'[i] = job[i]
             /\ aux'.starts = [aux.starts EXCEPT ![s.job] = @ + 1]
             /\ aux'.forgotten = aux.forgotten /\ aux'.taken = aux.taken
             /\ aux'.given = aux.given \ {s.job} /\ aux'.stalls = aux.stalls
             /\ sent.op = "send" /\ sent.job = s.job /\ sent.worker = s.worker
             /\ task'["scheduler"] = sent
             /\ \A t \in Tasks \ {"scheduler"} : task'[t] = task[t]
             /\ UNCHANGED <<registry, map, pipes, workers, boots>>
<1>0. TableOK /\ TasksOK /\ "scheduler" \in Tasks
  BY DEF IInv, Core, Tasks
<1>1. PICK s, row, next, sent :
        /\ s = task["scheduler"] /\ row = job[s.job] /\ next = StartedRow(row, s.snap, s.worker)
        /\ sent = [op |-> "send", queue |-> s.queue, job |-> s.job, worker |-> s.worker]
  OBVIOUS
<1>2. /\ s.op = "start" /\ row.state = "READY" /\ Goto("scheduler", sent)
      /\ job' = [job EXCEPT ![s.job] = next]
      /\ aux' = [aux EXCEPT !.starts[s.job] = @ + 1, !.given = @ \ {s.job}]
      /\ UNCHANGED <<registry, map, pipes, workers, boots>>
  BY <1>1 DEF Starting, start_on_worker, map
<1>3. s.job \in Jobs /\ s.worker \in SpawnedBy(boots) /\ s.snap \in Rows
  BY <1>0, <1>1, <1>2 DEF TasksOK, SchedulerOK
<1>4. row \in Rows
  BY <1>0, <1>1, <1>3 DEF TableOK
<1>5. next.state = "RUNNING" /\ next.worker = s.worker /\ next.attempt = s.snap.attempt + 1
  BY <1>1, <1>4 DEF StartedRow, Rows
<1>6. job'[s.job] = next /\ \A i \in Jobs \ {s.job} : job'[i] = job[i]
  BY <1>0, <1>2, <1>3 DEF TableOK
<1>7. /\ aux'.starts = [aux.starts EXCEPT ![s.job] = @ + 1]
      /\ aux'.forgotten = aux.forgotten /\ aux'.taken = aux.taken
      /\ aux'.given = aux.given \ {s.job} /\ aux'.stalls = aux.stalls
  BY <1>0, <1>2 DEF TableOK, Histories
<1>8. task'["scheduler"] = sent /\ \A t \in Tasks \ {"scheduler"} : task'[t] = task[t]
  BY <1>0, <1>2, TaskMoves
<1>9. sent.op = "send" /\ sent.job = s.job /\ sent.worker = s.worker
  BY <1>1
<1>10. job[s.job].state = "READY" /\ job'[s.job].state = "RUNNING"
       /\ job'[s.job].worker = s.worker /\ job'[s.job].attempt = s.snap.attempt + 1
  BY <1>1, <1>2, <1>5, <1>6
<1> WITNESS s, sent
<1> QED
  BY <1>1, <1>2, <1>3, <1>6, <1>7, <1>8, <1>9, <1>10

LEMMA ClaimRow ==
    ASSUME IInv, ClaimWorker, task'["scheduler"].op \in {"start", "send"}
    PROVE  \E w \in handles \ busy, j \in Jobs :
             /\ task'["scheduler"].op = "start"
             /\ task'["scheduler"].worker = w /\ task'["scheduler"].job = j
             /\ task'["scheduler"].snap = job[j]
             /\ busy' = busy \cup {w}
             /\ task["scheduler"].op = "scan"
             /\ \A t \in Tasks \ {"scheduler"} : task'[t] = task[t]
             /\ UNCHANGED <<job, aux, registry, handles, pipes, workers, boots>>
<1>0. TasksOK /\ "scheduler" \in Tasks
  BY DEF IInv, Core, Tasks
<1>1. PICK w \in handles \ busy, j \in Jobs \ BadInput :
        \/ /\ Claim(w)
           /\ Goto("scheduler", [op |-> "start", queue |-> task["scheduler"].queue \ {j},
                                 job |-> j, worker |-> w, snap |-> job[j]])
        \/ Goto("scheduler", Scan(task["scheduler"].queue \ {j}))
  BY DEF ClaimWorker
<1>2. PICK s, q : /\ s = [op |-> "start", queue |-> task["scheduler"].queue \ {j},
                          job |-> j, worker |-> w, snap |-> job[j]]
                  /\ q = task["scheduler"].queue \ {j}
  OBVIOUS
<1>3. Scan(q).op \notin {"start", "send"}
  BY DEF Scan, Idle
<1>4. ~Goto("scheduler", Scan(q))
  BY <1>0, <1>3, TaskMoves
<1>5. Claim(w) /\ Goto("scheduler", s)
  BY <1>1, <1>2, <1>4
<1>6. task'["scheduler"] = s /\ \A t \in Tasks \ {"scheduler"} : task'[t] = task[t]
  BY <1>0, <1>5, TaskMoves
<1>7. s.op = "start" /\ s.worker = w /\ s.job = j /\ s.snap = job[j]
  BY <1>2
<1>8. UNCHANGED <<job, aux, registry, handles, pipes, workers, boots>>
      /\ task["scheduler"].op = "scan"
  BY DEF ClaimWorker, table
<1> QED
  BY <1>5, <1>6, <1>7, <1>8 DEF Claim
-----------------------------------------------------------------------------
(* Attempts *)

\* Nothing but a start counts an attempt, and the row a start has read is still the
\* row it writes, as to attempts.
CountsOK ==
    LET s == task["scheduler"] IN
    /\ \A j \in Jobs \ aux.forgotten : job[j].attempt = aux.starts[j]
    /\ s.op = "start" /\ s.job \notin aux.forgotten => job[s.job].attempt = s.snap.attempt

LEMMA CountsInit == Init => CountsOK
<1> SUFFICES ASSUME Init PROVE CountsOK
  OBVIOUS
<1>1. ASSUME NEW j \in Jobs PROVE job[j].attempt = 0
  <2>1. PICK b : b = (j \in Idempotent)
    OBVIOUS
  <2>2. job[j] = [NewRow(MaxAttempts[j], b) EXCEPT !.state = "READY"]
    BY <2>1 DEF Init
  <2> QED
    BY <2>2 DEF NewRow, NoRow
<1>2. task["scheduler"] = Idle
  BY TasksAssumption DEF Init, Tasks
<1>3. \A j \in Jobs : aux.starts[j] = 0
  BY DEF Init
<1> QED
  BY <1>1, <1>2, <1>3 DEF CountsOK, Idle

LEMMA CountsNext ==
    ASSUME IInv, LifeOK, CountsOK, [Next]_vars
    PROVE  CountsOK'
<1>0. TableOK /\ TasksOK /\ aux.starts \in [Jobs -> Nat]
  BY DEF IInv, Core, TableOK, Histories
<1>1. CASE Starting
  <2>1. PICK s, sent :
             /\ s = task["scheduler"] /\ s.op = "start"
             /\ s.job \in Jobs
             /\ job'[s.job].attempt = s.snap.attempt + 1
             /\ \A i \in Jobs \ {s.job} : job'[i] = job[i]
             /\ aux'.starts = [aux.starts EXCEPT ![s.job] = @ + 1]
             /\ aux'.forgotten = aux.forgotten
             /\ sent.op = "send" /\ task'["scheduler"] = sent
    BY <1>1, StartRow
  <2>2. \A j \in Jobs \ aux'.forgotten : job'[j].attempt = aux'.starts[j]
    BY <1>0, <2>1 DEF CountsOK
  <2> QED
    BY <2>1, <2>2 DEF CountsOK
<1>2. CASE ~Starting
  <2>1. /\ aux.forgotten \subseteq aux'.forgotten /\ aux'.starts = aux.starts
        /\ \A j \in Jobs \ aux'.forgotten : job'[j].attempt = job[j].attempt
    <3>1. CASE Recovery \/ Restart
      BY <1>0, <3>1, Rescues DEF Recovery, Restart
    <3>2. ASSUME NEW v \in Workers, Resulting(v)
          PROVE  /\ aux.forgotten \subseteq aux'.forgotten /\ aux'.starts = aux.starts
                 /\ \A j \in Jobs \ aux'.forgotten : job'[j].attempt = job[j].attempt
      <4>1. PICK i \in Jobs, next \in Rows : WroteJob(v, i, next)
        BY <3>2, ResultRow
      <4> QED
        BY <4>1 DEF WroteJob
    <3>3. ASSUME NEW u \in Users, Commanding(u)
          PROVE  /\ aux.forgotten \subseteq aux'.forgotten /\ aux'.starts = aux.starts
                 /\ \A j \in Jobs \ aux'.forgotten : job'[j].attempt = job[j].attempt
      BY <3>3, CommandRow DEF WroteJob
    <3> QED
      BY <1>2, <3>1, <3>2, <3>3, RowSteps, Unrecordeds
  <2>2. \A j \in Jobs \ aux'.forgotten : job'[j].attempt = aux'.starts[j]
    BY <2>1 DEF CountsOK
  <2>3. ASSUME task'["scheduler"].op = "start", task'["scheduler"].job \notin aux'.forgotten
        PROVE  job'[task'["scheduler"].job].attempt = task'["scheduler"].snap.attempt
    <3>1. CASE task'["scheduler"] = task["scheduler"]
      <4>1. task["scheduler"].op = "start"
        BY <2>3, <3>1
      <4>2. task["scheduler"].job \in Jobs
        BY <1>0, <4>1 DEF TasksOK, SchedulerOK
      <4> QED
        BY <2>1, <2>3, <3>1, <4>1, <4>2 DEF CountsOK
    <3>2. CASE ClaimWorker
      BY <2>1, <2>3, <3>2, ClaimRow
    <3> QED
      BY <1>2, <2>3, <3>1, <3>2, SchedulerSteps
  <2> QED
    BY <2>2, <2>3 DEF CountsOK
<1> QED
  BY <1>1, <1>2

-----------------------------------------------------------------------------
(* Who executes what *)

\* The jobs that w owns, and those of them that no command has given to it.
Owned(w) == {j \in Jobs : Owns(w, j)}
Held(w) == {j \in Jobs \ aux.given : Owns(w, j)}

\* The job the scheduler has started on the worker it has claimed.
Sending == IF task["scheduler"].op = "send" THEN {task["scheduler"].job} ELSE {}

\* A worker has one job, whether in the table or on its way; it is idle, claimed or
\* not yet registered only without one.
Fit(w) ==
    /\ OneItem(w)
    /\ \A i \in Work(w) \cup Held(w), j \in Held(w) : i = j
    /\ w \in Claimed => /\ Work(w) = {} /\ Held(w) \subseteq Sending
                        /\ w \in handles => w \in busy
    /\ w \in handles \ busy => Work(w) = {} /\ Held(w) = {}
    /\ Registering(w) => /\ w \notin handles /\ w \notin Claimed
                         /\ Work(w) = {} /\ Held(w) = {}

\* A job that is being executed names a worker there is.
Assigned(j) ==
    job[j].state \in Active => /\ job[j].worker \in Workers
                               /\ Generation[job[j].worker] <= boots

\* A command that pauses a job has read that a worker of this start executes it, and
\* one that resumes it that none does. A cancellation may have read either.
UserKnows(c, boot) ==
    c.op = "update" =>
      /\ c.target = "PAUSING" => c.snap.state = "RUNNING" /\ c.snap.worker \in SpawnedBy(boot)
      /\ c.target = "READY" => c.snap.state \notin Active

Owners ==
    /\ \A j \in Jobs : Assigned(j)
    /\ \A u \in Users : UserKnows(task[u], boots)
    /\ \A w \in Workers : Fit(w)

\* No job is given to a worker, but for those the history says are.
Calm == \A j \in Jobs \ aux'.given :
          job'[j].state \in Active =>
            j \notin aux.given /\ job[j].state \in Active /\ job'[j].worker = job[j].worker

\* A command leaves a job with the worker it has, or the history says otherwise.
LEMMA CommandKeeps ==
    ASSUME IInv, Owners, NEW u \in Users, Commanding(u), NEW j \in Jobs
    PROVE  /\ aux.given \subseteq aux'.given /\ aux.taken \subseteq aux'.taken
           /\ job'[j].state \in Active =>
                \/ job'[j] = job[j]
                \/ job[j].state \in Active /\ job'[j].worker \in SpawnedBy(boots)
           /\ job'[j].state \in Active /\ j \notin aux'.given =>
                job[j].state \in Active /\ job'[j].worker = job[j].worker
           /\ job[j].state \in Active /\ <<job[j].worker, j>> \notin aux'.taken =>
                job'[j].state \in Active /\ job'[j].worker = job[j].worker
<1>1. PICK i \in Jobs, next \in Rows :
        /\ WroteJob(u, i, next)
        /\ task[u].op = "update" /\ job[i].state = task[u].snap.state
        /\ task[u].target \in {"PAUSING", "READY", "CANCELLED"}
        /\ next.state = task[u].target
        /\ next.worker = IF task[u].target = "PAUSING" THEN task[u].snap.worker ELSE NULL
  BY CommandRow
<1>2. /\ job'[i] = next /\ \A k \in Jobs \ {i} : job'[k] = job[k]
      /\ aux.given \subseteq aux'.given /\ aux.taken \subseteq aux'.taken
      /\ job[i].state \in Active /\ job[i].worker \notin {next.worker, Believed(u)}
           => /\ <<job[i].worker, i>> \in aux'.taken
              /\ next.worker # NULL => i \in aux'.given
  BY <1>1 DEF WroteJob
<1>3. CASE j # i
  BY <1>2, <1>3
<1>4. CASE j = i
  <2>1. /\ UserKnows(task[u], boots) /\ u \notin Workers
        /\ job[i].state \in Active => job[i].worker # NULL
        /\ \A w \in SpawnedBy(boots) : w # NULL
    BY TasksAssumption, NullAssumption DEF Owners, Assigned, SpawnedBy
  <2>2. CASE task[u].target = "PAUSING"
    <3>1. /\ next.state \in Active /\ job[i].state \in Active /\ next.worker # NULL
          /\ next.worker \in SpawnedBy(boots) /\ Believed(u) = next.worker
      BY <1>1, <2>1, <2>2 DEF UserKnows, Active, Believed
    <3> QED
      BY <1>2, <1>4, <3>1
  <2>3. CASE task[u].target = "READY"
    <3>1. next.state \notin Active /\ job[i].state \notin Active
      BY <1>1, <2>1, <2>3 DEF UserKnows, Active
    <3> QED
      BY <1>2, <1>4, <3>1
  <2>4. CASE task[u].target = "CANCELLED"
    <3>1. next.state \notin Active /\ next.worker = NULL /\ Believed(u) = NULL
      BY <1>1, <2>1, <2>4 DEF Active, Believed
    <3> QED
      BY <1>2, <1>4, <2>1, <3>1
  <2> QED
    BY <1>1, <2>2, <2>3, <2>4
<1> QED
  BY <1>3, <1>4

LEMMA CalmSteps ==
    ASSUME IInv, Owners, [Next]_vars, ~Starting
    PROVE  Calm
<1>0. TableOK
  BY DEF IInv, Core
<1>1. CASE Recovery \/ Restart
  BY <1>0, <1>1, Rescues DEF Calm
<1>2. ASSUME NEW v \in Workers, Resulting(v) PROVE Calm
  <2>1. PICK i \in Jobs, next \in Rows : WroteJob(v, i, next) /\ next.state \notin Active
    BY <1>2, ResultRow
  <2> QED
    BY <2>1 DEF WroteJob, Calm
<1>3. ASSUME NEW u \in Users, Commanding(u) PROVE Calm
  BY <1>3, CommandKeeps DEF Calm
<1>4. CASE UNCHANGED job /\ Unrecorded
  BY <1>4, Unrecordeds DEF Calm
<1> QED
  BY <1>1, <1>2, <1>3, <1>4, RowSteps

LEMMA CalmHeld == \A w : Calm => Held(w)' \subseteq Held(w)
BY DEF Calm, Held, Owns

\* What keeps a worker fit: it gets no job, and is not declared idle while it has one.
LEMMA FitShrinks ==
    ASSUME NEW w, Fit(w), Advances(w), Held(w)' \subseteq Held(w),
           (w \in Claimed)' => task'["scheduler"] = task["scheduler"],
           w \in handles' => w \in handles,
           w \in handles' /\ w \in busy =>
             w \in busy' \/ (w \notin Claimed /\ Work(w)' = {} /\ Held(w)' = {})
    PROVE  Fit(w)'
<1>1. (w \in Claimed)' => w \in Claimed /\ Sending' = Sending
  BY DEF Claimed, Sending
<1>2. \A i \in Work(w)' \cup Held(w)', j \in Held(w)' : i = j
  BY DEF Fit, Advances
<1>3. ASSUME (w \in Claimed)'
      PROVE  /\ Work(w)' = {} /\ Held(w)' \subseteq Sending'
             /\ w \in handles' => w \in busy'
  BY <1>1, <1>3 DEF Fit, Advances
<1>4. ASSUME w \in handles' \ busy'
      PROVE  Work(w)' = {} /\ Held(w)' = {}
  BY <1>4 DEF Fit, Advances
<1>5. ASSUME Registering(w)'
      PROVE  /\ w \notin handles' /\ ~(w \in Claimed)'
             /\ Work(w)' = {} /\ Held(w)' = {}
  BY <1>1, <1>5 DEF Fit, Advances
<1>6. OneItem(w)'
  BY DEF Advances
<1> QED
  BY <1>2, <1>3, <1>4, <1>5, <1>6 DEF Fit

\* A worker whose job is on its way back is not the one the scheduler has claimed,
\* and owns no other job.
LEMMA OnlyItem ==
    ASSUME NEW w, Fit(w), NEW j \in Late(w)
    PROVE  w \notin Claimed /\ Held(w) \subseteq {j}
BY DEF Fit, Work

LEMMA RegisterFit ==
    ASSUME IInv, NEW w \in Workers, Fit(w), register(w), Held(w)' \subseteq Held(w),
           task'["scheduler"] = task["scheduler"]
    PROVE  Fit(w)'
<1>1. Advances(w) /\ Registering(w) /\ ~Registering(w)'
  BY RegisterAdvances DEF Fit
<1>2. Work(w)' = {} /\ Held(w)' = {} /\ w \notin Claimed
  BY <1>1 DEF Fit, Advances
<1>3. ~(w \in Claimed)'
  BY <1>2 DEF Claimed
<1> QED
  BY <1>1, <1>2, <1>3 DEF Fit, Advances

LEMMA ResultFit ==
    ASSUME IInv, NEW w \in Workers, Fit(w), JobResult(w), Held(w)' \subseteq Held(w),
           task'["scheduler"] = task["scheduler"]
    PROVE  Fit(w)'
<1>1. PICK j : j = Head(outbox[w]).job
  OBVIOUS
<1>2. Advances(w) /\ j \in Late(w) /\ (task' = task => Work(w)' = {})
  BY <1>1, ResultAdvances DEF Fit
<1>3. /\ handles' = handles
      /\ busy' = busy \/ (job[j].worker # w /\ task' = task /\ busy' \in {busy, busy \ {w}})
  BY <1>1 DEF JobResult, release_worker
<1>4. CASE busy' = busy
  BY <1>2, <1>3, <1>4, FitShrinks
<1>5. CASE job[j].worker # w /\ task' = task
  <2>1. Held(w)' = {} /\ w \notin Claimed
    BY <1>2, <1>5, OnlyItem DEF Held, Owns
  <2> QED
    BY <1>2, <1>3, <1>5, <2>1, FitShrinks
<1> QED
  BY <1>3, <1>4, <1>5

LEMMA GetFit ==
    ASSUME IInv, NEW w \in Workers, Fit(w), ResultGet(w), Held(w)' \subseteq Held(w),
           task'["scheduler"] = task["scheduler"]
    PROVE  Fit(w)'
<1>1. PICK j, target : j = task[w].job /\ target = TargetOf(task[w].outcome)
  OBVIOUS
<1>2. Advances(w) /\ j \in Late(w) /\ (Goto(w, Idle) => Work(w)' = {})
  BY <1>1, HandledAdvances DEF Fit
<1>3. /\ handles' = handles
      /\ busy' = busy \/ (job[j].state = target /\ Goto(w, Idle))
  BY <1>1 DEF ResultGet
<1>4. CASE busy' = busy
  BY <1>2, <1>3, <1>4, FitShrinks
<1>5. CASE job[j].state = target /\ Goto(w, Idle)
  <2>1. task[w].outcome \in Results
    BY DEF ResultGet, IInv, Core, TasksOK, ReaderOK
  <2>2. target \notin Active
    BY <1>1, <2>1 DEF TargetOf, Results, Active
  <2>3. Held(w)' = {} /\ w \notin Claimed
    BY <1>2, <1>5, <2>2, OnlyItem DEF Held, Owns
  <2> QED
    BY <1>2, <1>3, <1>5, <2>3, FitShrinks
<1> QED
  BY <1>3, <1>4, <1>5

LEMMA UpdateFit ==
    ASSUME IInv, NEW w \in Workers, Fit(w), ResultUpdate(w), Held(w)' \subseteq Held(w),
           task'["scheduler"] = task["scheduler"]
    PROVE  Fit(w)'
<1>1. PICK j : j = task[w].job
  OBVIOUS
<1>2. Advances(w) /\ j \in Late(w) /\ Work(w)' = {}
  BY <1>1, HandledAdvances DEF Fit, ResultUpdate
<1>3. /\ handles' = handles
      /\ busy' = busy \/ Resulting(w)
  BY DEF ResultUpdate, Resulting
<1>4. CASE busy' = busy
  BY <1>2, <1>3, <1>4, FitShrinks
<1>5. CASE Resulting(w)
  <2>1. PICK i \in Jobs, next \in Rows :
          WroteJob(w, i, next) /\ next.state \notin Active
    BY <1>5, ResultRow
  <2>2. job'[j].state \notin Active
    BY <1>1, <2>1 DEF WroteJob
  <2>3. Held(w)' = {} /\ w \notin Claimed
    BY <1>2, <2>2, OnlyItem DEF Held, Owns
  <2> QED
    BY <1>2, <1>3, <2>3, FitShrinks
<1> QED
  BY <1>3, <1>4, <1>5

LEMMA WorkerFit ==
    ASSUME IInv, LifeOK, Owners, [Next]_vars, ~Starting,
           NEW v \in Workers, OfWorker(v), NEW w \in Workers
    PROVE  Fit(w)'
<1>1. /\ Fit(w) /\ Advances(w) /\ Held(w)' \subseteq Held(w)
      /\ task'["scheduler"] = task["scheduler"]
  <2>1. Fit(w) /\ OneItem(w)
    BY DEF Owners, Fit
  <2>2. "scheduler" \in Tasks \ {v}
    BY TasksAssumption DEF Tasks
  <2> QED
    BY <2>1, <2>2, WorkerAdvances, Elsewhere, CalmSteps, CalmHeld
<1>2. CASE v # w
  BY <1>1, <1>2, Elsewhere, FitShrinks DEF Same
<1>3. CASE /\ v = w
           /\ \/ ReaderEnds(w) \/ RecoverExited(w) \/ Process(w) \/ heartbeat(w)
              \/ WriterEnds(w) \/ DeadExpires(w) \/ WorkerExits(w) \/ Stalls(w)
  <2>1. busy' = busy /\ handles' \subseteq handles
    BY <1>3 DEF ReaderEnds, RecoverExited, Process, HandleMessage, JobThread, JobThreadEnds,
                heartbeat, WriterEnds, DeadExpires, WorkerExits, Stalls, Expire, map
  <2> QED
    BY <1>1, <2>1, FitShrinks
<1> QED
  BY <1>1, <1>2, <1>3, RegisterFit, ResultFit, GetFit, UpdateFit DEF OfWorker, Reader

\* The statements of the loops and the commands.
LEMMA ClaimFit ==
    ASSUME IInv, NEW w \in Workers, Fit(w), ClaimWorker, Advances(w),
           Held(w)' \subseteq Held(w)
    PROVE  Fit(w)'
<1>1. CASE task'["scheduler"].op \notin {"start", "send"}
  <2>1. handles' = handles /\ (busy' = busy \/ \E x : Claim(x))
    BY DEF ClaimWorker
  <2>2. w \in busy => w \in busy'
    BY <2>1 DEF Claim
  <2>3. ~(w \in Claimed)'
    BY <1>1 DEF Claimed
  <2> QED
    BY <2>1, <2>2, <2>3, FitShrinks
<1>2. CASE task'["scheduler"].op \in {"start", "send"}
  <2>1. PICK x \in handles \ busy :
          /\ task'["scheduler"].op = "start" /\ task'["scheduler"].worker = x
          /\ busy' = busy \cup {x} /\ handles' = handles
    BY <1>2, ClaimRow
  <2>2. (w \in Claimed)' <=> w = x
    BY <2>1 DEF Claimed
  <2>3. CASE w # x
    BY <2>1, <2>2, <2>3, FitShrinks
  <2>4. CASE w = x
    <3>1. Work(w)' = {} /\ Held(w)' = {} /\ w \in busy' /\ w \in handles' /\ ~Registering(w)
      BY <2>1, <2>4 DEF Fit, Advances
    <3> QED
      BY <3>1 DEF Fit, Advances
  <2> QED
    BY <2>3, <2>4
<1> QED
  BY <1>1, <1>2

LEMMA UnclaimFit ==
    ASSUME IInv, NEW w \in Workers, Fit(w), start_on_worker, ~Starting,
           Advances(w), Held(w)' \subseteq Held(w)
    PROVE  Fit(w)'
<1>1. PICK s, q : s = task["scheduler"] /\ q = s.queue
  OBVIOUS
<1>2. /\ s.op = "start" /\ busy' = busy \ {s.worker} /\ handles' = handles
      /\ Goto("scheduler", Scan(q))
  BY <1>1 DEF start_on_worker, Starting, Unclaim
<1>3. ~(w \in Claimed)'
  <2>1. task'["scheduler"] = Scan(q)
    BY <1>2, TaskMoves DEF IInv, Core, Tasks
  <2> QED
    BY <2>1 DEF Scan, Idle, Claimed
<1>4. CASE w # s.worker
  BY <1>2, <1>3, <1>4, FitShrinks
<1>5. CASE w = s.worker
  <2>1. w \in Claimed /\ Sending = {}
    BY <1>1, <1>2, <1>5 DEF Claimed, Sending
  <2>2. Work(w)' = {} /\ Held(w)' = {}
    BY <2>1 DEF Fit, Advances
  <2>3. ~Registering(w)'
    BY <2>1 DEF Fit, Advances
  <2> QED
    BY <1>3, <2>2, <2>3 DEF Fit, Advances
<1> QED
  BY <1>4, <1>5

LEMMA SendFit ==
    ASSUME IInv, NEW w \in Workers, Fit(w), SendDispatch, Held(w)' \subseteq Held(w)
    PROVE  Fit(w)'
<1>1. PICK s, q : s = task["scheduler"] /\ q = s.queue
  OBVIOUS
<1>2. /\ s.op = "send" /\ Goto("scheduler", Scan(q))
      /\ UNCHANGED <<outbox, running, process>>
  BY <1>1 DEF SendDispatch, workers
<1>0. "scheduler" \in Tasks /\ w \in Tasks \ {"scheduler"}
  BY TasksAssumption DEF Tasks
<1>3. ~(w \in Claimed)' /\ task'[w] = task[w]
  <2>1. task'["scheduler"] = Scan(q) /\ task'[w] = task[w]
    BY <1>0, <1>2, TaskMoves DEF IInv, Core
  <2> QED
    BY <2>1 DEF Scan, Idle, Claimed
<1>4. s.job \in Jobs
  BY <1>1, <1>2 DEF IInv, Core, TasksOK, SchedulerOK
<1>5. CASE w # s.worker
  <2>1. inbox'[w] = inbox[w]
    BY <1>1, <1>5 DEF SendDispatch, To, IInv, Pipes, InboxOK
  <2>2. Advances(w)
    BY <1>2, <1>3, <2>1, SameAdvances DEF Fit
  <2>3. handles' \subseteq handles /\ (w \in busy => w \in busy')
    BY <1>1, <1>5 DEF SendDispatch, Unclaim, map
  <2> QED
    BY <1>3, <2>2, <2>3, FitShrinks
<1>6. CASE w = s.worker
  <2>1. w \in Claimed /\ Sending = {s.job}
    BY <1>1, <1>2, <1>6 DEF Claimed, Sending
  <2>2. /\ Work(w) = {} /\ Held(w)' \subseteq {s.job} /\ ~Registering(w) /\ OneItem(w)
        /\ w \in handles => w \in busy
    BY <2>1 DEF Fit
  <2>3. CASE w \in broken
    <3>1. inbox' = inbox /\ w \notin handles'
      BY <1>1, <1>6, <2>3 DEF SendDispatch
    <3>2. Advances(w)
      BY <1>2, <1>3, <2>2, <3>1, SameAdvances
    <3> QED
      BY <1>3, <2>2, <3>1, <3>2 DEF Fit, Advances
  <2>4. CASE w \notin broken
    <3>1. To(w, Dispatch(s.job)) /\ handles' = handles /\ busy' = busy
      BY <1>1, <1>6, <2>4 DEF SendDispatch, map
    <3>2. OneItem(w)' /\ Work(w)' = {s.job} /\ Registering(w)' = Registering(w)
      BY <1>2, <1>3, <1>4, <2>2, <3>1, SendAdvances
    <3> QED
      BY <1>3, <2>2, <3>1, <3>2 DEF Fit
  <2> QED
    BY <2>3, <2>4
<1> QED
  BY <1>5, <1>6

\* The other statements free no worker and give it no job.
LEMMA LoopFit ==
    ASSUME IInv, LifeOK, NEW w \in Workers, Fit(w), OfCore, [Next]_vars, ~Starting,
           Held(w)' \subseteq Held(w)
    PROVE  Fit(w)'
<1>0. TasksOK /\ "scheduler" \in Tasks /\ OneItem(w)
  BY DEF IInv, Core, Tasks, Fit
<1>1. CASE SendDispatch
  BY <1>1, SendFit
<1>2. CASE ~SendDispatch
  <2>1. Advances(w)
    BY <1>0, <1>2, LoopAdvances
  <2>2. CASE ClaimWorker
    BY <2>1, <2>2, ClaimFit
  <2>3. CASE start_on_worker
    BY <2>1, <2>3, UnclaimFit
  <2>4. CASE ~ClaimWorker /\ ~start_on_worker
    <3>1. busy' = busy /\ handles' \subseteq handles
      BY <1>2, <2>4 DEF OfCore, Scheduler, list_ready, NoIdleWorker, PrepareFails,
         Liveness, LostScan, MarkLost, RecoverMarked, RemoveMarked, Control, ReceiveControl,
         DeliverControl, Command, PauseJob, ResumeJob, CancelJob, Issue, CancelGet,
         UserUpdate, map
    <3>2. (w \in Claimed)' => task'["scheduler"] = task["scheduler"]
      <4>1. \/ task'["scheduler"] = task["scheduler"]
            \/ task'["scheduler"].op \notin {"start", "send"}
        BY <2>4, SchedulerSteps
      <4> QED
        BY <4>1 DEF Claimed
    <3> QED
      BY <2>1, <3>1, <3>2, FitShrinks
  <2> QED
    BY <2>2, <2>3, <2>4
<1> QED
  BY <1>1, <1>2

\* A process that has just been spawned.
Fresh(w) == /\ inbox[w] = <<>> /\ running[w] = {} /\ outbox[w] \in {<<>>, <<Register>>}
            /\ task[w] \in {Idle, Closed}

FreshHasNone ==
    \A w : Fresh(w) => OneItem(w) /\ Work(w) = {} /\ (outbox[w] = <<>> => ~Registering(w))

LEMMA Spawned == FreshHasNone
<1> SUFFICES ASSUME NEW w, Fresh(w)
             PROVE  OneItem(w) /\ Work(w) = {} /\ (outbox[w] = <<>> => ~Registering(w))
  BY DEF FreshHasNone
<1>1. Register.type = "REGISTER"
  BY DEF Register
<1>2. /\ At(<<Register>>, "JOB_RESULT") = {} /\ At(<<Register>>, "REGISTER") = {1}
  BY <1>1 DEF At
<1>3. /\ Sole(<<Register>>, "JOB_RESULT") /\ Sole(<<Register>>, "REGISTER")
      /\ JobsIn(<<Register>>, "JOB_RESULT") = {}
  BY <1>2 DEF Sole, JobsIn
<1>4. /\ Sole(outbox[w], "JOB_RESULT") /\ Sole(outbox[w], "REGISTER") /\ Reported(w) = {}
      /\ outbox[w] = <<>> => ~Registering(w)
  BY <1>3, EmptyHolds DEF Fresh, Reported, Registering
<1>5. Dispatched(w) = {} /\ Undone(w) = {} /\ Sole(inbox[w], "JOB_DISPATCH")
  BY EmptyHolds DEF Fresh, Dispatched, Undone
<1>6. Executed(w) = {} /\ Handled(w) = {}
  BY <1>5 DEF Fresh, Executed, Handled, Idle, Closed
<1> QED
  BY <1>4, <1>5, <1>6 DEF OneItem, Work, Early, Late

LEMMA RestartFit ==
    ASSUME IInv, LifeOK, Owners, NEW w \in Workers, Restart, Held(w)' \subseteq Held(w)
    PROVE  Fit(w)'
<1>1. /\ inbox'[w] = <<>> /\ running'[w] = {}
      /\ outbox'[w] = IF w \in SpawnedBy(boots + 1) THEN <<Register>> ELSE <<>>
      /\ handles' = {}
  BY DEF Restart
<1>2. task'[w] \in {Idle, Closed}
  BY DEF Restart, Tasks
<1>3. OneItem(w)' /\ Work(w)' = {} /\ (outbox'[w] = <<>> => ~Registering(w)')
  <2>1. Fresh(w)'
    BY <1>1, <1>2 DEF Fresh
  <2>2. FreshHasNone'
    BY Spawned, PTL
  <2> QED
    BY <2>1, <2>2 DEF FreshHasNone
<1>4. ~(w \in Claimed)'
  <2>1. task'["scheduler"] = Idle
    BY TasksAssumption DEF Restart, Tasks
  <2> QED
    BY <2>1 DEF Claimed, Idle
<1>5. w \in SpawnedBy(boots + 1) => Held(w)' = {}
  <2>1. ASSUME w \in SpawnedBy(boots + 1), NEW j \in Held(w)
        PROVE  FALSE
    <3>1. Generation[w] <= boots /\ boots \in Nat
      BY DEF Held, Owns, Owners, Assigned, LifeOK
    <3>2. Generation[w] = boots + 1
      BY <2>1 DEF SpawnedBy
    <3> QED
      BY <3>1, <3>2
  <2> QED
    BY <2>1
<1>6. \A i, j \in Held(w)' : i = j
  BY DEF Owners, Fit
<1> QED
  BY <1>1, <1>3, <1>4, <1>5, <1>6 DEF Fit

LEMMA StartFit ==
    ASSUME IInv, LifeOK, Owners, Starting, NEW w \in Workers
    PROVE  Fit(w)'
<1>1. PICK s, sent :
             /\ s = task["scheduler"] /\ s.op = "start"
             /\ s.job \in Jobs /\ s.worker \in SpawnedBy(boots)
             /\ job'[s.job].state = "RUNNING" /\ job'[s.job].worker = s.worker
             /\ job[s.job].state = "READY" /\ aux'.given = aux.given \ {s.job}
             /\ \A i \in Jobs \ {s.job} : job'[i] = job[i]
             /\ sent.op = "send" /\ sent.job = s.job /\ sent.worker = s.worker
             /\ task'["scheduler"] = sent
             /\ UNCHANGED <<map, pipes, workers, boots>>
  BY StartRow
<1>2. OfCore /\ ~SendDispatch
  <2>1. s.op # "send"
    BY <1>1
  <2> QED
    BY <1>1, <2>1 DEF OfCore, Scheduler, Starting, SendDispatch
<1>3. Fit(w) /\ OneItem(w)
  BY DEF Owners, Fit
<1>4. Advances(w)
  BY <1>2, <1>3, LoopAdvances
<1>5. Claimed = {s.worker} /\ Sending = {} /\ Claimed' = {s.worker} /\ Sending' = {s.job}
  BY <1>1 DEF Claimed, Sending
<1>6. handles' = handles /\ busy' = busy
  BY <1>1 DEF map
<1>7. ASSUME w # s.worker PROVE Fit(w)'
  <2>1. Held(w)' \subseteq Held(w)
    BY <1>1, <1>7 DEF Held, Owns
  <2> QED
    BY <1>3, <1>4, <1>5, <1>6, <1>7, <2>1, FitShrinks
<1>8. ASSUME w = s.worker PROVE Fit(w)'
  <2>1. /\ Work(w) = {} /\ Held(w) = {} /\ ~Registering(w)
        /\ w \in handles => w \in busy
    BY <1>3, <1>5, <1>8 DEF Fit
  <2>2. Work(w)' = {} /\ ~Registering(w)' /\ OneItem(w)'
    BY <1>4, <2>1 DEF Advances
  <2>3. Held(w)' \subseteq {s.job}
    BY <1>1, <2>1 DEF Held, Owns
  <2> QED
    BY <1>5, <1>6, <1>8, <2>1, <2>2, <2>3 DEF Fit
<1> QED
  BY <1>7, <1>8

LEMMA StartAssigned ==
    ASSUME IInv, LifeOK, Owners, Starting, NEW j \in Jobs
    PROVE  Assigned(j)'
<1>1. PICK s :
             /\ s.job \in Jobs /\ s.worker \in SpawnedBy(boots)
             /\ job'[s.job].worker = s.worker
             /\ \A i \in Jobs \ {s.job} : job'[i] = job[i]
             /\ UNCHANGED boots
  BY StartRow
<1>2. s.worker \in Workers /\ Generation[s.worker] <= boots' /\ boots' = boots
  BY <1>1 DEF SpawnedBy, LifeOK
<1>3. Assigned(j)
  BY DEF Owners
<1> QED
  BY <1>1, <1>2, <1>3 DEF Assigned

LEMMA AssignedStays ==
    ASSUME IInv, LifeOK, Owners, [Next]_vars, ~Starting, NEW j \in Jobs
    PROVE  Assigned(j)'
<1>1. boots \in Nat /\ boots' \in {boots, boots + 1}
  <2>1. CASE UNCHANGED vars
    BY <2>1 DEF vars, LifeOK
  <2>2. CASE Restart
    BY <2>2 DEF Restart, LifeOK
  <2> QED
    BY <2>1, <2>2, CoreSteps, Elsewhere, Steps DEF LifeOK
<1>2. \A w \in Workers : Generation[w] \in Nat
  BY GenerationAssumption
<1>3. CASE job'[j] = job[j] \/ job'[j].state \notin Active
  <2>1. Assigned(j)
    BY DEF Owners
  <2> QED
    BY <1>1, <1>2, <1>3, <2>1 DEF Assigned
<1>4. CASE job'[j].worker \in SpawnedBy(boots)
  BY <1>1, <1>4 DEF Assigned, SpawnedBy
<1>5. ASSUME NEW v \in Workers, Resulting(v)
      PROVE  job'[j] = job[j] \/ job'[j].state \notin Active
  BY <1>5, ResultRow DEF WroteJob
<1>6. CASE Recovery \/ Restart
  BY <1>3, <1>6, Rescues DEF IInv, Core
<1> QED
  BY <1>3, <1>4, <1>5, <1>6, CommandKeeps, RowSteps

\* A command looks before it leaps: it pauses a job that it has seen RUNNING on a
\* worker, and resumes a job no worker executes.
LEMMA UsersKnow ==
    ASSUME IInv, LifeOK, Owners, [Next]_vars, NEW u \in Users
    PROVE  UserKnows(task'[u], boots')
<1>0. TasksOK /\ TableOK /\ u \in Tasks /\ UserKnows(task[u], boots)
  BY DEF IInv, Core, Tasks, Owners
<1>1. \A boot : UserKnows(Idle, boot)
  BY DEF UserKnows, Idle
<1>2. CASE task'[u] = task[u] /\ boots' = boots
  BY <1>0, <1>2
<1>3. ASSUME NEW t \in Tasks \ {u}, NEW r, Goto(t, r)
      PROVE  task'[u] = task[u]
  BY <1>0, <1>3, TaskMoves
<1>4. CASE UNCHANGED vars
  BY <1>2, <1>4 DEF vars
<1>5. CASE Restart
  <2>1. task'[u] = Idle
    BY <1>5, TasksAssumption DEF Restart, Tasks
  <2> QED
    BY <1>1, <2>1
<1>6. ASSUME NEW v \in Workers, OfWorker(v) PROVE task'[u] = task[u] /\ boots' = boots
  BY <1>0, <1>6, Elsewhere, TasksAssumption
<1>7. CASE Scheduler \/ Liveness \/ Control
  <2>1. \E t \in {"scheduler", "liveness", "control"} : \E r : Goto(t, r)
    BY <1>7 DEF Scheduler, list_ready, NoIdleWorker, PrepareFails, ClaimWorker,
         start_on_worker, SendDispatch, Liveness, LostScan, MarkLost, RecoverMarked,
         RemoveMarked, Control, ReceiveControl, DeliverControl
  <2>2. boots' = boots
    BY <1>7, CoreSteps DEF OfCore
  <2> QED
    BY <1>2, <1>3, <2>1, <2>2, TasksAssumption DEF Tasks
<1>8. ASSUME NEW x \in Users, NEW c, Goto(x, c), UserKnows(c, boots), boots' = boots
      PROVE  UserKnows(task'[u], boots')
  <2>1. task'[u] \in {c, task[u]}
    BY <1>0, <1>8, TaskMoves DEF Tasks
  <2> QED
    BY <1>0, <1>8, <2>1
<1>9. ASSUME NEW x \in Users, UserUpdate(x) PROVE UserKnows(task'[u], boots')
  BY <1>1, <1>8, <1>9 DEF UserUpdate
<1>10. ASSUME NEW x \in Users, CancelGet(x) PROVE UserKnows(task'[u], boots')
  <2>1. PICK c, d : /\ c = task[x]
                    /\ d = [op |-> "update", job |-> c.job, target |-> "CANCELLED",
                            snap |-> job[c.job]]
    OBVIOUS
  <2>2. (Goto(x, d) \/ Goto(x, Idle)) /\ boots' = boots
    BY <1>10, <2>1 DEF CancelGet
  <2>3. UserKnows(d, boots)
    BY <2>1 DEF UserKnows
  <2> QED
    BY <1>1, <1>8, <2>2, <2>3
<1>11. ASSUME NEW x \in Users, NEW j \in Jobs, NEW target \in {"PAUSING", "READY"},
              UserTransition(x, j, target), boots' = boots
       PROVE  UserKnows(task'[u], boots')
  <2>1. PICK c : c = [op |-> "update", job |-> j, target |-> target, snap |-> job[j]]
    OBVIOUS
  <2>2. Goto(x, c) /\ can_transition(job[j].state, target)
    BY <1>11, <2>1 DEF UserTransition
  <2>3. c.target = target /\ c.snap = job[j]
    BY <2>1
  <2>4. target = "PAUSING" => job[j].state = "RUNNING" /\ job[j].worker \in SpawnedBy(boots)
    <3>1. target = "PAUSING" => job[j].state = "RUNNING"
      BY <2>2 DEF can_transition, Waiting, Terminal
    <3> QED
      BY <1>0, <3>1 DEF TableOK, RowOK
  <2>5. target = "READY" => job[j].state \notin Active
    BY <2>2 DEF can_transition, Waiting, Terminal, Active
  <2>6. UserKnows(c, boots)
    BY <2>3, <2>4, <2>5 DEF UserKnows
  <2> QED
    BY <1>8, <1>11, <2>2, <2>6
<1>12. ASSUME NEW x \in Users, Command(x) PROVE UserKnows(task'[u], boots')
  <2>1. PICK j \in Jobs : PauseJob(x, j) \/ ResumeJob(x, j) \/ CancelJob(x, j)
    BY <1>12 DEF Command
  <2>2. PICK c : c = [op |-> "cancel", job |-> j]
    OBVIOUS
  <2>3. /\ \/ task' = task
           \/ UserTransition(x, j, "PAUSING") \/ UserTransition(x, j, "READY")
           \/ Goto(x, c)
        /\ boots' = boots
    BY <2>1, <2>2 DEF PauseJob, ResumeJob, CancelJob, Issue
  <2>4. UserKnows(c, boots)
    BY <2>2 DEF UserKnows
  <2> QED
    BY <1>2, <1>8, <1>11, <2>3, <2>4
<1> QED
  BY <1>2, <1>4, <1>5, <1>6, <1>7, <1>9, <1>10, <1>12, Steps DEF OfCore

LEMMA OwnersInit == Init => Owners
<1> SUFFICES ASSUME Init PROVE Owners
  OBVIOUS
<1>1. ASSUME NEW j \in Jobs PROVE job[j].state = "READY"
  <2>1. PICK b : b = (j \in Idempotent)
    OBVIOUS
  <2>2. job[j] = [NewRow(MaxAttempts[j], b) EXCEPT !.state = "READY"]
    BY <2>1 DEF Init
  <2> QED
    BY <2>2 DEF NewRow, NoRow
<1>2. /\ task["scheduler"] = Idle /\ \A u \in Users : task[u] = Idle
      /\ \A w \in Workers : task[w] \in {Idle, Closed}
  BY TasksAssumption DEF Init, Tasks
<1>3. ASSUME NEW w \in Workers PROVE Fit(w)
  <2>1. /\ inbox[w] = <<>> /\ running[w] = {} /\ outbox[w] \in {<<>>, <<Register>>}
        /\ handles = {}
    BY DEF Init
  <2>2. OneItem(w) /\ Work(w) = {}
    BY <1>2, <2>1, Spawned DEF Fresh, FreshHasNone
  <2>3. Held(w) = {}
    BY <1>1 DEF Held, Owns, Active
  <2>4. Claimed = {}
    BY <1>2 DEF Claimed, Idle
  <2> QED
    BY <2>1, <2>2, <2>3, <2>4 DEF Fit
<1>4. \A j \in Jobs : Assigned(j)
  BY <1>1 DEF Assigned, Active
<1>5. \A u \in Users : UserKnows(task[u], boots)
  BY <1>2 DEF UserKnows, Idle
<1> QED
  BY <1>3, <1>4, <1>5 DEF Owners

LEMMA OwnersNext ==
    ASSUME IInv, LifeOK, Owners, [Next]_vars
    PROVE  Owners'
<1>1. \A u \in Users : UserKnows(task'[u], boots')
  BY UsersKnow
<1>2. CASE Starting
  <2>1. \A w \in Workers : Fit(w)'
    BY <1>2, StartFit
  <2>2. \A j \in Jobs : Assigned(j)'
    BY <1>2, StartAssigned
  <2> QED
    BY <1>1, <2>1, <2>2 DEF Owners
<1>3. CASE ~Starting
  <2>1. Calm
    BY <1>3, CalmSteps
  <2>2. \A j \in Jobs : Assigned(j)'
    BY <1>3, AssignedStays
  <2>3. ASSUME NEW w \in Workers PROVE Fit(w)'
    <3>1. Fit(w) /\ Held(w)' \subseteq Held(w)
      BY <2>1, CalmHeld DEF Owners
    <3>2. CASE UNCHANGED vars
      <4>1. UNCHANGED <<Dispatched(w), Undone(w), Executed(w), Reported(w), Handled(w),
                        Registering(w), Claimed, Sending, Held(w), handles, busy>>
        BY <3>2 DEF vars, Dispatched, Undone, Executed, Reported, Handled, Registering,
           Claimed, Sending, Held, Owns
      <4>2. OneItem(w)' = OneItem(w)
        BY <3>2, <4>1 DEF vars, OneItem, Early, Late
      <4>3. Work(w)' = Work(w)
        BY <4>1 DEF Work, Early, Late
      <4> QED
        BY <3>1, <4>1, <4>2, <4>3 DEF Fit
    <3> QED
      BY <1>3, <3>1, <3>2, Steps, LoopFit, RestartFit, WorkerFit
  <2> QED
    BY <1>1, <2>2, <2>3 DEF Owners
<1> QED
  BY <1>2, <1>3

-----------------------------------------------------------------------------
(* What the table says and what the processes do *)

\* The Core is done with the process of w.
Dead(w) == process[w] = "EXITED" /\ task[w] = Closed /\ w \notin Claimed

\* The jobs that w has according to the table, or had until it was robbed of them.
Had(w) == Owned(w) \cup {j \in Jobs : <<w, j>> \in aux.taken}

\* While nobody stalls: a job on its way is its worker's in the table too, a busy
\* worker has one, and only the heartbeats of the dead are late.
InStep(w) ==
    /\ Due(w) \subseteq Had(w)
    /\ process[w] # "EXITED" =>
         /\ w \in Claimed => Sending \subseteq Had(w)
         /\ w \in handles \cap busy => Had(w) # {} \/ w \in Claimed
    /\ w \in stale => Dead(w)

\* Whom the liveness loop is about.
LostAreDead ==
    LET l == task["liveness"] IN
    /\ l.op \in {"mark", "recover"} => \A w \in Workers : w \in l.todo => Dead(w)
    /\ l.op = "recover" => l.worker \in Workers /\ Dead(l.worker)

Steady == (\A w \in Workers : InStep(w)) /\ LostAreDead

SteadyOK == aux.stalls = 0 => Steady

LEMMA StallsStay ==
    ASSUME IInv, [Next]_vars, aux'.stalls = 0
    PROVE  aux.stalls = 0 /\ \A v \in Workers : ~Stalls(v)
<1>0. aux.stalls \in Nat
  BY DEF IInv, Core, TableOK, Histories
<1>1. ASSUME NEW v \in Workers, Stalls(v) PROVE FALSE
  <2>1. aux' = [aux EXCEPT !.stalls = aux.stalls + 1]
    BY <1>1 DEF Stalls
  <2>2. aux'.stalls = aux.stalls + 1
    BY <2>1, History
  <2> QED
    BY <1>0, <2>2
<1>2. aux'.stalls = aux.stalls
  BY <1>1, ResultRow, CommandRow, StartRow, RowSteps
     DEF Unrecorded, Recovery, Restart, WroteJob
<1> QED
  BY <1>1, <1>2

\* A process that has exited stays so, and none is spawned while the Core runs.
LEMMA Processes ==
    ASSUME IInv, LifeOK, [Next]_vars, ~Restart, NEW w \in Workers
    PROVE  /\ process[w] = "EXITED" => process'[w] = "EXITED"
           /\ process'[w] = "UP" => process[w] = "UP"
<1>1. CASE UNCHANGED vars
  BY <1>1 DEF vars
<1>2. CASE OfCore
  BY <1>2, CoreSteps
<1>3. ASSUME NEW v \in Workers, OfWorker(v)
      PROVE  process' = process \/ process' = [process EXCEPT ![v] = "EXITED"]
  BY <1>3 DEF OfWorker, Reader, Process, register, JobResult, ResultGet, ResultUpdate,
         ReaderEnds, RecoverExited, HandleMessage, JobThread, JobThreadEnds,
         heartbeat, WriterEnds, DeadExpires, WorkerExits, Stalls, Expire, workers
<1> QED
  BY <1>1, <1>2, <1>3, Steps DEF LifeOK

LEMMA DeadStays ==
    ASSUME IInv, LifeOK, [Next]_vars, NEW w \in Workers, Dead(w)
    PROVE  Dead(w)'
<1>0. /\ TasksOK /\ "scheduler" \in Tasks /\ w \in Tasks
      /\ process[w] = "EXITED" /\ task[w] = Closed /\ w \notin Claimed
      /\ w \notin handles /\ Generation[w] <= boots /\ boots \in Nat
      /\ Generation[w] \in Nat
  BY GenerationAssumption DEF IInv, Core, Tasks, Dead, LifeOK, Life, Closed
<1>1. CASE Restart
  <2>1. w \notin SpawnedBy(boots + 1)
    BY <1>0 DEF SpawnedBy
  <2>2. process'[w] = "EXITED" /\ task'[w] = Closed /\ task'["scheduler"] = Idle
    BY <1>0, <1>1, <2>1, TasksAssumption DEF Restart, Tasks
  <2> QED
    BY <2>2 DEF Dead, Claimed, Idle
<1>2. CASE ~Restart
  <2>1. process'[w] = "EXITED"
    BY <1>0, <1>2, Processes
  <2>2. task'[w] = task[w]
    <3>1. CASE UNCHANGED vars
      BY <3>1 DEF vars
    <3>2. CASE OfCore
      BY <3>2, CoreSteps
    <3>3. ASSUME NEW v \in Workers, OfWorker(v), v # w PROVE task'[w] = task[w]
      BY <3>3, Elsewhere DEF Same
    <3>4. CASE OfWorker(w)
      <4>1. task[w].op = "closed" /\ task[w] # Idle
        BY <1>0 DEF Closed, Idle
      <4> QED
        BY <3>4, <4>1 DEF OfWorker, Reader, Process, register, JobResult, Receive,
         ResultGet, ResultUpdate, ReaderEnds, RecoverExited, HandleMessage, JobThread,
         JobThreadEnds, heartbeat, WriterEnds, DeadExpires, WorkerExits, Stalls, Expire
    <3> QED
      BY <1>2, <3>1, <3>2, <3>3, <3>4, Steps
  <2>3. w \notin Claimed'
    <3>1. CASE task'["scheduler"] = task["scheduler"]
      BY <1>0, <3>1 DEF Claimed
    <3>2. CASE task'["scheduler"].op \notin {"start", "send"}
      BY <3>2 DEF Claimed
    <3>3. CASE ClaimWorker /\ task'["scheduler"].op \in {"start", "send"}
      <4>1. task'["scheduler"].worker \in handles
        BY <3>3, ClaimRow
      <4> QED
        BY <1>0, <4>1 DEF Claimed
    <3>4. CASE Starting
      <4>1. PICK s, sent :
             /\ s = task["scheduler"] /\ s.op = "start"
             /\ s.job \in Jobs /\ s.worker \in SpawnedBy(boots)
             /\ sent.op = "send" /\ sent.job = s.job /\ sent.worker = s.worker
             /\ task'["scheduler"] = sent
             /\ UNCHANGED <<map, pipes, workers, boots>>
        BY <3>4, StartRow
      <4> QED
        BY <1>0, <4>1 DEF Claimed
    <3> QED
      BY <3>1, <3>2, <3>3, <3>4, SchedulerSteps
  <2> QED
    BY <1>0, <2>1, <2>2, <2>3 DEF Dead
<1> QED
  BY <1>1, <1>2

LEMMA StepAdvances ==
    ASSUME IInv, LifeOK, [Next]_vars, ~Restart, ~SendDispatch \/ inbox' = inbox,
           NEW w \in Workers, OneItem(w)
    PROVE  Advances(w)
<1>1. CASE UNCHANGED vars
  BY <1>1, SameAdvances DEF vars
<1> QED
  BY <1>1, Steps, LoopAdvances, WorkerAdvances

\* A job is taken from a worker when its process is gone and all it reported is dealt
\* with, or by its result.
Gone(w) == process[w] = "EXITED" /\ Late(w) = {}

LEMMA DeadGone == \A w \in Workers : LifeOK /\ Dead(w) => Gone(w)
<1> SUFFICES ASSUME NEW w \in Workers, LifeOK, Dead(w) PROVE Gone(w)
  OBVIOUS
<1>1. process[w] = "EXITED" /\ outbox[w] = <<>> /\ task[w].op = "closed"
  BY DEF Dead, LifeOK, Life, Closed
<1> QED
  BY <1>1, EmptyHolds DEF Gone, Late, Reported, Handled

LEMMA RecoveredGone ==
    ASSUME IInv, LifeOK, Owners, Steady, NEW x, RecoveryOf(x)
    PROVE  x \in Workers /\ Gone(x)
<1>1. CASE SendDispatch /\ x = task["scheduler"].worker /\ x \in broken
  <2>1. x \in Workers /\ x \in Claimed
    BY <1>1 DEF SendDispatch, Claimed, IInv, Core, TasksOK, SchedulerOK, SpawnedBy
  <2>2. process[x] = "EXITED" /\ Work(x) = {}
    BY <1>1, <2>1 DEF LifeOK, Life, Owners, Fit
  <2> QED
    BY <2>1, <2>2 DEF Gone, Work
<1>2. CASE RecoverMarked /\ x = task["liveness"].worker
  BY <1>2, DeadGone DEF RecoverMarked, Steady, LostAreDead
<1>3. CASE x \in Workers /\ RecoverExited(x)
  <2>1. process[x] = "EXITED" /\ outbox[x] = <<>> /\ task[x].op = "exited"
    BY <1>3 DEF RecoverExited, LifeOK, Life
  <2> QED
    BY <1>3, <2>1, EmptyHolds DEF Gone, Late, Reported, Handled
<1> QED
  BY <1>1, <1>2, <1>3 DEF RecoveryOf

LEMMA HadStays ==
    ASSUME IInv, LifeOK, Owners, Steady, [Next]_vars, NEW w \in Workers
    PROVE  \/ Had(w) \subseteq Had(w)'
           \/ Gone(w)
           \/ Resulting(w) /\ ResultUpdate(w)
           \/ Restart
<1>1. CASE UNCHANGED job /\ Unrecorded
  <2>1. aux'.taken = aux.taken /\ job' = job
    BY <1>1, Unrecordeds
  <2> QED
    BY <2>1 DEF Had, Owned, Owns
<1>2. CASE Recovery
  <2>1. PICK x : RecoveryOf(x) /\ job' = Recovered(x) /\ aux' = aux
    BY <1>2 DEF Recovery
  <2>2. x \in Workers /\ Gone(x)
    BY <2>1, RecoveredGone
  <2>3. CASE w # x
    <3>1. \A j \in Jobs : job[j].worker = w => job'[j] = job[j]
      BY <2>1, <2>3 DEF Recovered, Owns
    <3> QED
      BY <2>1, <3>1 DEF Had, Owned, Owns
  <2> QED
    BY <2>2, <2>3
<1>3. ASSUME NEW v \in Workers, Resulting(v), ResultUpdate(v), v # w
      PROVE  Had(w) \subseteq Had(w)'
  <2>1. PICK i \in Jobs, next \in Rows : WroteJob(v, i, next) /\ next.worker = NULL
    BY <1>3, ResultRow
  <2>2. /\ \A j \in Jobs \ {i} : job'[j] = job[j]
        /\ aux.taken \subseteq aux'.taken
        /\ job[i].state \in Active /\ job[i].worker \notin {NULL, v}
             => <<job[i].worker, i>> \in aux'.taken
    BY <2>1 DEF WroteJob, Believed
  <2>3. w # NULL
    BY NullAssumption
  <2>4. ASSUME NEW j \in Owned(w) PROVE j \in Had(w)'
    <3>1. j \in Jobs /\ job[j].worker = w /\ job[j].state \in Active
      BY <2>4 DEF Owned, Owns
    <3>2. CASE j = i
      BY <1>3, <2>2, <2>3, <3>1, <3>2 DEF Had
    <3>3. CASE j # i
      BY <2>2, <3>1, <3>3 DEF Had, Owned, Owns
    <3> QED
      BY <3>2, <3>3
  <2> QED
    BY <2>2, <2>4 DEF Had
<1>4. ASSUME NEW u \in Users, Commanding(u)
      PROVE  Had(w) \subseteq Had(w)'
  <2>1. ASSUME NEW j \in Owned(w) PROVE j \in Had(w)'
    <3>1. j \in Jobs /\ job[j].worker = w /\ job[j].state \in Active
      BY <2>1 DEF Owned, Owns
    <3>2. <<w, j>> \in aux'.taken \/ (job'[j].state \in Active /\ job'[j].worker = w)
      BY <1>4, <3>1, CommandKeeps
    <3> QED
      BY <3>1, <3>2 DEF Had, Owned, Owns
  <2>2. ASSUME NEW j \in Jobs, <<w, j>> \in aux.taken PROVE j \in Had(w)'
    BY <1>4, <2>2, CommandKeeps DEF Had
  <2> QED
    BY <2>1, <2>2 DEF Had
<1>5. CASE Starting
  <2>1. PICK s :
             /\ s.job \in Jobs
             /\ job[s.job].state = "READY"
             /\ \A i \in Jobs \ {s.job} : job'[i] = job[i]
             /\ aux'.taken = aux.taken
    BY <1>5, StartRow
  <2> QED
    BY <2>1 DEF Had, Owned, Owns, Active
<1> QED
  BY <1>1, <1>2, <1>3, <1>4, <1>5, RowSteps

\* A result is handled for a worker that is not claimed, and is then done with.
LEMMA ResultDone ==
    ASSUME IInv, Owners, NEW w \in Workers, Resulting(w), ResultUpdate(w)
    PROVE  Work(w)' = {} /\ w \notin Claimed /\ (w \in handles' => w \notin busy')
<1>1. OneItem(w)
  BY DEF Owners, Fit
<1>2. Work(w)' = {} /\ task[w].job \in Late(w)
  BY <1>1, HandledAdvances DEF ResultUpdate
<1>3. w \notin Claimed
  BY <1>2 DEF Owners, Fit, Work
<1>4. w \in handles' => w \notin busy'
  <2>1. release_worker(w) /\ handles' = handles
    BY DEF ResultUpdate, Resulting
  <2> QED
    BY <2>1 DEF release_worker
<1> QED
  BY <1>2, <1>3, <1>4

LEMMA DueStays ==
    ASSUME IInv, LifeOK, Owners, Steady, [Next]_vars, NEW w \in Workers
    PROVE  Due(w)' \subseteq Had(w)'
<1>0. /\ TasksOK /\ "scheduler" \in Tasks /\ w \in Tasks \ {"scheduler"}
      /\ OneItem(w) /\ Due(w) \subseteq Had(w)
  BY TasksAssumption DEF IInv, Core, Tasks, Owners, Fit, Steady, InStep
<1>1. CASE Restart
  <2>1. /\ inbox'[w] = <<>> /\ running'[w] = {} /\ outbox'[w] \in {<<>>, <<Register>>}
    BY <1>1 DEF Restart
  <2>2. task'[w] \in {Idle, Closed}
    BY <1>1 DEF Restart, Tasks
  <2>3. Fresh(w)'
    BY <2>1, <2>2 DEF Fresh
  <2>4. FreshHasNone'
    BY Spawned, PTL
  <2>5. Work(w)' = {}
    BY <2>3, <2>4 DEF FreshHasNone
  <2> QED
    BY <2>5 DEF Due, Work
<1>2. CASE SendDispatch /\ inbox' # inbox
  <2>1. PICK s, q : s = task["scheduler"] /\ q = s.queue
    OBVIOUS
  <2>2. /\ s.op = "send" /\ Goto("scheduler", Scan(q)) /\ To(s.worker, Dispatch(s.job))
        /\ UNCHANGED <<outbox, running, process, job, aux>>
    BY <1>2, <2>1 DEF SendDispatch, workers
  <2>3. task'[w] = task[w]
    BY <1>0, <2>2, TaskMoves
  <2>4. Had(w)' = Had(w)
    BY <2>2 DEF Had, Owned, Owns
  <2>5. CASE w # s.worker
    <3>1. inbox'[w] = inbox[w]
      BY <2>2, <2>5 DEF To, IInv, Pipes, InboxOK
    <3>2. Advances(w)
      BY <1>0, <2>2, <2>3, <3>1, SameAdvances
    <3> QED
      BY <1>0, <2>4, <3>2 DEF Advances
  <2>6. CASE w = s.worker
    <3>1. w \in Claimed /\ Sending = {s.job} /\ s.job \in Jobs
      BY <1>0, <2>1, <2>2, <2>6 DEF Claimed, Sending, TasksOK, SchedulerOK
    <3>2. Work(w) = {}
      BY <3>1 DEF Owners, Fit
    <3>3. Work(w)' = {s.job} /\ Late(w)' = {}
      BY <1>0, <2>2, <2>3, <2>6, <3>1, <3>2, SendAdvances
    <3>4. process[w] = "UP" => s.job \in Had(w)
      BY <3>1 DEF Steady, InStep
    <3> QED
      BY <2>2, <2>4, <3>3, <3>4 DEF Due
  <2> QED
    BY <2>5, <2>6
<1>3. CASE ~Restart /\ (~SendDispatch \/ inbox' = inbox)
  <2>1. Due(w)' \subseteq Due(w)
    BY <1>0, <1>3, StepAdvances DEF Advances
  <2>2. CASE Had(w) \subseteq Had(w)'
    BY <1>0, <2>1, <2>2
  <2>3. CASE Gone(w)
    BY <2>1, <2>3 DEF Gone, Due
  <2>4. CASE Resulting(w) /\ ResultUpdate(w)
    <3>1. Work(w)' = {}
      BY <2>4, ResultDone
    <3> QED
      BY <3>1 DEF Due, Work
  <2> QED
    BY <1>3, <2>2, <2>3, <2>4, HadStays
<1> QED
  BY <1>1, <1>2, <1>3

\* What the scheduler has started stays started until it is sent.
LEMMA SendingStays ==
    ASSUME IInv, LifeOK, Owners, Steady, [Next]_vars, NEW w \in Workers,
           process'[w] # "EXITED", (w \in Claimed)'
    PROVE  Sending' \subseteq Had(w)'
<1>1. ~Restart
  <2>1. CASE Restart
    <3>1. task'["scheduler"] = Idle
      BY <2>1, TasksAssumption DEF Restart, Tasks
    <3> QED
      BY <3>1 DEF Claimed, Idle
  <2> QED
    BY <2>1
<1>2. process[w] # "EXITED"
  BY <1>1, Processes
<1>3. CASE task'["scheduler"] = task["scheduler"]
  <2>1. w \in Claimed /\ Sending' = Sending
    BY <1>3 DEF Claimed, Sending
  <2>2. Sending \subseteq Had(w)
    BY <1>2, <2>1 DEF Steady, InStep
  <2>3. ~Gone(w) /\ ~(Resulting(w) /\ ResultUpdate(w))
    BY <1>2, <2>1, ResultDone DEF Gone
  <2> QED
    BY <1>1, <2>1, <2>2, <2>3, HadStays
<1>4. CASE task'["scheduler"].op \notin {"start", "send"}
  BY <1>4 DEF Claimed
<1>5. CASE ClaimWorker /\ task'["scheduler"].op \in {"start", "send"}
  <2>1. task'["scheduler"].op = "start"
    BY <1>5, ClaimRow
  <2> QED
    BY <2>1 DEF Sending
<1>6. CASE Starting
  <2>1. PICK s, sent :
             /\ s = task["scheduler"] /\ s.op = "start"
             /\ s.job \in Jobs /\ s.worker \in SpawnedBy(boots)
             /\ job'[s.job].state = "RUNNING" /\ job'[s.job].worker = s.worker
             /\ \A i \in Jobs \ {s.job} : job'[i] = job[i]
             /\ sent.op = "send" /\ sent.job = s.job /\ sent.worker = s.worker
             /\ task'["scheduler"] = sent
             /\ UNCHANGED <<map, pipes, workers, boots>>
    BY <1>6, StartRow
  <2>2. w = s.worker /\ Sending' = {s.job}
    BY <2>1 DEF Claimed, Sending
  <2> QED
    BY <2>1, <2>2 DEF Had, Owned, Owns, Active
<1> QED
  BY <1>3, <1>4, <1>5, <1>6, SchedulerSteps

\* Who makes a worker busy, and who lets go of one that is.
LEMMA BusySteps ==
    ASSUME IInv, LifeOK, [Next]_vars, NEW w \in Workers, w \in handles' \cap busy'
    PROVE  w \in handles \cap busy \/ (w \in Claimed)'
<1>1. CASE UNCHANGED vars
  BY <1>1 DEF vars
<1>2. CASE Restart
  BY <1>2 DEF Restart
<1>3. CASE ClaimWorker
  <2>1. CASE task'["scheduler"].op \in {"start", "send"}
    <3>1. PICK x \in handles \ busy :
            /\ task'["scheduler"].op = "start" /\ task'["scheduler"].worker = x
            /\ busy' = busy \cup {x} /\ handles' = handles
      BY <1>3, <2>1, ClaimRow
    <3> QED
      BY <3>1 DEF Claimed
  <2>2. CASE task'["scheduler"].op \notin {"start", "send"}
    <3>1. PICK x \in handles \ busy, j \in Jobs :
            /\ handles' = handles
            /\ \/ busy' = busy
               \/ /\ busy' = busy \cup {x}
                  /\ Goto("scheduler", [op |-> "start", queue |-> task["scheduler"].queue \ {j},
                                 job |-> j, worker |-> x, snap |-> job[j]])
      BY <1>3 DEF ClaimWorker, Claim
    <3>2. PICK s : s = [op |-> "start", queue |-> task["scheduler"].queue \ {j},
                                 job |-> j, worker |-> x, snap |-> job[j]]
      OBVIOUS
    <3>3. s.op = "start"
      BY <3>2
    <3>4. ~Goto("scheduler", s)
      BY <2>2, <3>3, TaskMoves DEF IInv, Core, Tasks
    <3> QED
      BY <3>1, <3>2, <3>4
  <2> QED
    BY <2>1, <2>2
<1>4. CASE OfCore /\ ~ClaimWorker
  <2>1. handles' \subseteq handles
    BY <1>4, CoreSteps
  <2>2. busy' \subseteq busy
    BY <1>4 DEF OfCore, Scheduler, list_ready, NoIdleWorker, PrepareFails, start_on_worker,
         SendDispatch, Unclaim, Liveness, LostScan, MarkLost, RecoverMarked, RemoveMarked,
         Control, ReceiveControl, DeliverControl, Command, PauseJob, ResumeJob, CancelJob,
         Issue, CancelGet, UserUpdate, map
  <2> QED
    BY <2>1, <2>2
<1>5. ASSUME NEW v \in Workers, OfWorker(v), ~register(v)
      PROVE  w \in handles \cap busy
  BY <1>5 DEF OfWorker, Reader, Process, JobResult, ResultGet, ResultUpdate, ReaderEnds,
         RecoverExited, HandleMessage, JobThread, JobThreadEnds, heartbeat, WriterEnds,
         DeadExpires, WorkerExits, Stalls, Expire, map, release_worker
<1>6. ASSUME NEW v \in Workers, register(v)
      PROVE  w \in handles \cap busy
  BY <1>6 DEF register
<1> QED
  BY <1>1, <1>2, <1>3, <1>4, <1>5, <1>6, Steps

LEMMA Unclaims ==
    ASSUME IInv, LifeOK, [Next]_vars, ~Restart, NEW w \in Workers, w \in Claimed,
           ~(w \in Claimed)', w \in busy'
    PROVE  SendDispatch /\ task["scheduler"].op = "send"
<1>1. PICK s : s = task["scheduler"] /\ s.op \in {"start", "send"} /\ s.worker = w
  BY DEF Claimed
<1>2. task'["scheduler"] # s
  BY <1>1 DEF Claimed
<1>3. CASE Starting
  <2>1. PICK r, sent :
             /\ r = task["scheduler"] /\ r.op = "start"
             /\ r.job \in Jobs /\ r.worker \in SpawnedBy(boots)
             /\ sent.op = "send" /\ sent.job = r.job /\ sent.worker = r.worker
             /\ task'["scheduler"] = sent
             /\ UNCHANGED <<map, pipes, workers, boots>>
    BY <1>3, StartRow
  <2> QED
    BY <1>1, <2>1 DEF Claimed
<1>4. CASE start_on_worker /\ ~Starting
  <2>1. busy' = busy \ {w}
    BY <1>1, <1>4 DEF start_on_worker, Starting, Unclaim
  <2> QED
    BY <2>1
<1>5. CASE Scheduler
  <2>1. ~list_ready /\ ~NoIdleWorker /\ ~PrepareFails /\ ~ClaimWorker
    BY <1>1 DEF list_ready, NoIdleWorker, PrepareFails, ClaimWorker, Idle
  <2> QED
    BY <1>3, <1>4, <1>5, <2>1 DEF Scheduler, SendDispatch
<1>6. CASE ~Scheduler
  <2>0. TasksOK /\ "scheduler" \in Tasks
    BY DEF IInv, Core, Tasks
  <2>1. task'["scheduler"] = s
    <3>1. CASE UNCHANGED vars
      BY <1>1, <3>1 DEF vars
    <3>2. ASSUME NEW v \in Workers, OfWorker(v) PROVE task'["scheduler"] = s
      BY <1>1, <2>0, <3>2, Elsewhere, TasksAssumption
    <3>3. CASE Liveness \/ Control
      <4>1. \E t \in {"liveness", "control"} : \E r : Goto(t, r)
        BY <3>3 DEF Liveness, LostScan, MarkLost, RecoverMarked, RemoveMarked, Control,
                    ReceiveControl, DeliverControl
      <4> QED
        BY <1>1, <2>0, <4>1, TaskMoves DEF Tasks
    <3>4. ASSUME NEW u \in Users, Command(u) \/ CancelGet(u) \/ UserUpdate(u)
          PROVE  task'["scheduler"] = s
      <4>1. task' = task \/ \E r : Goto(u, r)
        BY <3>4 DEF Command, PauseJob, ResumeJob, CancelJob, UserTransition, CancelGet,
         UserUpdate
      <4> QED
        BY <1>1, <2>0, <4>1, TaskMoves, TasksAssumption DEF Tasks
    <3> QED
      BY <1>6, <3>1, <3>2, <3>3, <3>4, Steps DEF OfCore
  <2> QED
    BY <1>2, <2>1
<1> QED
  BY <1>5, <1>6

LEMMA BusyStays ==
    ASSUME IInv, LifeOK, Owners, Steady, [Next]_vars, NEW w \in Workers,
           process'[w] # "EXITED", w \in handles' \cap busy'
    PROVE  Had(w)' # {} \/ (w \in Claimed)'
<1>1. ~Restart
  BY DEF Restart
<1>2. process[w] # "EXITED"
  BY <1>1, Processes
<1>3. CASE w \in handles \cap busy /\ ~(w \in Claimed)'
  <2>1. Had(w) # {}
    <3>1. CASE w \in Claimed
      <4>1. SendDispatch /\ task["scheduler"].op = "send"
        BY <1>1, <1>3, <3>1, Unclaims
      <4>2. Sending # {} /\ Sending \subseteq Had(w)
        BY <1>2, <3>1, <4>1 DEF Sending, Steady, InStep
      <4> QED
        BY <4>2
    <3>2. CASE w \notin Claimed
      BY <1>2, <1>3, <3>2 DEF Steady, InStep
    <3> QED
      BY <3>1, <3>2
  <2>2. ~Gone(w) /\ ~(Resulting(w) /\ ResultUpdate(w))
    BY <1>2, ResultDone DEF Gone
  <2> QED
    BY <1>1, <2>1, <2>2, HadStays
<1> QED
  BY <1>3, BusySteps

LEMMA StaleStays ==
    ASSUME IInv, LifeOK, Steady, aux'.stalls = 0, [Next]_vars, NEW w \in Workers, w \in stale'
    PROVE  Dead(w)'
<1>1. CASE w \in stale
  BY <1>1, DeadStays DEF Steady, InStep
<1>2. CASE w \notin stale
  <2>1. \A v \in Workers : ~Stalls(v)
    BY StallsStay
  <2>2. DeadExpires(w)
    <3>1. CASE UNCHANGED vars \/ Restart
      BY <1>2, <3>1 DEF vars, Restart, registry
    <3>2. CASE OfCore
      BY <1>2, <3>2, CoreSteps
    <3>3. ASSUME NEW v \in Workers, OfWorker(v), ~Stalls(v), ~DeadExpires(v)
          PROVE  stale' \subseteq stale
      BY <3>3 DEF OfWorker, Reader, Process, register, JobResult, ResultGet, ResultUpdate,
         ReaderEnds, RecoverExited, HandleMessage, JobThread, JobThreadEnds, heartbeat,
         WriterEnds, WorkerExits, registry
    <3>4. ASSUME NEW v \in Workers, DeadExpires(v)
          PROVE  v = w
      BY <1>2, <3>4 DEF DeadExpires, Expire
    <3> QED
      BY <1>2, <2>1, <3>1, <3>2, <3>3, <3>4, Steps
  <2>3. Dead(w)
    BY <2>2 DEF DeadExpires, Dead
  <2> QED
    BY <2>3, DeadStays
<1> QED
  BY <1>1, <1>2

LEMMA LostStays ==
    ASSUME IInv, LifeOK, Steady, [Next]_vars
    PROVE  LostAreDead'
<1>0. /\ TasksOK /\ "liveness" \in Tasks
      /\ \A w \in Workers : w \in stale => Dead(w)
      /\ \A w \in Workers : Dead(w) => Dead(w)'
  BY DeadStays DEF IInv, Core, Tasks, Steady, InStep
<1>1. CASE task'["liveness"] = task["liveness"]
  BY <1>0, <1>1 DEF Steady, LostAreDead
<1>2. CASE task'["liveness"] = Idle
  BY <1>2 DEF LostAreDead, Idle
<1>3. ASSUME NEW t \in Tasks \ {"liveness"}, NEW r, Goto(t, r)
      PROVE  task'["liveness"] = task["liveness"]
  BY <1>0, <1>3, TaskMoves
<1>4. CASE UNCHANGED vars \/ Restart
  BY <1>1, <1>2, <1>4, TasksAssumption DEF vars, Restart, Tasks
<1>5. CASE \E v \in Workers : OfWorker(v)
  BY <1>0, <1>1, <1>5, Elsewhere, TasksAssumption
<1>6. CASE Scheduler \/ Control
  <2>1. \E t \in {"scheduler", "control"} : \E r : Goto(t, r)
    BY <1>6 DEF Scheduler, list_ready, NoIdleWorker, PrepareFails, ClaimWorker,
         start_on_worker, SendDispatch, Control, ReceiveControl, DeliverControl
  <2> QED
    BY <1>1, <1>3, <2>1 DEF Tasks
<1>7. ASSUME NEW u \in Users, Command(u) \/ CancelGet(u) \/ UserUpdate(u) PROVE LostAreDead'
  <2>1. task' = task \/ \E r : Goto(u, r)
    BY <1>7 DEF Command, PauseJob, ResumeJob, CancelJob, UserTransition, CancelGet,
         UserUpdate
  <2> QED
    BY <1>1, <1>3, <2>1, TasksAssumption DEF Tasks
<1>8. CASE LostScan
  <2>1. PICK l, expired : /\ expired = {w \in stale : health[w] = "HEALTHY"}
                          /\ l = [op |-> "mark", todo |-> expired, marked |-> {}]
    OBVIOUS
  <2>2. task'["liveness"] = l
    BY <1>0, <1>8, <2>1, TaskMoves DEF LostScan
  <2>3. l.op = "mark" /\ l.todo \subseteq stale
    BY <2>1
  <2> QED
    BY <1>0, <2>2, <2>3 DEF LostAreDead
<1>9. ASSUME NEW x \in Workers, MarkLost(x) PROVE LostAreDead'
  <2>1. PICK l, marking, skipping :
          /\ l = task["liveness"]
          /\ marking = [op |-> "recover", todo |-> l.todo \ {x},
                        marked |-> l.marked \cup {x}, worker |-> x]
          /\ skipping = [op |-> "mark", todo |-> l.todo \ {x}, marked |-> l.marked]
    OBVIOUS
  <2>2. /\ l.op = "mark" /\ x \in l.todo
        /\ Goto("liveness", marking) \/ Goto("liveness", skipping)
    BY <1>9, <2>1 DEF MarkLost
  <2>3. task'["liveness"] \in {marking, skipping}
    BY <1>0, <2>2, TaskMoves
  <2>4. \A w \in Workers : w \in l.todo => Dead(w)'
    BY <1>0, <2>1, <2>2 DEF Steady, LostAreDead
  <2>5. /\ marking.op = "recover" /\ marking.todo \subseteq l.todo /\ marking.worker = x
        /\ skipping.op = "mark" /\ skipping.todo \subseteq l.todo
    BY <2>1
  <2> QED
    BY <2>2, <2>3, <2>4, <2>5 DEF LostAreDead
<1>10. CASE RecoverMarked
  <2>1. PICK l, next : /\ l = task["liveness"]
                       /\ next = [op |-> "mark", todo |-> l.todo, marked |-> l.marked]
    OBVIOUS
  <2>2. task'["liveness"] = next /\ l.op = "recover"
    BY <1>0, <1>10, <2>1, TaskMoves DEF RecoverMarked
  <2>3. next.op = "mark" /\ next.todo = l.todo
    BY <2>1
  <2> QED
    BY <1>0, <2>1, <2>2, <2>3 DEF Steady, LostAreDead
<1>11. CASE RemoveMarked
  <2>1. task'["liveness"] = Idle
    BY <1>0, <1>11, TaskMoves DEF RemoveMarked
  <2> QED
    BY <1>2, <2>1
<1> QED
  BY <1>4, <1>5, <1>6, <1>7, <1>8, <1>9, <1>10, <1>11, Steps DEF OfCore, Liveness

LEMMA SteadyNext ==
    ASSUME IInv, LifeOK, Owners, SteadyOK, [Next]_vars
    PROVE  SteadyOK'
<1> SUFFICES ASSUME aux'.stalls = 0 PROVE Steady'
  BY DEF SteadyOK
<1>1. Steady
  BY StallsStay DEF SteadyOK
<1>2. ASSUME NEW w \in Workers PROVE InStep(w)'
  <2>1. Due(w)' \subseteq Had(w)'
    BY <1>1, DueStays
  <2>2. ASSUME process'[w] # "EXITED"
        PROVE  /\ (w \in Claimed)' => Sending' \subseteq Had(w)'
               /\ w \in handles' \cap busy' => Had(w)' # {} \/ (w \in Claimed)'
    BY <1>1, <2>2, SendingStays, BusyStays
  <2>3. w \in stale' => Dead(w)'
    BY <1>1, StaleStays
  <2> QED
    BY <2>1, <2>2, <2>3 DEF InStep
<1>3. LostAreDead'
  BY <1>1, LostStays
<1> QED
  BY <1>2, <1>3 DEF Steady

LEMMA SteadyInit == Init => SteadyOK
<1> SUFFICES ASSUME Init PROVE Steady
  BY DEF SteadyOK
<1>1. /\ task["scheduler"] = Idle /\ task["liveness"] = Idle
      /\ \A w \in Workers : task[w] \in {Idle, Closed}
  BY TasksAssumption DEF Init, Tasks
<1>2. ASSUME NEW w \in Workers PROVE InStep(w)
  <2>1. /\ inbox[w] = <<>> /\ running[w] = {} /\ outbox[w] \in {<<>>, <<Register>>}
        /\ handles = {} /\ stale = {}
    BY DEF Init
  <2>2. Work(w) = {}
    BY <1>1, <2>1, Spawned DEF Fresh, FreshHasNone
  <2>3. Due(w) = {}
    BY <2>2 DEF Due, Work
  <2>4. Claimed = {}
    BY <1>1 DEF Claimed, Idle
  <2> QED
    BY <2>1, <2>3, <2>4 DEF InStep
<1>3. LostAreDead
  BY <1>1 DEF LostAreDead, Idle
<1> QED
  BY <1>2, <1>3 DEF Steady

-----------------------------------------------------------------------------
(* The theorems *)

\* Each layer of the invariant rests on those before it.
Layers == IInv /\ LifeOK /\ CountsOK /\ Owners /\ SteadyOK

LEMMA Layered == Spec => []Layers
<1>1. Init => Layers
  BY InitInv, LifeInit, CountsInit, OwnersInit, SteadyInit DEF Layers
<1>2. Layers /\ [Next]_vars => Layers'
  BY NextInv, LifeNext, CountsNext, OwnersNext, SteadyNext DEF Layers
<1> QED
  BY <1>1, <1>2, PTL DEF Spec

\* No job is RUNNING on a process of an earlier start of the Core: the scheduler
\* only claims workers that have registered since, and recover_interrupted runs
\* before it.
THEOREM RunningOnThisBoot == Spec => []RunningSinceBoot
<1>1. Layers => RunningSinceBoot
  BY DEF Layers, IInv, Core, TableOK, RowOK, SpawnedBy, RunningSinceBoot
<1> QED
  BY <1>1, Layered, PTL

\* A job that is not idempotent is started at most once for its creation and once
\* for each resume, whatever processes, heartbeats, commands and restarts do: no
\* recovery gives it a start.
THEOREM NonIdempotentStarts == Spec => []NonIdempotentRunsOnce
<1>1. Layers => NonIdempotentRunsOnce
  BY DEF Layers, IInv, Core, TableOK, RowOK, NonIdempotentRunsOnce
<1> QED
  BY <1>1, Layered, PTL

\* A start of start_on_worker counts as an attempt, and neither a result, a
\* recovery nor a restart of the Core changes the count of a job, unless an UPDATE of
\* that very job has written back the attempt that its caller read before a start.
THEOREM EachStartCounts == Spec => []AttemptsAreStarts
<1>1. Layers => AttemptsAreStarts
  BY DEF Layers, CountsOK, AttemptsAreStarts
<1> QED
  BY <1>1, Layered, PTL

\* A worker whose handle is idle, which the scheduler may claim at any moment,
\* executes no job according to the table, whatever is cancelled, paused, lost or
\* reported late: whoever clears the busy flag, or puts a fresh handle in the map, does
\* so after the job has been taken from it. Only a job that a command has written back
\* to a worker it had left may be with an idle one.
THEOREM IdleOwnsNothing == Spec => []IdleWorkerOwnsNothing
<1>1. Layers => IdleWorkerOwnsNothing
  BY DEF Layers, IInv, Core, HandlesOK, SpawnedBy, Owners, Fit, Held,
         IdleWorkerOwnsNothing
<1> QED
  BY <1>1, Layered, PTL

\* No two jobs are with one worker by having been started on it, however claims,
\* results, recoveries, commands and restarts interleave; a job that a command has
\* written back to a worker since is not counted.
THEOREM AtMostOneJob == Spec => []OneJobPerWorker
<1>1. Layers => OneJobPerWorker
  BY DEF Layers, Owners, Fit, Held, OneJobPerWorker
<1> QED
  BY <1>1, Layered, PTL

\* While nobody stalls, a busy flag stands for a job in the table, a dispatch
\* under way, a process that is gone, or a job of that worker that an UPDATE has taken
\* without its caller knowing of the worker: nothing else leaks a worker.
THEOREM BusyHasAReason == Spec => []BusyForAReason
<1>1. Layers => BusyForAReason
  <2>1. ASSUME Layers, aux.stalls = 0, NEW w \in handles \cap busy, process[w] # "EXITED"
        PROVE  (\E j \in Jobs : Owns(w, j)) \/ w \in Claimed \/ Robbed(w)
    <3>1. w \in Workers
      BY <2>1 DEF Layers, IInv, Core, HandlesOK, SpawnedBy
    <3>2. Had(w) # {} \/ w \in Claimed
      BY <2>1, <3>1 DEF Layers, SteadyOK, Steady, InStep
    <3> QED
      BY <3>2 DEF Had, Owned, Robbed
  <2> QED
    BY <2>1 DEF BusyForAReason
<1> QED
  BY <1>1, Layered, PTL

\* While nobody stalls, a job that a living process executes, or is about to read
\* from its pipe, is one the table says it executes, or one that an UPDATE has taken
\* from it without its caller knowing: a result of another worker, a cancellation that
\* read the job before it was started, a pause that read it before it was started
\* again. No loss, recovery, restart or dispatch does that.
THEOREM ExecutionsAreOwned == Spec => []ExecutedIsOwned
<1>1. Layers => ExecutedIsOwned
  <2>1. ASSUME Layers, aux.stalls = 0, NEW w \in Workers, NEW j \in Jobs, Executing(w, j)
        PROVE  Owns(w, j) \/ <<w, j>> \in aux.taken
    <3>1. Due(w) \subseteq Had(w)
      BY <2>1 DEF Layers, SteadyOK, Steady, InStep
    <3>2. CASE \E e \in running[w] : e.job = j /\ ~e.done
      <4>1. j \in Due(w)
        BY <3>2, <2>1 DEF Executing, Due, Work, Early, Executed, Undone
      <4> QED
        BY <3>1, <4>1 DEF Had, Owned
    <3>3. CASE \E i \in 1..Len(inbox[w]) : inbox[w][i] = Dispatch(j)
      <4>1. PICK i \in DOMAIN inbox[w] : inbox[w][i] = Dispatch(j)
        <5>1. inbox[w] \in Seq(Inputs)
          BY <2>1 DEF Layers, IInv, Pipes, InboxOK
        <5> QED
          BY <3>3, <5>1, LenProperties
      <4>2. Dispatch(j).type = "JOB_DISPATCH" /\ Dispatch(j).job = j
        BY DEF Dispatch
      <4>3. j \in Dispatched(w)
        BY <4>1, <4>2 DEF Dispatched, JobsIn, At
      <4>4. j \in Due(w)
        BY <2>1, <4>3 DEF Executing, Due, Work, Early
      <4> QED
        BY <3>1, <4>4 DEF Had, Owned
    <3> QED
      BY <2>1, <3>2, <3>3 DEF Executing
  <2> QED
    BY <2>1 DEF ExecutedIsOwned
<1> QED
  BY <1>1, Layered, PTL
=============================================================================
