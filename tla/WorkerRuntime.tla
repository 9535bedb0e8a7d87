--------------------------- MODULE WorkerRuntime ---------------------------
(***************************************************************************)
(* Running jobs on worker processes: src/core/src/worker_runtime.rs (the   *)
(* scheduler, liveness and control loops and one reader per process),      *)
(* worker_registry.rs, the job commands of command_service.rs, and the     *)
(* Python process of src/workers/sdk/runtime.py, over table jobs.          *)
(*                                                                         *)
(* The tasks of the Core run concurrently and meet in the database, in the *)
(* map of worker handles and in unbounded channels. task[t] is where a     *)
(* task stands between two statements. The statements of one operation are *)
(* separate steps where another task can do something in between that the  *)
(* operation would notice; JobEngine has every statement of every          *)
(* operation. job_events and PROGRESS messages, which only write that log, *)
(* are left out, and all workers have the capability that all jobs need.   *)
(***************************************************************************)
EXTENDS JobRows, Sequences

CONSTANTS Jobs,         \* numbers, in order of creation
          Users,        \* tasks that execute job commands
          Generation,   \* [Workers -> Nat]: the start of the Core that spawns it
          Idempotent,   \* the jobs that are idempotent
          BadInput,     \* the jobs that prepare_dispatch rejects
          MaxAttempts,  \* [Jobs -> Nat]: max_attempts of each job
          Commands,     \* which of PAUSE, RESUME, CANCEL users issue
          MaxCommands,  \* bound on the commands issued
          Outcomes,     \* how handlers may end: COMPLETED, INVALID, FAILED
          Faults,       \* which of EXIT, STALL, CRASH happen
          MaxStalls,    \* bound on the stalls
          MaxBoots      \* bound on the starts of the Core

ASSUME JobsAssumption == Jobs \subseteq Nat
ASSUME GenerationAssumption == Generation \in [Workers -> Nat]
ASSUME TasksAssumption ==
    /\ {"scheduler", "liveness", "control"} \cap (Workers \cup Users) = {}
    /\ Workers \cap Users = {}
ASSUME OutcomesAssumption == Outcomes \subseteq {"COMPLETED", "INVALID", "FAILED"}
ASSUME AttemptsAssumption == MaxAttempts \in [Jobs -> Nat]

VARIABLES job,      \* [Jobs -> Rows]: table jobs
          health,   \* [Workers -> {"NONE", "HEALTHY", "LOST"}]: worker_registrations
          stale,    \* workers whose last accepted heartbeat is before the cutoff
          handles,  \* keys of the map of worker handles
          busy,     \* workers whose busy flag is set
          broken,   \* workers whose writer task has ended
          inbox,    \* [Workers -> Seq(messages)]: channel and pipe to the process
          outbox,   \* [Workers -> Seq(messages)]: pipe from the process
          process,  \* [Workers -> {"OFF", "UP", "EXITED"}]
          running,  \* [Workers -> SUBSET executions]: _active_jobs of the process
          control,  \* queue of RuntimeControl messages
          task,     \* [Tasks -> where the task stands]
          issued,   \* commands issued so far
          boots,    \* starts of the Core so far
          aux       \* history: [starts, resumes : [Jobs -> Nat], stalls : Nat,
                    \*           forgotten : jobs whose attempts an UPDATE set back,
                    \*           given : jobs that an UPDATE gave to a worker they
                    \*             were not started on,
                    \*           taken : <<worker, job>> pairs, of a job that an
                    \*             UPDATE took from a worker its caller did not know]

table == <<job, aux>>
registry == <<health, stale>>
map == <<handles, busy>>
pipes == <<broken, inbox, outbox>>
workers == <<process, running>>
vars == <<job, health, stale, handles, busy, broken, inbox, outbox, process,
          running, control, task, issued, boots, aux>>

Tasks == {"scheduler", "liveness", "control"} \cup Users \cup Workers

Idle == [op |-> "idle"]
Closed == [op |-> "closed"]   \* the reader of a process that is not running

Results == {"COMPLETED", "INVALID", "FAILED", "CANCELLED", "PAUSED"}

Register == [type |-> "REGISTER"]
Result(j, outcome) == [type |-> "JOB_RESULT", job |-> j, outcome |-> outcome]
Dispatch(j) == [type |-> "JOB_DISPATCH", job |-> j]
Execution(j) == [job |-> j, cancel |-> FALSE, pause |-> FALSE, done |-> FALSE]

Owns(w, j) == job[j].worker = w /\ job[j].state \in Active

\* The worker that the scheduler has claimed and not yet given its job.
Claimed == IF task["scheduler"].op \in {"start", "send"}
           THEN {task["scheduler"].worker} ELSE {}

SpawnedBy(boot) == {w \in Workers : Generation[w] = boot}

Init ==
    /\ job = [j \in Jobs |-> [NewRow(MaxAttempts[j], j \in Idempotent)
                                EXCEPT !.state = "READY"]]
    /\ health = [w \in Workers |-> "NONE"]
    /\ stale = {} /\ handles = {} /\ busy = {} /\ broken = {}
    /\ process = [w \in Workers |-> IF w \in SpawnedBy(1) THEN "UP" ELSE "OFF"]
    /\ inbox = [w \in Workers |-> <<>>]
    /\ outbox = [w \in Workers |-> IF w \in SpawnedBy(1) THEN <<Register>> ELSE <<>>]
    /\ running = [w \in Workers |-> {}]
    /\ control = <<>>
    /\ task = [t \in Tasks |-> IF t \in Workers \ SpawnedBy(1) THEN Closed ELSE Idle]
    /\ issued = 0
    /\ boots = 1
    /\ aux = [starts |-> [j \in Jobs |-> 0], resumes |-> [j \in Jobs |-> 0],
              stalls |-> 0, forgotten |-> {}, given |-> {}, taken |-> {}]

Goto(t, record) == task' = [task EXCEPT ![t] = record]
To(w, message) == inbox' = [inbox EXCEPT ![w] = Append(@, message)]
From(w, message) == outbox' = [outbox EXCEPT ![w] = Append(@, message)]

\* Mutants of Recovered: a PAUSING job is forgotten, and the worker is not looked
\* at.
RecoveredRunning(w) ==
    [j \in Jobs |-> IF Owns(w, j) /\ job[j].state = "RUNNING"
                    THEN ReleasedRow(job[j], recovery_target(job[j])) ELSE job[j]]

RecoveredAll(w) ==
    [j \in Jobs |-> IF job[j].state \in Active
                    THEN ReleasedRow(job[j], recovery_target(job[j])) ELSE job[j]]

\* recover_worker_lost: its SELECT and UPDATEs for one worker.
Recovered(w) ==
    [j \in Jobs |-> IF Owns(w, j) THEN ReleasedRow(job[j], recovery_target(job[j]))
                                  ELSE job[j]]
-----------------------------------------------------------------------------
(* The scheduler loop: dispatch_ready_jobs *)

\* queue: the jobs it has still to look at, in order of creation.
Scan(queue) == IF queue = {} THEN Idle ELSE [op |-> "scan", queue |-> queue]

IsNext(j, queue) == j \in queue /\ \A i \in queue : j <= i

list_ready ==
    LET ready == {j \in Jobs : job[j].state = "READY" /\ job[j].worker = NULL} IN
    /\ task["scheduler"] = Idle
    /\ ready # {}
    /\ Goto("scheduler", Scan(ready))
    /\ UNCHANGED <<table, registry, map, pipes, workers, control, issued, boots>>

\* claim_idle_worker finds none: the next job.
NoIdleWorker ==
    LET s == task["scheduler"] IN
    /\ s.op = "scan"
    /\ handles \subseteq busy
    /\ \E j \in s.queue : IsNext(j, s.queue) /\ Goto("scheduler", Scan(s.queue \ {j}))
    /\ UNCHANGED <<table, registry, map, pipes, workers, control, issued, boots>>

\* prepare_dispatch rejects the job. The worker is released, and the error of
\* jobs.fail, which may not fail a job that is not being executed, ends the
\* tick: the jobs behind it are not looked at.
PrepareFails ==
    LET s == task["scheduler"] IN
    /\ s.op = "scan"
    /\ handles \ busy # {}
    /\ \E j \in BadInput : /\ IsNext(j, s.queue)
                            /\ ~can_transition(job[j].state, "FAILED")
    /\ Goto("scheduler", Idle)
    /\ UNCHANGED <<table, registry, map, pipes, workers, control, issued, boots>>

\* The checks of start_on_worker, on the row and the health as they are now.
Startable(w, j) ==
    /\ job[j].state = "READY"
    /\ health[w] = "HEALTHY"
    /\ job[j].attempt + 1 <= job[j].max

\* Mutant of Claim: the busy flag is read and not set.
ClaimUnmarked(w) == busy' = busy

\* claim_idle_worker takes w.
Claim(w) == busy' = busy \cup {w}

\* An idle worker is claimed and start_on_worker makes its SELECTs.
ClaimWorker ==
    LET s == task["scheduler"] IN
    /\ s.op = "scan"
    /\ \E w \in handles \ busy, j \in Jobs \ BadInput :
         /\ IsNext(j, s.queue)
         /\ IF Startable(w, j)
            THEN /\ Claim(w)
                 /\ Goto("scheduler", [op |-> "start", queue |-> s.queue \ {j},
                                       job |-> j, worker |-> w, snap |-> job[j]])
            ELSE Goto("scheduler", Scan(s.queue \ {j})) /\ UNCHANGED busy
    /\ UNCHANGED <<table, registry, handles, pipes, workers, control, issued, boots>>

\* The scheduler clears the flag through its copy of the handle.
Unclaim(w) == busy' = busy \ {w}

\* The UPDATE of start_on_worker.
start_on_worker ==
    LET s == task["scheduler"]
        row == job[s.job] IN
    /\ s.op = "start"
    /\ IF row.state = "READY" /\ row.worker = NULL
       THEN /\ job' = [job EXCEPT ![s.job] = StartedRow(row, s.snap, s.worker)]
            /\ aux' = [aux EXCEPT !.starts[s.job] = @ + 1, !.given = @ \ {s.job}]
            /\ Goto("scheduler", [op |-> "send", queue |-> s.queue, job |-> s.job,
                                  worker |-> s.worker])
            /\ UNCHANGED busy
       ELSE /\ Unclaim(s.worker)
            /\ Goto("scheduler", Scan(s.queue))
            /\ UNCHANGED table
    /\ UNCHANGED <<registry, handles, pipes, workers, control, issued, boots>>

\* The message goes into the channel, whether or not the process still reads
\* it; only a writer that has ended makes the send fail.
SendDispatch ==
    LET s == task["scheduler"] IN
    /\ s.op = "send"
    /\ Goto("scheduler", Scan(s.queue))
    /\ IF s.worker \in broken
       THEN /\ Unclaim(s.worker)
            /\ handles' = handles \ {s.worker}
            /\ job' = Recovered(s.worker)
            /\ UNCHANGED inbox
       ELSE To(s.worker, Dispatch(s.job)) /\ UNCHANGED <<job, map>>
    /\ UNCHANGED <<aux, registry, broken, outbox, workers, control, issued, boots>>

\* The writer task ends when it writes to a process that has exited.
WriterEnds(w) ==
    /\ process[w] = "EXITED"
    /\ inbox[w] # <<>>
    /\ broken' = broken \cup {w}
    /\ inbox' = [inbox EXCEPT ![w] = <<>>]
    /\ UNCHANGED <<table, registry, map, outbox, workers, control, task, issued, boots>>
-----------------------------------------------------------------------------
(* The liveness loop: mark_lost_workers_before, then the handles *)

LostScan ==
    LET expired == {w \in stale : health[w] = "HEALTHY"} IN
    /\ task["liveness"] = Idle
    /\ expired # {}
    /\ Goto("liveness", [op |-> "mark", todo |-> expired, marked |-> {}])
    /\ UNCHANGED <<table, registry, map, pipes, workers, control, issued, boots>>

\* The UPDATE checks again that the heartbeat is old.
MarkLost(w) ==
    LET l == task["liveness"] IN
    /\ l.op = "mark"
    /\ w \in l.todo
    /\ IF w \in stale /\ health[w] = "HEALTHY"
       THEN /\ health' = [health EXCEPT ![w] = "LOST"]
            /\ Goto("liveness", [op |-> "recover", todo |-> l.todo \ {w},
                                 marked |-> l.marked \cup {w}, worker |-> w])
       ELSE /\ Goto("liveness", [op |-> "mark", todo |-> l.todo \ {w},
                                 marked |-> l.marked])
            /\ UNCHANGED health
    /\ UNCHANGED <<table, stale, map, pipes, workers, control, issued, boots>>

RecoverMarked ==
    LET l == task["liveness"] IN
    /\ l.op = "recover"
    /\ job' = Recovered(l.worker)
    /\ Goto("liveness", [op |-> "mark", todo |-> l.todo, marked |-> l.marked])
    /\ UNCHANGED <<aux, registry, map, pipes, workers, control, issued, boots>>

RemoveMarked ==
    LET l == task["liveness"] IN
    /\ l.op = "mark"
    /\ l.todo = {}
    /\ handles' = handles \ l.marked
    /\ Goto("liveness", Idle)
    /\ UNCHANGED <<table, registry, busy, pipes, workers, control, issued, boots>>
-----------------------------------------------------------------------------
(* One reader per process: handle_worker_message *)

\* Mutant of release_worker.
release_worker_never(w) == busy' = busy

release_worker(w) == busy' = IF w \in handles THEN busy \ {w} ELSE busy

\* The reader of w takes the next message, of the given type.
Receive(w, type) ==
    /\ task[w] = Idle
    /\ outbox[w] # <<>>
    /\ Head(outbox[w]).type = type
    /\ outbox' = [outbox EXCEPT ![w] = Tail(@)]

register(w) ==
    /\ Receive(w, "REGISTER")
    /\ health' = [health EXCEPT ![w] = "HEALTHY"]
    /\ stale' = stale \ {w}
    /\ handles' = handles \cup {w}
    /\ busy' = busy \ {w}
    /\ UNCHANGED <<table, broken, inbox, workers, control, task, issued, boots>>

\* A heartbeat, from the process to the registry. It is refused when it names a
\* job that is not being executed by w; otherwise it also revives a LOST worker,
\* whose handle stays removed. (A heartbeat that waits in the pipe behind a
\* result is the same as one emitted later.)
heartbeat(w) ==
    /\ process[w] = "UP"
    /\ health[w] # "NONE"
    /\ \A e \in running[w] : Owns(w, e.job)
    /\ health' = [health EXCEPT ![w] = "HEALTHY"]
    /\ stale' = stale \ {w}
    /\ UNCHANGED <<table, map, pipes, workers, control, task, issued, boots>>

\* Mutant of JobResult: the worker is released before the row is written.
JobResultEarly(w) ==
    LET j == Head(outbox[w]).job
        outcome == Head(outbox[w]).outcome IN
    /\ Receive(w, "JOB_RESULT")
    /\ release_worker(w)
    /\ IF job[j].worker = w
       THEN Goto(w, [op |-> "result", job |-> j, outcome |-> outcome])
       ELSE UNCHANGED task
    /\ UNCHANGED <<table, registry, handles, broken, inbox, workers, control,
                   issued, boots>>

\* handle_job_result reads the job and checks that it belongs to w.
JobResult(w) ==
    LET j == Head(outbox[w]).job
        outcome == Head(outbox[w]).outcome IN
    /\ Receive(w, "JOB_RESULT")
    /\ IF job[j].worker = w
       THEN /\ IF outcome = "PAUSED" /\ job[j].state # "PAUSING"
               THEN UNCHANGED task
               ELSE Goto(w, [op |-> "result", job |-> j, outcome |-> outcome])
            /\ UNCHANGED busy
       ELSE /\ IF job[j].state \in Terminal THEN release_worker(w)
                                            ELSE UNCHANGED busy
            /\ UNCHANGED task
    /\ UNCHANGED <<table, registry, handles, broken, inbox, workers, control,
                   issued, boots>>

\* COMPLETED with output that apply_observation_analysis rejects is INVALID.
TargetOf(outcome) ==
    IF outcome = "INVALID" THEN "FAILED" ELSE outcome

\* The SELECT of the transition (or fail) that the result asks for: nothing to
\* do, an illegal edge, or on to the UPDATE.
ResultGet(w) ==
    LET r == task[w]
        row == job[r.job]
        target == TargetOf(r.outcome) IN
    /\ r.op = "result"
    /\ IF can_transition(row.state, target)
       THEN /\ Goto(w, [op |-> "update", job |-> r.job, target |-> target,
                        snap |-> row])
            /\ UNCHANGED busy
       ELSE /\ Goto(w, Idle)
            /\ IF row.state = target THEN release_worker(w) ELSE UNCHANGED busy
    /\ UNCHANGED <<table, registry, handles, pipes, workers, control, issued, boots>>

\* The worker that a call takes the job it writes to be with: a result its own, a
\* cancel none (request_cancel has seen to those), other commands the one they read.
Believed(t) == IF t \in Workers THEN t
               ELSE IF task[t].target = "CANCELLED" THEN NULL ELSE task[t].snap.worker

\* An UPDATE of transition or fail, by task t, writes next to its job, counting
\* resumes. Its condition is the state alone, so another worker may have the job.
Write(t, next, resumes) ==
    LET c == task[t]
        row == job[c.job]
        other == row.state \in Active /\ row.worker \notin {next.worker, Believed(t)} IN
    /\ job' = [job EXCEPT ![c.job] = next]
    /\ aux' = [aux EXCEPT
         !.resumes[c.job] = @ + resumes,
         !.forgotten = IF next.attempt = c.snap.attempt /\ c.snap.attempt # row.attempt
                       THEN @ \cup {c.job} ELSE @,
         !.given = IF other /\ next.worker # NULL THEN @ \cup {c.job} ELSE @,
         !.taken = IF other THEN @ \cup {<<row.worker, c.job>>} ELSE @]

\* Its UPDATE. The worker is released when it succeeds; the error of a state
\* that changed in between leaves the handle busy.
ResultUpdate(w) ==
    LET r == task[w]
        row == job[r.job] IN
    /\ r.op = "update"
    /\ Goto(w, Idle)
    /\ IF row.state = r.snap.state
       THEN /\ Write(w, IF r.target = "FAILED" THEN ReleasedRow(row, "FAILED")
                        ELSE TransitionRow(row, r.snap, r.target), 0)
            /\ release_worker(w)
       ELSE UNCHANGED <<table, busy>>
    /\ UNCHANGED <<registry, handles, pipes, workers, control, issued, boots>>

\* End of the process's output: the handle goes, then its jobs are recovered.
ReaderEnds(w) ==
    /\ task[w] = Idle
    /\ process[w] = "EXITED"
    /\ outbox[w] = <<>>
    /\ handles' = handles \ {w}
    /\ Goto(w, IF health[w] = "NONE" THEN Closed ELSE [op |-> "exited"])
    /\ UNCHANGED <<table, registry, busy, pipes, workers, control, issued, boots>>

RecoverExited(w) ==
    /\ task[w].op = "exited"
    /\ job' = Recovered(w)
    /\ Goto(w, Closed)
    /\ UNCHANGED <<aux, registry, map, pipes, workers, control, issued, boots>>
-----------------------------------------------------------------------------
(* Job commands (execute_new) and the control loop (send_control) *)

Issue(u, kind) ==
    /\ task[u] = Idle
    /\ kind \in Commands
    /\ issued < MaxCommands
    /\ issued' = issued + 1
    /\ UNCHANGED <<registry, map, pipes, workers, boots>>

\* The command is an UPDATE to target of the row it has just read.
UserTransition(u, j, target) ==
    /\ can_transition(job[j].state, target)
    /\ Goto(u, [op |-> "update", job |-> j, target |-> target, snap |-> job[j]])
    /\ UNCHANGED <<table, control>>

\* A job that is PAUSING already has its worker told again.
PauseJob(u, j) ==
    /\ Issue(u, "PAUSE")
    /\ IF job[j].state = "PAUSING"
       THEN /\ control' = Append(control, [type |-> "PAUSE", job |-> j])
            /\ UNCHANGED <<table, task>>
       ELSE UserTransition(u, j, "PAUSING")

ResumeJob(u, j) ==
    /\ Issue(u, "RESUME")
    /\ UserTransition(u, j, "READY")

\* request_cancel reads the job, refuses one that has ended, and leaves one that a
\* worker executes to the worker.
CancelJob(u, j) ==
    /\ Issue(u, "CANCEL")
    /\ job[j].state \notin Terminal
    /\ IF job[j].worker # NULL /\ job[j].state \in Active
       THEN control' = Append(control, [type |-> "CANCEL", job |-> j]) /\ UNCHANGED task
       ELSE Goto(u, [op |-> "cancel", job |-> j]) /\ UNCHANGED control
    /\ UNCHANGED table

\* Otherwise transition reads it again. It may have been started in between: then it
\* is cancelled all the same, and its worker not told.
CancelGet(u) ==
    LET c == task[u]
        row == job[c.job] IN
    /\ c.op = "cancel"
    /\ Goto(u, IF can_transition(row.state, "CANCELLED")
               THEN [op |-> "update", job |-> c.job, target |-> "CANCELLED", snap |-> row]
               ELSE Idle)
    /\ UNCHANGED <<table, registry, map, pipes, workers, control, issued, boots>>

\* The UPDATE; a job that is now PAUSING on a worker has the worker told.
UserUpdate(u) ==
    LET c == task[u]
        row == TransitionRow(job[c.job], c.snap, c.target) IN
    /\ c.op = "update"
    /\ Goto(u, Idle)
    /\ IF job[c.job].state = c.snap.state
       THEN /\ Write(u, row, IF c.target = "READY" THEN 1 ELSE 0)
            /\ control' = IF row.worker # NULL
                          THEN Append(control, [type |-> "PAUSE", job |-> c.job])
                          ELSE control
       ELSE UNCHANGED <<table, control>>
    /\ UNCHANGED <<registry, map, pipes, workers, issued, boots>>

\* The control loop reads the job to find its worker: a job without one, or
\* whose worker has no handle, gets no message.
ReceiveControl ==
    LET c == Head(control)
        w == job[c.job].worker IN
    /\ task["control"] = Idle
    /\ control # <<>>
    /\ control' = Tail(control)
    /\ Goto("control", IF w # NULL /\ w \in handles
                       THEN [op |-> "deliver", message |-> c, worker |-> w] ELSE Idle)
    /\ UNCHANGED <<table, registry, map, pipes, workers, issued, boots>>

DeliverControl ==
    LET c == task["control"] IN
    /\ c.op = "deliver"
    /\ Goto("control", Idle)
    /\ IF c.worker \in broken THEN UNCHANGED inbox ELSE To(c.worker, c.message)
    /\ UNCHANGED <<table, registry, map, broken, outbox, workers, control, issued,
                   boots>>
-----------------------------------------------------------------------------
(* The worker process: workers/sdk/runtime.py *)

\* The main thread handles the next message. Control messages for a job that
\* is not active are dropped; a job that is still active is refused.
HandleMessage(w) ==
    LET m == Head(inbox[w])
        mine == {e \in running[w] : e.job = m.job} IN
    /\ process[w] = "UP"
    /\ inbox[w] # <<>>
    /\ inbox' = [inbox EXCEPT ![w] = Tail(@)]
    /\ IF m.type = "JOB_DISPATCH" /\ mine # {}
       THEN From(w, Result(m.job, "FAILED")) /\ UNCHANGED running
       ELSE /\ running' = [running EXCEPT ![w] =
                 CASE m.type = "JOB_DISPATCH" -> @ \cup {Execution(m.job)}
                   [] m.type = "CANCEL" ->
                        (@ \ mine) \cup {[e EXCEPT !.cancel = TRUE] : e \in mine}
                   [] m.type = "PAUSE" ->
                        (@ \ mine) \cup {[e EXCEPT !.pause = TRUE] : e \in mine}]
            /\ UNCHANGED outbox
    /\ UNCHANGED <<table, registry, map, broken, process, control, task, issued,
                   boots>>

\* The thread of a job: the handler ends, by itself or because it was asked to,
\* and the result is written. An exception (FAILED) takes precedence.
JobThread(w) ==
    \E e \in running[w], outcome \in Outcomes :
      /\ ~e.done
      /\ From(w, Result(e.job, IF outcome = "FAILED" THEN "FAILED"
                               ELSE IF e.cancel THEN "CANCELLED"
                               ELSE IF e.pause THEN "PAUSED"
                               ELSE outcome))
      /\ running' = [running EXCEPT ![w] = (@ \ {e}) \cup {[e EXCEPT !.done = TRUE]}]
      /\ UNCHANGED <<table, registry, map, broken, inbox, process, control, task,
                     issued, boots>>

\* Only then does the thread drop its job from the active jobs.
JobThreadEnds(w) ==
    /\ \E e \in running[w] : e.done /\ running' = [running EXCEPT ![w] = @ \ {e}]
    /\ UNCHANGED <<table, registry, map, pipes, process, control, task, issued, boots>>
-----------------------------------------------------------------------------
(* What goes wrong *)

\* A process dies; what it has written can still be read.
WorkerExits(w) ==
    /\ "EXIT" \in Faults
    /\ process[w] = "UP"
    /\ process' = [process EXCEPT ![w] = "EXITED"]
    /\ running' = [running EXCEPT ![w] = {}]
    /\ inbox' = [inbox EXCEPT ![w] = <<>>]
    /\ UNCHANGED <<table, registry, map, broken, outbox, control, task, issued, boots>>

\* WORKER_LOST_AFTER_SECONDS pass without a heartbeat.
Expire(w) ==
    /\ health[w] = "HEALTHY"
    /\ stale' = stale \cup {w}
    /\ UNCHANGED <<job, health, map, pipes, workers, control, task, issued, boots>>

\* That is long for the Core: by then the reader has seen a dead process's end,
\* and an operation of the scheduler on the worker is over.
DeadExpires(w) ==
    /\ process[w] = "EXITED"
    /\ task[w] = Closed
    /\ w \notin Claimed
    /\ Expire(w)
    /\ UNCHANGED aux

\* Unless the Core, or a process that is alive, stalls for that long.
Stalls(w) ==
    /\ "STALL" \in Faults
    /\ aux.stalls < MaxStalls
    /\ Expire(w)
    /\ aux' = [aux EXCEPT !.stalls = @ + 1]

\* Mutant of recover_interrupted: only jobs no worker is named for.
recover_interrupted_unassigned ==
    [j \in Jobs |-> IF job[j].state = "RUNNING" /\ job[j].worker = NULL
                    THEN ReleasedRow(job[j], recovery_target(job[j])) ELSE job[j]]

recover_interrupted ==
    [j \in Jobs |-> IF job[j].state = "RUNNING"
                    THEN ReleasedRow(job[j], recovery_target(job[j])) ELSE job[j]]

\* The Core stops, and its workers with it, and starts again: recover_interrupted
\* runs before the loops, and processes with new ids are spawned.
Restart ==
    LET new == SpawnedBy(boots + 1) IN
    /\ "CRASH" \in Faults
    /\ boots < MaxBoots
    /\ boots' = boots + 1
    /\ job' = recover_interrupted
    /\ handles' = {} /\ busy' = {} /\ broken' = {}
    /\ process' = [w \in Workers |-> IF w \in new THEN "UP"
                                     ELSE IF process[w] = "OFF" THEN "OFF"
                                     ELSE "EXITED"]
    /\ inbox' = [w \in Workers |-> <<>>]
    /\ outbox' = [w \in Workers |-> IF w \in new THEN <<Register>> ELSE <<>>]
    /\ running' = [w \in Workers |-> {}]
    /\ control' = <<>>
    /\ task' = [t \in Tasks |-> IF t \in Workers \ new THEN Closed ELSE Idle]
    /\ UNCHANGED <<aux, registry, issued>>
-----------------------------------------------------------------------------
Scheduler == list_ready \/ NoIdleWorker \/ PrepareFails \/ ClaimWorker
               \/ start_on_worker \/ SendDispatch

Liveness == LostScan \/ (\E w \in Workers : MarkLost(w)) \/ RecoverMarked
              \/ RemoveMarked

Reader(w) == register(w) \/ JobResult(w) \/ ResultGet(w) \/ ResultUpdate(w)
               \/ ReaderEnds(w) \/ RecoverExited(w)

Control == ReceiveControl \/ DeliverControl

Process(w) == HandleMessage(w) \/ JobThread(w) \/ JobThreadEnds(w)

Command(u) == \E j \in Jobs : PauseJob(u, j) \/ ResumeJob(u, j) \/ CancelJob(u, j)

Fault == Restart \/ \E w \in Workers : WorkerExits(w) \/ Stalls(w)

Next ==
    \/ Scheduler
    \/ Liveness
    \/ Control
    \/ \E w \in Workers : \/ Reader(w)
                          \/ Process(w)
                          \/ heartbeat(w)
                          \/ WriterEnds(w)
                          \/ DeadExpires(w)
    \/ \E u \in Users : Command(u) \/ CancelGet(u) \/ UserUpdate(u)
    \/ Fault

Spec == Init /\ [][Next]_vars

\* The loops tick for ever, tasks that can run do, the process reads its input
\* and its handlers end, and time passes for a dead process. Nobody has to
\* issue a command, and no fault has to happen.
FairSpec ==
    /\ Spec
    /\ WF_vars(Scheduler) /\ WF_vars(Liveness) /\ WF_vars(Control)
    /\ \A w \in Workers : /\ WF_vars(Reader(w)) /\ WF_vars(Process(w))
                          /\ WF_vars(heartbeat(w)) /\ WF_vars(WriterEnds(w))
                          /\ WF_vars(DeadExpires(w))
    /\ \A u \in Users : WF_vars(CancelGet(u) \/ UserUpdate(u))
-----------------------------------------------------------------------------
Messages == {Register} \cup {Result(j, o) : j \in Jobs, o \in Results}

TypeOK ==
    /\ job \in [Jobs -> Rows]
    /\ health \in [Workers -> {"NONE", "HEALTHY", "LOST"}]
    /\ stale \subseteq Workers /\ handles \subseteq Workers
    /\ busy \subseteq Workers /\ broken \subseteq Workers
    /\ process \in [Workers -> {"OFF", "UP", "EXITED"}]
    /\ \A w \in Workers :
         /\ \A i \in 1..Len(outbox[w]) : outbox[w][i] \in Messages
         /\ running[w] \subseteq [job : Jobs, cancel : BOOLEAN, pause : BOOLEAN,
                                  done : BOOLEAN]
    /\ DOMAIN task = Tasks

\* The workers the liveness loop has marked LOST and still has to clean up.
BeingLost == IF task["liveness"].op \in {"mark", "recover"}
             THEN task["liveness"].marked ELSE {}

\* Safety: a worker the scheduler may give a job to executes none: whoever clears
\* a busy flag has first taken the worker's job from it, also when a worker is
\* lost, its result is late or the job was cancelled. Only a command that writes a job
\* after it was started elsewhere names a worker that does not have it.
IdleWorkerOwnsNothing ==
    \A w \in handles \ busy, j \in Jobs : Owns(w, j) => j \in aux.given

\* Safety: a worker executes one job at a time, as far as the table knows, and counting
\* the jobs that were started on it.
OneJobPerWorker ==
    \A w \in Workers, i, j \in Jobs \ aux.given : Owns(w, i) /\ Owns(w, j) => i = j

\* Safety: unless somebody stalls, a worker is never busy for nothing. A busy flag
\* nobody will clear takes the worker out of scheduling for good. Who has had a job
\* taken from it behind its back is busy with that.
Robbed(w) == \E j \in Jobs : <<w, j>> \in aux.taken
BusyForAReason ==
    aux.stalls = 0 =>
      \A w \in handles \cap busy :
        \/ \E j \in Jobs : Owns(w, j)
        \/ w \in Claimed \cup BeingLost
        \/ task[w].op = "exited" \/ process[w] = "EXITED"
        \/ Robbed(w)

\* Safety: each start counts as an attempt, and no attempt of a job is forgotten but by
\* an UPDATE of it that writes back what it read before a start.
AttemptsAreStarts ==
    \A j \in Jobs \ aux.forgotten : job[j].attempt = aux.starts[j]

\* Safety: a job that is not idempotent (and has no checkpoint) is started again
\* only when a user resumes it, whatever happens to its worker.
NonIdempotentRunsOnce ==
    \A j \in Jobs \ Idempotent : aux.starts[j] <= 1 + aux.resumes[j]

\* Safety: unless somebody stalls, what a process executes, or is about to, is a
\* job that the table says it executes, but for a job that an UPDATE has taken from it
\* whose caller took it to be elsewhere. So no two processes execute the same
\* job, nothing executes a job that is PAUSED, READY or finished, and the
\* dispatch, the result, the recovery and the next start are never out of step.
Executing(w, j) ==
    /\ process[w] = "UP"
    /\ \/ \E e \in running[w] : e.job = j /\ ~e.done
       \/ \E i \in 1..Len(inbox[w]) : inbox[w][i] = Dispatch(j)
ExecutedIsOwned ==
    aux.stalls = 0 =>
      \A w \in Workers, j \in Jobs :
        Executing(w, j) => Owns(w, j) \/ <<w, j>> \in aux.taken

\* Safety: a RUNNING job belongs to a process that this start of the Core
\* spawned: recovery leaves no job RUNNING from before.
RunningSinceBoot ==
    \A j \in Jobs : job[j].state = "RUNNING" =>
                      Generation[job[j].worker] = boots

\* Liveness: as long as nobody issues a command, every job ends, wherever processes die
\* and the Core stops, with its last attempt used up or not, unless in the end no
\* living process has a handle: processes are spawned only when the Core starts.
JobsFinish ==
    [](issued = 0) =>
      \/ \A j \in Jobs : <>(job[j].state \in Terminal)
      \/ <>[](\A w \in handles : process[w] # "UP")

\* A PAUSING job of a LOST worker, which no start of the Core and no scan looks at: the
\* Core stopped when it had marked the worker and not yet recovered the job, or a
\* command has given the job back to the worker since.
LeftPausing(w, j) ==
    /\ job[j].state = "PAUSING" /\ health[w] = "LOST"
    /\ Generation[w] # boots \/ j \in aux.given

\* Liveness: a job whose worker process is dead is taken from it, but for those.
DeadLoseTheirJobs ==
    \A w \in Workers, j \in Jobs :
      (Owns(w, j) /\ process[w] = "EXITED") ~> (~Owns(w, j) \/ LeftPausing(w, j))
=============================================================================
