--------------------- MODULE ObservationAnalysisProofs ---------------------
(***************************************************************************)
(* What the Core and the vision process guarantee of observations and      *)
(* their analysis jobs, for any images, workers, exits and starts.         *)
(***************************************************************************)
EXTENDS ObservationAnalysis, FiniteSetTheorems, TLAPS

Previews == {"none", "part", "whole"}
Files == {"absent", "part", "whole"}
Processes == {"off", "up", "lost", "orphan", "exited", "gone"}
Threads == [op : {"read", "measured", "writing", "completed", "failed"},
            job : Observations] \cup {Idle}
Readers == [op : {"completed", "failed", "import", "remove", "apply", "complete", "fail"},
            job : Observations, preview : Previews] \cup {Idle}

Types ==
    /\ observation \in [Observations -> [state : {"NONE", "PENDING", "COMPLETED"},
                                         preview : Previews]]
    /\ job \in [Observations -> Rows]
    /\ output \in [Observations -> Files]
    /\ opener \in [Observations -> Workers \cup {NULL}]
    /\ process \in [Workers -> Processes]
    /\ handler \in [Workers -> Threads]
    /\ reader \in [Workers -> Readers]
    /\ boots \in Nat /\ boots > 0 /\ exits \in Nat /\ overlaps \in Nat

\* The row of an analysis: it is as it was created, but for state, attempt and worker.
RowOK(row) ==
    \/ row = NoRow
    \/ /\ row.max = 2 /\ row.idempotent = TRUE /\ row.checkpoint = FALSE
       /\ row.attempt <= 2
       /\ row.state \in {"CREATED", "READY", "RUNNING", "FAILED", "COMPLETED"}
       /\ row.state = "RUNNING" => row.worker \in Workers

\* What has been analysed when a reader is about to complete a job, or has.
Analysed(o) == observation[o].state = "COMPLETED" /\ observation[o].preview # "none"

ResultOK(w) ==
    reader[w] # Idle =>
      /\ reader[w].op \in {"remove", "apply"} => reader[w].preview # "none"
      /\ reader[w].op = "complete" => Analysed(reader[w].job)

\* Only a process that may work has a thread at work.
WorksOK(w) == process[w] \in {"off", "exited", "gone"} => handler[w] = Idle

\* All this holds whatever the Core has lost sight of.
Known ==
    /\ Types
    /\ \A o \in Observations : RowOK(job[o])
    /\ \A w \in Workers : ResultOK(w) /\ WorksOK(w)
    /\ CompletedIsAnalysed

\* While the Core knows of every process that works, a worker has to itself the job
\* that its thread or its reader is about, and with it the preview's path.
ThreadOK(w) ==
    LET o == handler[w].job IN
    handler[w] # Idle =>
      /\ process[w] = "up" /\ reader[w] = Idle
      /\ job[o].state = "RUNNING" /\ job[o].worker = w
      /\ handler[w].op = "writing" => output[o] = "part" /\ opener[o] = w
      /\ handler[w].op = "completed" => output[o] = "whole"
      /\ handler[w].op = "failed" => Raises[o] # "never"

ReaderOK(w) ==
    LET o == reader[w].job IN
    reader[w] # Idle =>
      /\ job[o].state = "RUNNING" /\ job[o].worker = w
      /\ reader[w].op \in {"completed", "import"} => output[o] = "whole"
      /\ reader[w].op \in {"remove", "apply"} => reader[w].preview = "whole"
      /\ reader[w].op \in {"failed", "fail"} => Raises[o] # "never"

\* Every attempt but the first was made possible by a death or a start.
AttemptOK(o) ==
    LET row == job[o]
        interruptions == boots + exits IN
    /\ row.state \in {"CREATED", "READY"} => interruptions > row.attempt
    /\ row.state = "RUNNING" => /\ interruptions >= row.attempt
                                /\ process[row.worker] = "exited" =>
                                     interruptions > row.attempt
    /\ row.state = "FAILED" =>
         Raises[o] # "never" \/ (row.attempt = 2 /\ interruptions > 2)

Exclusive ==
    /\ \A w \in Workers : process[w] \notin {"lost", "orphan"}
    /\ \A w \in Workers : ThreadOK(w) /\ ReaderOK(w)
    /\ \A o \in Observations : AttemptOK(o) /\ observation[o].preview # "part"

IInv == Known /\ (overlaps = 0 => Exclusive)
-----------------------------------------------------------------------------
LEMMA InitInv == Init => IInv
<1> SUFFICES ASSUME Init PROVE IInv
  OBVIOUS
<1>1. NoRow \in Rows /\ RowOK(NoRow) /\ NoRow.state = "NONE"
  BY DEF NoRow, Rows, RowOK
<1>2. Types
  BY <1>1 DEF Init, Types, Previews, Files, Processes, Threads, Readers
<1>3. Known
  BY <1>1, <1>2 DEF Init, Known, ResultOK, WorksOK, CompletedIsAnalysed
<1>4. Exclusive
  BY <1>1 DEF Init, Exclusive, ThreadOK, ReaderOK, AttemptOK
<1> QED
  BY <1>3, <1>4 DEF IInv

\* What the statements write into a row.
LEMMA Fresh ==
    ASSUME NEW row, row.max = 2, row.idempotent = TRUE, row.checkpoint = FALSE,
           row.attempt = 0, row.state = "CREATED"
    PROVE  RowOK(row)
BY DEF RowOK

LEMMA Created ==
    ASSUME NEW new, new = NewRow(2, TRUE)
    PROVE  new \in Rows /\ RowOK(new) /\ new.state = "CREATED" /\ new.attempt = 0
<1>1. /\ new.max = 2 /\ new.attempt = 0 /\ new.idempotent = TRUE
      /\ new.checkpoint = FALSE /\ new.state = "CREATED"
  BY DEF NewRow, NoRow
<1>2. new \in Rows
  BY DEF NewRow, NoRow, Rows, JobStates
<1>3. RowOK(new)
  BY <1>1, Fresh
<1> QED
  BY <1>1, <1>2, <1>3

LEMMA Present ==
    ASSUME NEW row \in Rows, RowOK(row), row.state # "NONE"
    PROVE  /\ row.max = 2 /\ row.idempotent = TRUE /\ row.checkpoint = FALSE
           /\ row.attempt \in 0..2
           /\ row.state \in {"CREATED", "READY", "RUNNING", "FAILED", "COMPLETED"}
<1>1. row.attempt \in Nat
  BY DEF Rows
<1> QED
  BY <1>1 DEF RowOK, NoRow

LEMMA Started ==
    ASSUME NEW row \in Rows, RowOK(row), row.state = "READY", row.attempt < row.max,
           NEW w \in Workers, NEW next, next = StartedRow(row, row, w)
    PROVE  /\ next \in Rows /\ RowOK(next)
           /\ next.state = "RUNNING" /\ next.worker = w /\ next.attempt = row.attempt + 1
<1>1. /\ row.max = 2 /\ row.idempotent = TRUE /\ row.checkpoint = FALSE
      /\ row.attempt \in 0..2
  BY Present
<1>2. /\ next.state = "RUNNING" /\ next.worker = w /\ next.attempt = row.attempt + 1
      /\ next.max = 2 /\ next.idempotent = TRUE /\ next.checkpoint = FALSE
  BY <1>1 DEF StartedRow, Rows
<1>3. next \in Rows
  <2>1. row.attempt + 1 \in Nat /\ "RUNNING" \in JobStates
    BY <1>1 DEF JobStates
  <2> QED
    BY <2>1 DEF StartedRow, Rows
<1>4. RowOK(next)
  BY <1>1, <1>2 DEF RowOK
<1> QED
  BY <1>2, <1>3, <1>4

LEMMA Completed ==
    ASSUME NEW row \in Rows, RowOK(row), row.state = "RUNNING",
           NEW next, next = TransitionRow(row, row, "COMPLETED")
    PROVE  next \in Rows /\ RowOK(next) /\ next.state = "COMPLETED"
<1>1. /\ row.max = 2 /\ row.idempotent = TRUE /\ row.checkpoint = FALSE
      /\ row.attempt \in 0..2
  BY Present
<1>2. next = [row EXCEPT !.state = "COMPLETED", !.attempt = row.attempt, !.worker = NULL]
  BY DEF TransitionRow, releases_worker, Terminal
<1>3. /\ next.state = "COMPLETED" /\ next.attempt = row.attempt
      /\ next.max = 2 /\ next.idempotent = TRUE /\ next.checkpoint = FALSE
  BY <1>1, <1>2 DEF Rows
<1>4. next \in Rows
  BY <1>1, <1>2 DEF Rows, JobStates
<1> QED
  BY <1>1, <1>3, <1>4 DEF RowOK

LEMMA Resolved ==
    ASSUME NEW row \in Rows, RowOK(row), row.state = "CREATED",
           NEW next, next = TransitionRow(row, row, "READY")
    PROVE  /\ next \in Rows /\ RowOK(next)
           /\ next.state = "READY" /\ next.attempt = row.attempt
<1>1. /\ row.max = 2 /\ row.idempotent = TRUE /\ row.checkpoint = FALSE
      /\ row.attempt \in 0..2
  BY Present
<1>2. next = [row EXCEPT !.state = "READY", !.attempt = row.attempt, !.worker = NULL]
  BY DEF TransitionRow, releases_worker
<1>3. /\ next.state = "READY" /\ next.attempt = row.attempt
      /\ next.max = 2 /\ next.idempotent = TRUE /\ next.checkpoint = FALSE
  BY <1>1, <1>2 DEF Rows
<1>4. next \in Rows
  BY <1>1, <1>2 DEF Rows, JobStates
<1> QED
  BY <1>1, <1>3, <1>4 DEF RowOK

LEMMA Released ==
    ASSUME NEW row \in Rows, RowOK(row), row.state = "RUNNING",
           NEW to \in {"READY", "FAILED"}, NEW next, next = ReleasedRow(row, to)
    PROVE  /\ next \in Rows /\ RowOK(next)
           /\ next.state = to /\ next.attempt = row.attempt
<1>1. /\ row.max = 2 /\ row.idempotent = TRUE /\ row.checkpoint = FALSE
      /\ row.attempt \in 0..2
  BY Present
<1>2. /\ next.state = to /\ next.attempt = row.attempt
      /\ next.max = 2 /\ next.idempotent = TRUE /\ next.checkpoint = FALSE
  BY <1>1 DEF ReleasedRow, Rows
<1>3. next \in Rows
  BY <1>1 DEF ReleasedRow, Rows, JobStates
<1> QED
  BY <1>1, <1>2, <1>3 DEF RowOK

LEMMA Recovers ==
    ASSUME NEW row \in Rows, RowOK(row), row.state = "RUNNING"
    PROVE  /\ recovery_target(row) \in {"READY", "FAILED"}
           /\ recovery_target(row) = "FAILED" => row.attempt = 2
<1>1. /\ row.max = 2 /\ row.idempotent = TRUE /\ row.checkpoint = FALSE
      /\ row.attempt \in 0..2
  BY Present
<1> QED
  BY <1>1 DEF recovery_target

\* A step of one worker on one job, as far as all steps are concerned.
LEMMA KnownStep ==
    ASSUME Known, Types', NEW w \in Workers, NEW o \in Observations,
           \A x \in Workers \ {w} : reader'[x] = reader[x] /\ handler'[x] = handler[x]
                                    /\ process'[x] = process[x],
           \A p \in Observations \ {o} : job'[p] = job[p]
                                         /\ observation'[p] = observation[p],
           Analysed(o) => Analysed(o)', RowOK(job'[o]), ResultOK(w)', WorksOK(w)',
           job'[o].state = "COMPLETED" => job[o].state = "COMPLETED" \/ Analysed(o)'
    PROVE  Known'
<1>1. \A p \in Observations : Analysed(p) => Analysed(p)'
  BY DEF Analysed
<1>2. ASSUME NEW x \in Workers PROVE ResultOK(x)'
  <2>1. CASE x # w
    <3>1. reader[x] # Idle => reader[x].job \in Observations
      BY DEF Known, Types, Readers
    <3> QED
      BY <1>1, <2>1, <3>1 DEF Known, ResultOK
  <2> QED
    BY <2>1
<1>3. \A x \in Workers : WorksOK(x)'
  BY DEF Known, WorksOK
<1>4. \A p \in Observations : RowOK(job'[p])
  BY DEF Known
<1>5. CompletedIsAnalysed'
  BY <1>1 DEF Known, CompletedIsAnalysed, Analysed
<1> QED
  BY <1>2, <1>3, <1>4, <1>5 DEF Known

\* And as far as the steps are concerned that the Core knows of.
LEMMA ExclusiveStep ==
    ASSUME Known, Exclusive, NEW w \in Workers, NEW o \in Observations,
           \A x \in Workers \ {w} : reader'[x] = reader[x] /\ handler'[x] = handler[x],
           \A p \in Observations \ {o} :
             /\ job'[p] = job[p] /\ observation'[p] = observation[p]
             /\ output'[p] = output[p] /\ opener'[p] = opener[p],
           process' = process, boots' = boots, exits' = exits,
           job[o].state # "RUNNING" \/ job[o].worker = w,
           ThreadOK(w)', ReaderOK(w)', AttemptOK(o)', observation'[o].preview # "part"
    PROVE  Exclusive'
<1>1. ASSUME NEW x \in Workers \ {w} PROVE ThreadOK(x)' /\ ReaderOK(x)'
  <2>1. ThreadOK(x) /\ ReaderOK(x)
    BY DEF Exclusive
  <2>2. handler[x] # Idle => handler[x].job \in Observations \ {o}
    BY <2>1 DEF ThreadOK, Known, Types, Threads
  <2>3. reader[x] # Idle => reader[x].job \in Observations \ {o}
    BY <2>1 DEF ReaderOK, Known, Types, Readers
  <2> QED
    BY <2>1, <2>2, <2>3 DEF ThreadOK, ReaderOK
<1>2. ASSUME NEW p \in Observations \ {o} PROVE AttemptOK(p)'
  BY DEF Exclusive, AttemptOK
<1> QED
  BY <1>1, <1>2 DEF Exclusive
-----------------------------------------------------------------------------
(* The import *)

LEMMA CreateImagesInv == IInv /\ create_images => IInv'
<1> SUFFICES ASSUME IInv, create_images PROVE IInv'
  OBVIOUS
<1>1. /\ UNCHANGED <<job, output, opener, process, handler, reader, boots, exits, overlaps>>
      /\ \A o \in Observations : observation[o].state = "NONE"
      /\ observation' = [o \in Observations |-> [state |-> "PENDING", preview |-> "none"]]
  BY DEF create_images, file, bounds
<1>2. Types'
  BY <1>1 DEF IInv, Known, Types, Previews
<1>3. \A w \in Workers : reader[w] # Idle => reader[w].op # "complete"
  BY <1>1 DEF IInv, Known, Types, Readers, ResultOK, Analysed
<1>4. Known'
  BY <1>1, <1>2, <1>3 DEF IInv, Known, ResultOK, WorksOK, CompletedIsAnalysed
<1>5. Exclusive => Exclusive'
  BY <1>1 DEF Exclusive, ThreadOK, ReaderOK, AttemptOK
<1> QED
  BY <1>1, <1>4, <1>5 DEF IInv

\* A row that waits to be started, in the place of one that nobody works on.
LEMMA WaitingInv ==
    ASSUME IInv, NEW o \in Observations, job[o].state \in {"NONE", "CREATED"},
           NEW row \in Rows, RowOK(row), row.state \in {"CREATED", "READY"},
           Exclusive => boots + exits > row.attempt,
           job' = [job EXCEPT ![o] = row],
           UNCHANGED <<observation, output, opener, process, handler, reader, boots,
                       exits, overlaps>>
    PROVE  IInv'
<1>1. /\ Types' /\ job'[o] = row /\ \A p \in Observations \ {o} : job'[p] = job[p]
  BY DEF IInv, Known, Types
<1>2. Known'
  BY <1>1 DEF IInv, Known, ResultOK, WorksOK, CompletedIsAnalysed, Analysed
<1>3. ASSUME Exclusive PROVE Exclusive'
  <2>1. \A w \in Workers : ThreadOK(w)'
    BY <1>1, <1>3 DEF Exclusive, ThreadOK, IInv, Known, Types, Threads
  <2>2. \A w \in Workers : ReaderOK(w)'
    BY <1>1, <1>3 DEF Exclusive, ReaderOK, IInv, Known, Types, Readers
  <2>3. \A p \in Observations : AttemptOK(p)'
    BY <1>1, <1>3 DEF Exclusive, AttemptOK, IInv, Known, Types
  <2> QED
    BY <1>3, <2>1, <2>2, <2>3 DEF Exclusive
<1> QED
  BY <1>2, <1>3 DEF IInv

LEMMA CreateInv ==
    ASSUME IInv, NEW o \in Observations, create_with_input(o)
    PROVE  IInv'
<1>1. PICK row : row = NewRow(2, TRUE)
  OBVIOUS
<1>2. row \in Rows /\ RowOK(row) /\ row.state = "CREATED" /\ row.attempt = 0
  BY <1>1, Created
<1>3. /\ UNCHANGED <<observation, output, opener, process, handler, reader, boots, exits, overlaps>>
      /\ job[o].state = "NONE" /\ job' = [job EXCEPT ![o] = row]
  BY <1>1 DEF create_with_input, NextJob, NoRow, file, bounds
<1>4. boots + exits > row.attempt
  BY <1>2 DEF IInv, Known, Types
<1> QED
  BY <1>2, <1>3, <1>4, WaitingInv

LEMMA ResolveInv ==
    ASSUME IInv, NEW o \in Observations, resolve_dependencies(o)
    PROVE  IInv'
<1>1. PICK row : row = TransitionRow(job[o], job[o], "READY")
  OBVIOUS
<1>2. /\ UNCHANGED <<observation, output, opener, process, handler, reader, boots, exits, overlaps>>
      /\ job[o].state = "CREATED" /\ job' = [job EXCEPT ![o] = row]
  BY <1>1 DEF resolve_dependencies, file, bounds
<1>3. job[o] \in Rows /\ RowOK(job[o])
  BY DEF IInv, Known, Types
<1>4. row \in Rows /\ RowOK(row) /\ row.state = "READY" /\ row.attempt = job[o].attempt
  BY <1>1, <1>2, <1>3, Resolved
<1>5. Exclusive => boots + exits > row.attempt
  BY <1>2, <1>4 DEF Exclusive, AttemptOK
<1> QED
  BY <1>2, <1>4, <1>5, WaitingInv
-----------------------------------------------------------------------------
(* The worker *)

\* The thread of a worker, and the same thread a step further.
LEMMA Working ==
    ASSUME Types, NEW w \in Workers, handler[w].op # "idle"
    PROVE  /\ handler[w] # Idle /\ handler[w].job \in Observations
           /\ handler[w].op \in {"read", "measured", "writing", "completed", "failed"}
BY DEF Types, Threads, Idle

LEMMA Advances ==
    ASSUME Types, NEW w \in Workers, handler[w].op # "idle",
           NEW op \in {"measured", "writing", "completed", "failed"}, Thread(w, op)
    PROVE  /\ handler' \in [Workers -> Threads]
           /\ handler'[w] # Idle /\ handler'[w].op = op /\ handler'[w].job = handler[w].job
           /\ \A x \in Workers \ {w} : handler'[x] = handler[x]
<1>1. PICK t, t2 : t = handler[w] /\ t2 = [t EXCEPT !.op = op]
  OBVIOUS
<1>2. t \in [op : {"read", "measured", "writing", "completed", "failed"},
             job : Observations]
  BY <1>1, Working DEF Types, Threads
<1>3. t2 \in Threads /\ t2 # Idle /\ t2.op = op /\ t2.job = t.job
  BY <1>1, <1>2 DEF Threads, Idle
<1>4. handler' = [handler EXCEPT ![w] = t2]
  BY <1>1 DEF Thread
<1> QED
  BY <1>1, <1>3, <1>4 DEF Types

LEMMA StartInv ==
    ASSUME IInv, NEW w \in Workers, NEW o \in Observations, start_on_worker(w, o)
    PROVE  IInv'
<1>1. PICK row, t : row = StartedRow(job[o], job[o], w) /\ t = [op |-> "read", job |-> o]
  OBVIOUS
<1>2. /\ process[w] = "up" /\ handler[w] = Idle /\ reader[w] = Idle
      /\ job[o].state = "READY" /\ job[o].attempt < job[o].max
      /\ job' = [job EXCEPT ![o] = row] /\ handler' = [handler EXCEPT ![w] = t]
      /\ UNCHANGED <<observation, output, opener, process, reader, boots, exits, overlaps>>
  BY <1>1 DEF start_on_worker, file, bounds
<1>3. /\ row \in Rows /\ RowOK(row)
      /\ row.state = "RUNNING" /\ row.worker = w /\ row.attempt = job[o].attempt + 1
  <2>1. job[o] \in Rows /\ RowOK(job[o])
    BY DEF IInv, Known, Types
  <2> QED
    BY <1>1, <1>2, <2>1, Started
<1>4. t \in Threads /\ t # Idle /\ t.op = "read" /\ t.job = o
  BY <1>1 DEF Threads, Idle
<1>5. /\ job'[o] = row /\ \A p \in Observations \ {o} : job'[p] = job[p]
      /\ handler'[w] = t /\ \A x \in Workers \ {w} : handler'[x] = handler[x]
      /\ Types'
  BY <1>2, <1>3, <1>4 DEF IInv, Known, Types
<1>6. Known'
  <2>1. ResultOK(w)' /\ WorksOK(w)' /\ (Analysed(o) => Analysed(o)')
    BY <1>2 DEF ResultOK, WorksOK, Analysed
  <2> QED
    BY <1>2, <1>3, <1>5, <2>1, KnownStep DEF IInv
<1>7. ASSUME Exclusive PROVE Exclusive'
  <2>1. ThreadOK(w)' /\ ReaderOK(w)'
    BY <1>2, <1>3, <1>4, <1>5 DEF ThreadOK, ReaderOK
  <2>2. AttemptOK(o)'
    BY <1>2, <1>3, <1>5, <1>7 DEF Exclusive, AttemptOK, IInv, Known, Types, Rows
  <2>3. observation'[o].preview # "part"
    BY <1>2, <1>7 DEF Exclusive
  <2> QED
    BY <1>2, <1>5, <1>7, <2>1, <2>2, <2>3, ExclusiveStep DEF IInv
<1> QED
  BY <1>2, <1>6, <1>7 DEF IInv

\* A step of a thread that leaves the tables alone.
LEMMA ThreadStep ==
    ASSUME IInv, NEW w \in Workers, handler[w].op # "idle",
           process[w] \in {"up", "lost", "orphan"},
           NEW o, o = handler[w].job,
           NEW op \in {"measured", "writing", "completed", "failed"}, Thread(w, op),
           UNCHANGED <<observation, job, process, reader, bounds>>,
           output' \in [Observations -> Files],
           opener' \in [Observations -> Workers \cup {NULL}],
           \A p \in Observations \ {o} : output'[p] = output[p] /\ opener'[p] = opener[p],
           Exclusive => /\ op = "writing" => output'[o] = "part" /\ opener'[o] = w
                        /\ op = "completed" => output'[o] = "whole"
                        /\ op = "failed" => Raises[o] # "never"
    PROVE  IInv'
<1>1. /\ handler' \in [Workers -> Threads]
      /\ handler'[w] # Idle /\ handler'[w].op = op /\ handler'[w].job = o
      /\ \A x \in Workers \ {w} : handler'[x] = handler[x]
  BY Advances DEF IInv, Known
<1>2. o \in Observations /\ handler[w] # Idle
  BY Working DEF IInv, Known
<1>3. UNCHANGED <<observation, job, process, reader, boots, exits, overlaps>>
  BY DEF bounds
<1>4. Types'
  BY <1>1, <1>3 DEF IInv, Known, Types
<1>5. Known'
  BY <1>1, <1>3, <1>4 DEF IInv, Known, ResultOK, WorksOK, CompletedIsAnalysed, Analysed
<1>6. ASSUME Exclusive PROVE Exclusive'
  <2>1. ThreadOK(w)
    BY <1>6 DEF Exclusive
  <2>2. ThreadOK(w)' /\ ReaderOK(w)'
    BY <1>1, <1>2, <1>3, <1>6, <2>1 DEF ThreadOK, ReaderOK
  <2>3. /\ AttemptOK(o)' /\ observation'[o].preview # "part"
        /\ job[o].state = "RUNNING" /\ job[o].worker = w
    BY <1>2, <1>3, <1>6, <2>1 DEF Exclusive, AttemptOK, ThreadOK
  <2> QED
    BY <1>1, <1>2, <1>3, <1>6, <2>2, <2>3, ExclusiveStep DEF IInv
<1> QED
  BY <1>3, <1>5, <1>6 DEF IInv

LEMMA AnalyzeInv ==
    ASSUME IInv, NEW w \in Workers, analyze_observation(w)
    PROVE  IInv'
<1>1. PICK o, op : /\ o = handler[w].job
                   /\ op = IF Raises[o] = "read" THEN "failed" ELSE "measured"
  OBVIOUS
<1>2. /\ handler[w].op # "idle" /\ process[w] \in {"up", "lost", "orphan"}
      /\ Thread(w, op) /\ op \in {"measured", "writing", "completed", "failed"}
      /\ op \notin {"writing", "completed"} /\ (op = "failed" => Raises[o] # "never")
      /\ UNCHANGED <<observation, job, process, reader, bounds>>
      /\ UNCHANGED <<output, opener>>
  BY <1>1 DEF analyze_observation, Runs, file
<1>3. output \in [Observations -> Files] /\ opener \in [Observations -> Workers \cup {NULL}]
  BY DEF IInv, Known, Types
<1> QED
  BY <1>1, <1>2, <1>3, ThreadStep

LEMMA OpenInv ==
    ASSUME IInv, NEW w \in Workers, OpenPreview(w)
    PROVE  IInv'
<1>1. PICK o : o = handler[w].job
  OBVIOUS
<1>2. /\ handler[w].op # "idle" /\ process[w] \in {"up", "lost", "orphan"}
      /\ Thread(w, "writing")
      /\ UNCHANGED <<observation, job, process, reader, bounds>>
      /\ output' = [output EXCEPT ![o] = "part"] /\ opener' = [opener EXCEPT ![o] = w]
  BY <1>1 DEF OpenPreview, Runs
<1>3. o \in Observations
  BY <1>1, <1>2, Working DEF IInv, Known
<1>4. /\ output' \in [Observations -> Files]
      /\ opener' \in [Observations -> Workers \cup {NULL}]
      /\ \A p \in Observations \ {o} : output'[p] = output[p] /\ opener'[p] = opener[p]
      /\ output'[o] = "part" /\ opener'[o] = w
  BY <1>2, <1>3 DEF IInv, Known, Types, Files
<1> QED
  BY <1>1, <1>2, <1>4, ThreadStep

LEMMA WriteInv ==
    ASSUME IInv, NEW w \in Workers, WritePreview(w)
    PROVE  IInv'
<1>1. PICK o, op : /\ o = handler[w].job
                   /\ op = IF Raises[o] = "write" THEN "failed" ELSE "completed"
  OBVIOUS
<1>2. /\ handler[w].op = "writing" /\ process[w] \in {"up", "lost", "orphan"}
      /\ Thread(w, op) /\ op \in {"measured", "writing", "completed", "failed"}
      /\ op # "writing" /\ (op = "failed" => Raises[o] # "never")
      /\ UNCHANGED <<observation, job, process, reader, bounds>>
      /\ UNCHANGED opener
      /\ output' = [output EXCEPT
                      ![o] = IF opener[o] = w /\ Raises[o] # "write" THEN "whole" ELSE @]
  BY <1>1 DEF WritePreview, Runs
<1>3. o \in Observations /\ handler[w] # Idle
  BY <1>1, <1>2, Working DEF IInv, Known
<1>4. /\ output' \in [Observations -> Files]
      /\ opener' \in [Observations -> Workers \cup {NULL}]
      /\ \A p \in Observations \ {o} : output'[p] = output[p] /\ opener'[p] = opener[p]
      /\ opener[o] = w /\ Raises[o] # "write" => output'[o] = "whole"
  BY <1>2, <1>3 DEF IInv, Known, Types, Files
<1>5. Exclusive => (op = "completed" => output'[o] = "whole")
  BY <1>1, <1>2, <1>3, <1>4 DEF Exclusive, ThreadOK
<1> QED
  BY <1>1, <1>2, <1>4, <1>5, ThreadStep

LEMMA EndsInv ==
    ASSUME IInv, NEW w \in Workers, RunJobEnds(w)
    PROVE  IInv'
<1>1. PICK t, r, o : /\ t = handler[w] /\ o = t.job
                     /\ r = [op |-> t.op, job |-> o, preview |-> "none"]
  OBVIOUS
<1>2. /\ t # Idle /\ o \in Observations /\ t.op \in {"completed", "failed"}
      /\ process[w] \in {"up", "lost", "orphan"}
  BY <1>1, Working DEF RunJobEnds, Runs, IInv, Known
<1>3. /\ r \in Readers /\ r # Idle /\ r.op = t.op /\ r.job = o /\ r.preview = "none"
  BY <1>1, <1>2 DEF Readers, Previews, Idle
<1>4. /\ UNCHANGED <<observation, job, output, opener, boots, exits, overlaps>>
      /\ handler' = [handler EXCEPT ![w] = Idle]
  BY DEF RunJobEnds, file, bounds
<1>5. \/ process' = [process EXCEPT ![w] = "gone"] /\ reader' = reader /\ process[w] = "orphan"
      \/ process' = process /\ reader' = [reader EXCEPT ![w] = r]
  BY <1>1 DEF RunJobEnds
<1>6. /\ handler'[w] = Idle /\ \A x \in Workers \ {w} : handler'[x] = handler[x]
      /\ \A x \in Workers \ {w} : reader'[x] = reader[x] /\ process'[x] = process[x]
      /\ reader'[w] \in {reader[w], r}
      /\ handler' \in [Workers -> Threads] /\ reader' \in [Workers -> Readers]
      /\ process' \in [Workers -> Processes]
  BY <1>3, <1>4, <1>5 DEF IInv, Known, Types, Threads, Processes
<1>7. Types'
  BY <1>4, <1>6 DEF IInv, Known, Types
<1>8. Known'
  <2>1. ResultOK(w)' /\ WorksOK(w)' /\ (Analysed(o) => Analysed(o)')
    BY <1>2, <1>3, <1>4, <1>6 DEF IInv, Known, ResultOK, WorksOK, Analysed
  <2> QED
    BY <1>2, <1>4, <1>6, <1>7, <2>1, KnownStep DEF IInv, Known
<1>9. ASSUME Exclusive PROVE Exclusive'
  <2>1. ThreadOK(w) /\ process' = process /\ reader' = [reader EXCEPT ![w] = r]
    BY <1>5, <1>9 DEF Exclusive
  <2>2. /\ job[o].state = "RUNNING" /\ job[o].worker = w
        /\ t.op = "completed" => output[o] = "whole"
        /\ t.op = "failed" => Raises[o] # "never"
    BY <1>1, <1>2, <2>1 DEF ThreadOK
  <2>3. reader'[w] = r
    BY <2>1 DEF IInv, Known, Types
  <2>4. ThreadOK(w)' /\ ReaderOK(w)'
    BY <1>2, <1>3, <1>4, <1>6, <2>2, <2>3 DEF ThreadOK, ReaderOK
  <2>5. AttemptOK(o)' /\ observation'[o].preview # "part"
    BY <1>2, <1>4, <1>9, <2>1 DEF Exclusive, AttemptOK
  <2> QED
    BY <1>2, <1>4, <1>6, <1>9, <2>1, <2>2, <2>4, <2>5, ExclusiveStep DEF IInv
<1> QED
  BY <1>4, <1>8, <1>9 DEF IInv
-----------------------------------------------------------------------------
(* The Core *)

LEMMA Reading ==
    ASSUME Types, NEW w \in Workers, reader[w].op # "idle"
    PROVE  /\ reader[w] # Idle
           /\ reader[w] \in [op : {"completed", "failed", "import", "remove", "apply",
                                   "complete", "fail"},
                             job : Observations, preview : Previews]
BY DEF Types, Readers, Idle

\* A reader that goes on knows of the preview what it did.
LEMMA ReadsOn ==
    ASSUME Types, NEW w \in Workers, reader[w].op # "idle",
           NEW op \in {"import", "remove", "apply", "complete", "fail"}, Read(w, op)
    PROVE  /\ reader' \in [Workers -> Readers] /\ reader'[w] # Idle
           /\ reader'[w].op = op /\ reader'[w].job = reader[w].job
           /\ reader'[w].preview = reader[w].preview
           /\ \A x \in Workers \ {w} : reader'[x] = reader[x]
<1>1. PICK r, r2 : r = reader[w] /\ r2 = [r EXCEPT !.op = op]
  OBVIOUS
<1>2. /\ r2 \in Readers /\ r2 # Idle
      /\ r2.op = op /\ r2.job = r.job /\ r2.preview = r.preview
  BY <1>1, Reading DEF Readers, Idle
<1>3. reader' = [reader EXCEPT ![w] = r2]
  BY <1>1 DEF Read
<1> QED
  BY <1>1, <1>2, <1>3 DEF Types

\* And when the reader is done.
LEMMA ReadsNoMore ==
    ASSUME Types, NEW w \in Workers, Done(w)
    PROVE  /\ reader' \in [Workers -> Readers] /\ reader'[w] = Idle
           /\ \A x \in Workers \ {w} : reader'[x] = reader[x]
BY DEF Types, Readers, Done

\* A step of a reader.
LEMMA ReaderStep ==
    ASSUME IInv, NEW w \in Workers, reader[w].op # "idle", NEW o, o = reader[w].job,
           reader' \in [Workers -> Readers],
           \A x \in Workers \ {w} : reader'[x] = reader[x],
           UNCHANGED <<handler, process, bounds>>,
           observation' \in [Observations -> [state : {"NONE", "PENDING", "COMPLETED"},
                                              preview : Previews]],
           job' \in [Observations -> Rows], output' \in [Observations -> Files],
           opener' \in [Observations -> Workers \cup {NULL}],
           \A p \in Observations \ {o} :
             /\ job'[p] = job[p] /\ observation'[p] = observation[p]
             /\ output'[p] = output[p] /\ opener'[p] = opener[p],
           RowOK(job'[o]), Analysed(o) => Analysed(o)', ResultOK(w)',
           job'[o].state = "COMPLETED" => job[o].state = "COMPLETED" \/ Analysed(o)',
           Exclusive => AttemptOK(o)' /\ observation'[o].preview # "part" /\ ReaderOK(w)'
    PROVE  IInv'
<1>1. o \in Observations /\ reader[w] # Idle
  BY Reading DEF IInv, Known
<1>2. UNCHANGED <<handler, process, boots, exits, overlaps>>
  BY DEF bounds
<1>3. Types'
  BY <1>2 DEF IInv, Known, Types
<1>4. Known'
  <2>1. WorksOK(w)'
    BY <1>2 DEF IInv, Known, WorksOK
  <2> QED
    BY <1>1, <1>2, <1>3, <2>1, KnownStep DEF IInv
<1>5. ASSUME Exclusive PROVE Exclusive'
  <2>1. handler[w] = Idle /\ job[o].state = "RUNNING" /\ job[o].worker = w
    BY <1>1, <1>5 DEF Exclusive, ThreadOK, ReaderOK
  <2>2. ThreadOK(w)'
    BY <1>2, <2>1 DEF ThreadOK
  <2> QED
    BY <1>1, <1>2, <1>5, <2>1, <2>2, ExclusiveStep DEF IInv
<1> QED
  BY <1>2, <1>4, <1>5 DEF IInv

\* A step of a reader that leaves tables and files alone.
LEMMA QuietReaderStep ==
    ASSUME IInv, NEW w \in Workers, reader[w].op # "idle", NEW o, o = reader[w].job,
           reader' \in [Workers -> Readers],
           \A x \in Workers \ {w} : reader'[x] = reader[x],
           UNCHANGED <<observation, job, file, process, handler, bounds>>,
           ResultOK(w)', Exclusive => ReaderOK(w)'
    PROVE  IInv'
<1>1. o \in Observations
  BY Reading DEF IInv, Known
<1>2. UNCHANGED <<observation, job, output, opener, process, handler, boots, exits, overlaps>>
      /\ UNCHANGED <<handler, process, bounds>>
  BY DEF file, bounds
<1>3. Exclusive => AttemptOK(o)' /\ observation'[o].preview # "part"
  BY <1>1, <1>2 DEF Exclusive, AttemptOK
<1>4. Analysed(o) => Analysed(o)'
  BY <1>2 DEF Analysed
<1>5. RowOK(job'[o]) /\ Types
  BY <1>1, <1>2 DEF IInv, Known
<1> QED
  BY <1>2, <1>3, <1>4, <1>5, ReaderStep DEF Types

LEMMA ResultInv ==
    ASSUME IInv, NEW w \in Workers, handle_job_result(w)
    PROVE  IInv'
<1>1. PICK o : o = reader[w].job
  OBVIOUS
<1>2. /\ reader[w].op \in {"completed", "failed"}
      /\ UNCHANGED <<observation, job, file, process, handler, bounds>>
      /\ UNCHANGED <<job, output>> /\ Types
  BY DEF handle_job_result, file, IInv, Known
<1>3. reader[w] # Idle
  BY <1>2, Reading
<1>4. CASE Done(w)
  <2>1. /\ reader' \in [Workers -> Readers] /\ reader'[w] = Idle
        /\ \A x \in Workers \ {w} : reader'[x] = reader[x]
    BY <1>2, <1>4, ReadsNoMore
  <2> QED
    BY <1>1, <1>2, <2>1, QuietReaderStep DEF ResultOK, ReaderOK
<1>5. CASE Read(w, IF reader[w].op = "completed" THEN "import" ELSE "fail")
  <2>1. PICK op : op = IF reader[w].op = "completed" THEN "import" ELSE "fail"
    OBVIOUS
  <2>2. /\ reader' \in [Workers -> Readers] /\ reader'[w] # Idle
        /\ reader'[w].op = op /\ reader'[w].job = o
        /\ \A x \in Workers \ {w} : reader'[x] = reader[x]
    BY <1>1, <1>2, <1>5, <2>1, ReadsOn
  <2>3. Exclusive => ReaderOK(w)'
    BY <1>1, <1>2, <1>3, <2>1, <2>2 DEF Exclusive, ReaderOK
  <2>4. ResultOK(w)'
    BY <2>1, <2>2 DEF ResultOK
  <2> QED
    BY <1>1, <1>2, <2>2, <2>3, <2>4, QuietReaderStep
<1> QED
  BY <1>4, <1>5 DEF handle_job_result

LEMMA ImportInv ==
    ASSUME IInv, NEW w \in Workers, import_worker_output(w)
    PROVE  IInv'
<1>1. PICK o, r : r = reader[w] /\ o = r.job
  OBVIOUS
<1>2. /\ r.op = "import"
      /\ UNCHANGED <<observation, job, file, process, handler, bounds>>
      /\ UNCHANGED <<job, output>> /\ Types
  BY <1>1 DEF import_worker_output, file, IInv, Known
<1>3. r # Idle /\ o \in Observations
  BY <1>1, <1>2, Reading
<1>4. CASE output[o] = "absent" /\ Read(w, "fail")
  <2>1. /\ reader' \in [Workers -> Readers] /\ reader'[w] # Idle
        /\ reader'[w].op = "fail"
        /\ \A x \in Workers \ {w} : reader'[x] = reader[x]
    BY <1>1, <1>2, <1>4, ReadsOn
  <2>2. ~Exclusive
    BY <1>1, <1>2, <1>3, <1>4 DEF Exclusive, ReaderOK
  <2>3. ResultOK(w)'
    BY <2>1 DEF ResultOK
  <2> QED
    BY <1>1, <1>2, <2>1, <2>2, <2>3, QuietReaderStep
<1>5. CASE /\ output[o] # "absent"
           /\ reader' = [reader EXCEPT ![w] = [r EXCEPT !.preview = output[o],
                                                        !.op = "remove"]]
  <2>1. PICK preview \in Previews : preview = output[o] /\ preview # "none"
    BY <1>2, <1>3, <1>5 DEF Types, Files, Previews
  <2>2. PICK r2 : r2 = [r EXCEPT !.preview = preview, !.op = "remove"]
    OBVIOUS
  <2>3. /\ r2 \in Readers /\ r2 # Idle
        /\ r2.op = "remove" /\ r2.job = o /\ r2.preview = preview
    BY <1>1, <1>2, <2>2, Reading DEF Readers, Idle
  <2>4. reader' = [reader EXCEPT ![w] = r2]
    BY <1>5, <2>1, <2>2
  <2>5. /\ reader' \in [Workers -> Readers] /\ reader'[w] = r2
        /\ \A x \in Workers \ {w} : reader'[x] = reader[x]
    BY <1>2, <2>3, <2>4 DEF Types
  <2>6. Exclusive => ReaderOK(w)'
    BY <1>1, <1>2, <1>3, <2>1, <2>3, <2>5 DEF Exclusive, ReaderOK
  <2>7. ResultOK(w)'
    BY <2>1, <2>3, <2>5 DEF ResultOK
  <2> QED
    BY <1>1, <1>2, <2>6, <2>7, <2>5, QuietReaderStep
<1> QED
  BY <1>1, <1>4, <1>5 DEF import_worker_output

LEMMA RemoveInv ==
    ASSUME IInv, NEW w \in Workers, RemoveOutput(w)
    PROVE  IInv'
<1>1. PICK o : o = reader[w].job
  OBVIOUS
<1>2. /\ reader[w].op = "remove" /\ Read(w, "apply") /\ Types
      /\ UNCHANGED <<observation, job>>
      /\ UNCHANGED <<handler, process, bounds>> /\ UNCHANGED <<process, boots, exits>>
      /\ output' = [output EXCEPT ![o] = "absent"]
      /\ opener' = [opener EXCEPT ![o] = NULL]
  BY <1>1 DEF RemoveOutput, bounds, IInv, Known
<1>3. reader[w] # Idle /\ o \in Observations
  BY <1>1, <1>2, Reading
<1>4. /\ reader' \in [Workers -> Readers] /\ reader'[w] # Idle
      /\ reader'[w].op = "apply" /\ reader'[w].job = o
      /\ reader'[w].preview = reader[w].preview
      /\ \A x \in Workers \ {w} : reader'[x] = reader[x]
  BY <1>1, <1>2, ReadsOn
<1>5. /\ output' \in [Observations -> Files]
      /\ opener' \in [Observations -> Workers \cup {NULL}]
      /\ \A p \in Observations \ {o} : output'[p] = output[p] /\ opener'[p] = opener[p]
  BY <1>2 DEF Types, Files
<1>6. ResultOK(w)'
  BY <1>2, <1>3, <1>4 DEF IInv, Known, ResultOK
<1>7. ASSUME Exclusive
      PROVE  AttemptOK(o)' /\ observation'[o].preview # "part" /\ ReaderOK(w)'
  <2>1. ReaderOK(w)'
    BY <1>1, <1>2, <1>3, <1>4, <1>7 DEF Exclusive, ReaderOK
  <2> QED
    BY <1>2, <1>3, <1>7, <2>1 DEF Exclusive, AttemptOK
<1>8. /\ RowOK(job'[o]) /\ (Analysed(o) => Analysed(o)')
      /\ job' \in [Observations -> Rows]
      /\ observation' \in [Observations -> [state : {"NONE", "PENDING", "COMPLETED"},
                                            preview : Previews]]
  BY <1>2, <1>3 DEF IInv, Known, Types, Analysed
<1> QED
  BY <1>1, <1>2, <1>4, <1>5, <1>6, <1>7, <1>8, ReaderStep

LEMMA ApplyInv ==
    ASSUME IInv, NEW w \in Workers, apply_observation_analysis(w)
    PROVE  IInv'
<1>1. PICK o, b : /\ o = reader[w].job
                  /\ b = [state |-> "COMPLETED", preview |-> reader[w].preview]
  OBVIOUS
<1>2. /\ reader[w].op = "apply" /\ Read(w, "complete") /\ Types
      /\ UNCHANGED <<job, output, opener>>
      /\ UNCHANGED <<handler, process, bounds>> /\ UNCHANGED <<process, boots, exits>>
      /\ observation' = [observation EXCEPT ![o] = b]
  BY <1>1 DEF apply_observation_analysis, file, bounds, IInv, Known
<1>3. reader[w] # Idle /\ o \in Observations /\ reader[w].preview \in Previews
  BY <1>1, <1>2, Reading
<1>4. /\ reader' \in [Workers -> Readers] /\ reader'[w] # Idle
      /\ reader'[w].op = "complete" /\ reader'[w].job = o
      /\ \A x \in Workers \ {w} : reader'[x] = reader[x]
  BY <1>1, <1>2, ReadsOn
<1>5. reader[w].preview # "none"
  BY <1>2, <1>3 DEF IInv, Known, ResultOK
<1>6. /\ observation' \in [Observations -> [state : {"NONE", "PENDING", "COMPLETED"},
                                            preview : Previews]]
      /\ observation'[o] = b
      /\ \A p \in Observations \ {o} : observation'[p] = observation[p]
  BY <1>1, <1>2, <1>3 DEF Types
<1>7. Analysed(o)' /\ ResultOK(w)'
  BY <1>1, <1>4, <1>5, <1>6 DEF Analysed, ResultOK
<1>8. ASSUME Exclusive
      PROVE  AttemptOK(o)' /\ observation'[o].preview # "part" /\ ReaderOK(w)'
  <2>1. ReaderOK(w)' /\ reader[w].preview = "whole"
    BY <1>1, <1>2, <1>3, <1>4, <1>8 DEF Exclusive, ReaderOK
  <2>2. AttemptOK(o)'
    BY <1>2, <1>3, <1>8 DEF Exclusive, AttemptOK
  <2> QED
    BY <1>1, <1>6, <2>1, <2>2
<1>9. /\ RowOK(job'[o]) /\ job' \in [Observations -> Rows]
      /\ output' \in [Observations -> Files]
      /\ opener' \in [Observations -> Workers \cup {NULL}]
  BY <1>2, <1>3 DEF IInv, Known, Types
<1> QED
  BY <1>1, <1>2, <1>4, <1>6, <1>7, <1>8, <1>9, ReaderStep

\* The last step of a reader: the row is written, if it is still RUNNING.
LEMMA LastStep ==
    ASSUME IInv, NEW w \in Workers, reader[w].op \in {"complete", "fail"}, Done(w),
           NEW o, o = reader[w].job, NEW row \in Rows, RowOK(row),
           job' = (IF job[o].state = "RUNNING" THEN [job EXCEPT ![o] = row] ELSE job),
           UNCHANGED <<observation, file, process, handler, bounds>>,
           row.state = "COMPLETED" => reader[w].op = "complete",
           row.state = "FAILED" => reader[w].op = "fail",
           row.state \in {"COMPLETED", "FAILED"}
    PROVE  IInv'
<1>1. /\ UNCHANGED <<observation, output, opener, boots, exits>> /\ Types
      /\ UNCHANGED <<handler, process, bounds>>
  BY DEF file, bounds, IInv, Known
<1>2. reader[w] # Idle /\ o \in Observations
  BY Reading, <1>1
<1>3. /\ reader' \in [Workers -> Readers] /\ reader'[w] = Idle
      /\ \A x \in Workers \ {w} : reader'[x] = reader[x]
  BY <1>1, ReadsNoMore
<1>4. /\ job' \in [Observations -> Rows]
      /\ \A p \in Observations \ {o} : job'[p] = job[p]
      /\ job'[o] \in {job[o], row}
  BY <1>1, <1>2 DEF Types
<1>5. RowOK(job'[o])
  BY <1>2, <1>4 DEF IInv, Known
<1>6. Analysed(o) => Analysed(o)'
  BY <1>1 DEF Analysed
<1>7. job'[o].state = "COMPLETED" => job[o].state = "COMPLETED" \/ Analysed(o)'
  BY <1>2, <1>4, <1>6 DEF IInv, Known, ResultOK
<1>8. ResultOK(w)' /\ ReaderOK(w)'
  BY <1>3 DEF ResultOK, ReaderOK
<1>9. ASSUME Exclusive PROVE AttemptOK(o)' /\ observation'[o].preview # "part"
  <2>1. observation'[o].preview # "part"
    BY <1>1, <1>2, <1>9 DEF Exclusive
  <2>2. reader[w].op = "fail" => Raises[o] # "never"
    BY <1>2, <1>9 DEF Exclusive, ReaderOK
  <2>3. CASE job'[o] = row
    <3>1. /\ job'[o].state \notin {"CREATED", "READY", "RUNNING"}
          /\ job'[o].state = "FAILED" => Raises[o] # "never"
      BY <2>2, <2>3
    <3> QED
      BY <2>1, <3>1 DEF AttemptOK
  <2>4. CASE job'[o] = job[o]
    BY <1>1, <1>2, <1>9, <2>4 DEF Exclusive, AttemptOK
  <2> QED
    BY <1>4, <2>1, <2>3, <2>4
<1> QED
  BY <1>1, <1>3, <1>4, <1>5, <1>6, <1>7, <1>8, <1>9, ReaderStep DEF Types

LEMMA CompleteInv ==
    ASSUME IInv, NEW w \in Workers, complete(w)
    PROVE  IInv'
<1>1. PICK o, row : o = reader[w].job /\ row = TransitionRow(job[o], job[o], "COMPLETED")
  OBVIOUS
<1>2. /\ reader[w].op = "complete" /\ Done(w)
      /\ job' = IF job[o].state = "RUNNING" THEN [job EXCEPT ![o] = row] ELSE job
      /\ UNCHANGED <<observation, file, process, handler, bounds>>
      /\ UNCHANGED <<handler, process, bounds>> /\ UNCHANGED <<boots, exits>>
      /\ UNCHANGED <<output, opener>>
  BY <1>1 DEF complete, file, bounds
<1>3. o \in Observations /\ job[o] \in Rows /\ RowOK(job[o])
  BY <1>1, <1>2, Reading DEF IInv, Known, Types
<1>4. CASE job[o].state = "RUNNING"
  <2>1. row \in Rows /\ RowOK(row) /\ row.state = "COMPLETED"
    BY <1>1, <1>3, <1>4, Completed
  <2> QED
    BY <1>1, <1>2, <2>1, LastStep
<1>5. CASE job[o].state # "RUNNING"
  <2>1. /\ reader' \in [Workers -> Readers] /\ reader'[w] = Idle
        /\ \A x \in Workers \ {w} : reader'[x] = reader[x]
    BY <1>2, ReadsNoMore DEF IInv, Known
  <2>2. UNCHANGED <<observation, job, file, process, handler, bounds>>
    BY <1>2, <1>5
  <2>3. ResultOK(w)' /\ ReaderOK(w)'
    BY <2>1 DEF ResultOK, ReaderOK
  <2> QED
    BY <1>1, <1>2, <2>1, <2>2, <2>3, QuietReaderStep
<1> QED
  BY <1>4, <1>5

LEMMA FailInv ==
    ASSUME IInv, NEW w \in Workers, fail(w)
    PROVE  IInv'
<1>1. PICK o, row : o = reader[w].job /\ row = ReleasedRow(job[o], "FAILED")
  OBVIOUS
<1>2. /\ reader[w].op = "fail" /\ Done(w)
      /\ job' = IF job[o].state = "RUNNING" THEN [job EXCEPT ![o] = row] ELSE job
      /\ UNCHANGED <<observation, file, process, handler, bounds>>
  BY <1>1 DEF fail
<1>3. o \in Observations /\ job[o] \in Rows /\ RowOK(job[o])
  BY <1>1, <1>2, Reading DEF IInv, Known, Types
<1>4. CASE job[o].state = "RUNNING"
  <2>1. row \in Rows /\ RowOK(row) /\ row.state = "FAILED"
    BY <1>1, <1>3, <1>4, Released
  <2> QED
    BY <1>1, <1>2, <2>1, LastStep
<1>5. CASE job[o].state # "RUNNING"
  <2>1. /\ reader' \in [Workers -> Readers] /\ reader'[w] = Idle
        /\ \A x \in Workers \ {w} : reader'[x] = reader[x]
    BY <1>2, ReadsNoMore DEF IInv, Known
  <2>2. UNCHANGED <<observation, job, file, process, handler, bounds>>
    BY <1>2, <1>5
  <2>3. ResultOK(w)' /\ ReaderOK(w)'
    BY <2>1 DEF ResultOK, ReaderOK
  <2> QED
    BY <1>1, <1>2, <2>1, <2>2, <2>3, QuietReaderStep
<1> QED
  BY <1>4, <1>5
-----------------------------------------------------------------------------
(* What goes wrong *)

\* What a recovery does to a row: nothing, or the job can be started again, or has
\* had both attempts.
LEMMA Recovery ==
    ASSUME Types, \A o \in Observations : RowOK(job[o]), NEW ws \in SUBSET Workers,
           job' = Recovered(ws)
    PROVE  /\ job' \in [Observations -> Rows]
           /\ \A o \in Observations :
                IF job[o].state = "RUNNING" /\ job[o].worker \in ws
                THEN /\ RowOK(job'[o]) /\ job'[o].state \in {"READY", "FAILED"}
                     /\ job'[o].attempt = job[o].attempt
                     /\ job'[o].state = "FAILED" => job[o].attempt = 2
                ELSE job'[o] = job[o]
<1>1. ASSUME NEW o \in Observations, job[o].state = "RUNNING", job[o].worker \in ws
      PROVE  /\ job'[o] \in Rows
             /\ RowOK(job'[o]) /\ job'[o].state \in {"READY", "FAILED"}
             /\ job'[o].attempt = job[o].attempt
             /\ job'[o].state = "FAILED" => job[o].attempt = 2
  <2>1. PICK to : to = recovery_target(job[o])
    OBVIOUS
  <2>2. to \in {"READY", "FAILED"} /\ (to = "FAILED" => job[o].attempt = 2)
    BY <1>1, <2>1, Recovers DEF Types
  <2>3. PICK row : row = ReleasedRow(job[o], to)
    OBVIOUS
  <2>4. row \in Rows /\ RowOK(row) /\ row.state = to /\ row.attempt = job[o].attempt
    BY <1>1, <2>2, <2>3, Released DEF Types
  <2>5. job'[o] = row
    BY <1>1, <2>1, <2>3 DEF Recovered
  <2> QED
    BY <2>2, <2>4, <2>5
<1>2. ASSUME NEW o \in Observations, ~(job[o].state = "RUNNING" /\ job[o].worker \in ws)
      PROVE  job'[o] = job[o]
  BY <1>2 DEF Recovered
<1>3. job' \in [Observations -> Rows]
  <2>1. \A o \in Observations : job'[o] \in Rows
    BY <1>1, <1>2 DEF Types
  <2>2. job' = [o \in Observations |-> job'[o]]
    BY DEF Recovered
  <2> QED
    BY <2>1, <2>2
<1> QED
  BY <1>1, <1>2, <1>3

\* Which leaves all that is known.
LEMMA RecoveredKnown ==
    ASSUME Known, NEW ws \in SUBSET Workers, job' = Recovered(ws), observation' = observation,
           process' \in [Workers -> Processes], handler' \in [Workers -> Threads],
           reader' \in [Workers -> Readers], UNCHANGED file,
           boots' \in Nat, boots' > 0, exits' \in Nat, overlaps' \in Nat,
           \A w \in Workers : WorksOK(w)' /\ reader'[w] \in {reader[w], Idle}
    PROVE  Known'
<1>1. /\ job' \in [Observations -> Rows]
      /\ \A o \in Observations :
           /\ RowOK(job'[o])
           /\ job'[o].state = "COMPLETED" => job[o].state = "COMPLETED"
  <2>1. Types /\ \A o \in Observations : RowOK(job[o])
    BY DEF Known
  <2> QED
    BY <2>1, Recovery
<1>2. Types'
  BY <1>1 DEF Known, Types, file
<1>3. \A w \in Workers : ResultOK(w)'
  <2>1. ASSUME NEW w \in Workers PROVE ResultOK(w)'
    <3>1. ResultOK(w)
      BY DEF Known
    <3> QED
      BY <3>1 DEF ResultOK, Analysed
  <2> QED
    BY <2>1
<1>4. CompletedIsAnalysed'
  BY <1>1 DEF Known, CompletedIsAnalysed
<1> QED
  BY <1>1, <1>2, <1>3, <1>4 DEF Known

LEMMA WorkerExitsInv ==
    ASSUME IInv, NEW w \in Workers, WorkerExits(w)
    PROVE  IInv'
<1>1. /\ UNCHANGED <<observation, job, output, opener, reader, boots, overlaps>>
      /\ exits' = exits + 1 /\ Types
      /\ process' = [process EXCEPT ![w] = "exited"]
      /\ handler' = [handler EXCEPT ![w] = Idle]
  BY DEF WorkerExits, file, IInv, Known
<1>2. /\ process' \in [Workers -> Processes] /\ handler' \in [Workers -> Threads]
      /\ process'[w] = "exited" /\ handler'[w] = Idle
      /\ \A x \in Workers \ {w} : process'[x] = process[x] /\ handler'[x] = handler[x]
  BY <1>1 DEF Types, Processes, Threads
<1>3. Types'
  BY <1>1, <1>2 DEF Types
<1>4. Known'
  BY <1>1, <1>2, <1>3
     DEF IInv, Known, ResultOK, WorksOK, Analysed, CompletedIsAnalysed
<1>5. ASSUME Exclusive PROVE Exclusive'
  <2>1. ASSUME NEW x \in Workers PROVE ThreadOK(x)' /\ ReaderOK(x)'
    <3>1. ThreadOK(x) /\ ReaderOK(x)
      BY <1>5 DEF Exclusive
    <3> QED
      BY <1>1, <1>2, <3>1 DEF ThreadOK, ReaderOK
  <2>2. ASSUME NEW o \in Observations PROVE AttemptOK(o)'
    <3>1. AttemptOK(o) /\ job[o].attempt \in Nat /\ boots \in Nat /\ exits \in Nat
      BY <1>1, <1>5 DEF Exclusive, Types, Rows
    <3> QED
      BY <1>1, <3>1 DEF AttemptOK
  <2>3. \A x \in Workers : process'[x] \notin {"lost", "orphan"}
    BY <1>2, <1>5 DEF Exclusive
  <2> QED
    BY <1>1, <1>5, <2>1, <2>2, <2>3 DEF Exclusive
<1> QED
  BY <1>1, <1>4, <1>5 DEF IInv

LEMMA ReaderEndsInv ==
    ASSUME IInv, NEW w \in Workers, ReaderEnds(w)
    PROVE  IInv'
<1>1. /\ UNCHANGED <<observation, output, opener, handler, reader, boots, exits, overlaps>>
      /\ UNCHANGED file /\ Types /\ job' = Recovered({w})
      /\ process[w] = "exited" /\ reader[w] = Idle
      /\ process' = [process EXCEPT ![w] = "gone"]
  BY DEF ReaderEnds, file, bounds, IInv, Known
<1>2. handler[w] = Idle
  BY <1>1 DEF IInv, Known, WorksOK
<1>3. /\ process' \in [Workers -> Processes] /\ process'[w] = "gone"
      /\ \A x \in Workers \ {w} : process'[x] = process[x]
  BY <1>1 DEF Types, Processes
<1>4. \A x \in Workers : WorksOK(x)'
  BY <1>1, <1>2, <1>3 DEF IInv, Known, WorksOK
<1>5. Known'
  BY <1>1, <1>3, <1>4, RecoveredKnown DEF IInv, Known, Types
<1>6. \A o \in Observations :
        IF job[o].state = "RUNNING" /\ job[o].worker = w
        THEN /\ job'[o].state \in {"READY", "FAILED"}
             /\ job'[o].attempt = job[o].attempt
             /\ job'[o].state = "FAILED" => job[o].attempt = 2
        ELSE job'[o] = job[o]
  <2>1. PICK ws \in SUBSET Workers : ws = {w}
    OBVIOUS
  <2>2. /\ Types /\ \A o \in Observations : RowOK(job[o])
        /\ job' = Recovered(ws)
    BY <1>1, <2>1 DEF IInv, Known
  <2> QED
    BY <2>1, <2>2, Recovery
<1>7. ASSUME Exclusive PROVE Exclusive'
  <2>1. ASSUME NEW x \in Workers PROVE ThreadOK(x)' /\ ReaderOK(x)'
    <3>1. ThreadOK(x) /\ ReaderOK(x)
      BY <1>7 DEF Exclusive
    <3>2. CASE x = w
      BY <1>1, <1>2, <3>2 DEF ThreadOK, ReaderOK
    <3>3. CASE x # w
      <4>1. handler[x] # Idle => job'[handler[x].job] = job[handler[x].job]
        BY <1>1, <1>6, <3>1, <3>3 DEF ThreadOK, Types, Threads
      <4>2. reader[x] # Idle => job'[reader[x].job] = job[reader[x].job]
        BY <1>1, <1>6, <3>1, <3>3 DEF ReaderOK, Types, Readers
      <4> QED
        BY <1>1, <1>3, <3>1, <3>3, <4>1, <4>2 DEF ThreadOK, ReaderOK
    <3> QED
      BY <3>2, <3>3
  <2>2. ASSUME NEW o \in Observations PROVE AttemptOK(o)'
    <3>1. /\ AttemptOK(o) /\ job[o].attempt \in Nat /\ boots \in Nat /\ exits \in Nat
          /\ job[o].state = "RUNNING" => job[o].worker \in Workers
      BY <1>1, <1>7 DEF Exclusive, IInv, Known, Types, Rows, RowOK, NoRow
    <3>2. CASE job[o].state = "RUNNING" /\ job[o].worker = w
      BY <1>1, <1>6, <3>1, <3>2 DEF AttemptOK
    <3>3. CASE ~(job[o].state = "RUNNING" /\ job[o].worker = w)
      <4>1. job'[o] = job[o]
        BY <1>6, <3>3
      <4>2. job[o].state = "RUNNING" => process'[job[o].worker] = process[job[o].worker]
        BY <1>3, <3>1, <3>3
      <4> QED
        BY <1>1, <3>1, <4>1, <4>2 DEF AttemptOK
    <3> QED
      BY <3>2, <3>3
  <2>3. \A x \in Workers : process'[x] \notin {"lost", "orphan"}
    BY <1>3, <1>7 DEF Exclusive
  <2> QED
    BY <1>1, <1>7, <2>1, <2>2, <2>3 DEF Exclusive
<1> QED
  BY <1>1, <1>5, <1>7 DEF IInv

LEMMA WorkerLostInv ==
    ASSUME IInv, NEW w \in Workers, WorkerLost(w)
    PROVE  IInv'
<1>1. /\ UNCHANGED <<observation, handler, reader, boots, exits>>
      /\ UNCHANGED file /\ Types /\ job' = Recovered({w})
      /\ overlaps' = overlaps + 1
      /\ process[w] = "up" /\ process' = [process EXCEPT ![w] = "lost"]
  BY DEF WorkerLost, IInv, Known
<1>2. process' \in [Workers -> Processes] /\ overlaps' \in Nat /\ overlaps' # 0
  BY <1>1 DEF Types, Processes
<1>3. \A x \in Workers : WorksOK(x)'
  BY <1>1 DEF IInv, Known, Types, WorksOK
<1>4. Known'
  BY <1>1, <1>2, <1>3, RecoveredKnown DEF IInv, Known, Types
<1> QED
  BY <1>2, <1>4 DEF IInv

LEMMA RestartInv == ASSUME IInv, Restart PROVE IInv'
<1>1. PICK orphans \in SUBSET {w \in Workers : handler[w] # Idle} :
        /\ boots' = boots + 1 /\ overlaps' = overlaps + Cardinality(orphans)
        /\ process' = [w \in Workers |-> IF w \in orphans THEN "orphan"
                                         ELSE IF w \in SpawnedBy(boots + 1) THEN "up"
                                         ELSE IF process[w] = "off" THEN "off" ELSE "gone"]
        /\ handler' = [w \in Workers |-> IF w \in orphans THEN handler[w] ELSE Idle]
        /\ reader' = [w \in Workers |-> Idle]
        /\ job' = Recovered(Workers)
        /\ UNCHANGED <<observation, file, exits>>
  BY DEF Restart
<1>2. Types /\ \A o \in Observations : RowOK(job[o])
  BY DEF IInv, Known
<1>3. /\ IsFiniteSet(orphans) /\ Cardinality(orphans) \in Nat
      /\ Cardinality(orphans) = 0 => orphans = {}
  <2>1. orphans \in SUBSET Workers
    BY <1>1
  <2>2. IsFiniteSet(orphans)
    BY <2>1, SpawnAssumption, FS_Subset
  <2> QED
    BY <2>2, FS_CardinalityType, FS_EmptySet
<1>4. /\ process' \in [Workers -> Processes] /\ handler' \in [Workers -> Threads]
      /\ reader' \in [Workers -> Readers]
  BY <1>1, <1>2 DEF Types, Processes, Threads, Readers
<1>5. /\ boots' \in Nat /\ boots' > 0 /\ exits' \in Nat /\ overlaps' \in Nat
  BY <1>1, <1>2, <1>3 DEF Types
<1>6. ASSUME NEW w \in Workers PROVE WorksOK(w)' /\ reader'[w] = Idle
  <2>1. w \in orphans => process'[w] = "orphan"
    BY <1>1, Zenon
  <2>2. w \notin orphans => handler'[w] = Idle
    BY <1>1, Zenon
  <2>3. reader'[w] = Idle
    BY <1>1, Zenon
  <2> QED
    BY <2>1, <2>2, <2>3 DEF WorksOK
<1>7. Known'
  BY <1>1, <1>4, <1>5, <1>6, RecoveredKnown DEF IInv
<1>8. ASSUME overlaps' = 0 PROVE Exclusive'
  <2>1. orphans = {} /\ overlaps = 0
    BY <1>1, <1>2, <1>3, <1>8 DEF Types
  <2>2. Exclusive
    BY <2>1 DEF IInv
  <2>3. \A w \in Workers : process'[w] \notin {"lost", "orphan"}
    BY <1>1, <2>1
  <2>4. \A w \in Workers : handler'[w] = Idle /\ reader'[w] = Idle
    BY <1>1, <2>1
  <2>5. ASSUME NEW o \in Observations PROVE AttemptOK(o)'
    <3>1. /\ AttemptOK(o) /\ job[o].attempt \in Nat /\ boots \in Nat /\ exits \in Nat
          /\ job[o].state = "RUNNING" => job[o].worker \in Workers
      BY <1>2, <2>2 DEF Exclusive, Types, Rows, RowOK, NoRow
    <3>2. CASE job[o].state = "RUNNING"
      <4>1. /\ job'[o].state \in {"READY", "FAILED"}
            /\ job'[o].attempt = job[o].attempt
            /\ job'[o].state = "FAILED" => job[o].attempt = 2
        BY <1>1, <1>2, <3>1, <3>2, Recovery
      <4> QED
        BY <1>1, <3>1, <3>2, <4>1 DEF AttemptOK
    <3>3. CASE job[o].state # "RUNNING"
      <4>1. job'[o] = job[o]
        BY <1>1, <1>2, <3>3, Recovery
      <4> QED
        BY <1>1, <3>1, <3>3, <4>1 DEF AttemptOK
    <3> QED
      BY <3>2, <3>3
  <2> QED
    BY <1>1, <2>2, <2>3, <2>4, <2>5 DEF Exclusive, ThreadOK, ReaderOK
<1> QED
  BY <1>7, <1>8 DEF IInv
-----------------------------------------------------------------------------
LEMMA NextInv == IInv /\ [Next]_vars => IInv'
<1> SUFFICES ASSUME IInv, [Next]_vars PROVE IInv'
  OBVIOUS
<1>1. CASE Import
  BY <1>1, CreateImagesInv, CreateInv, ResolveInv DEF Import
<1>2. CASE Scheduler
  BY <1>2, StartInv DEF Scheduler
<1>3. ASSUME NEW w \in Workers, Process(w) PROVE IInv'
  BY <1>3, AnalyzeInv, OpenInv, WriteInv, EndsInv DEF Process
<1>4. ASSUME NEW w \in Workers, Reader(w) PROVE IInv'
  BY <1>4, ResultInv, ImportInv, RemoveInv, ApplyInv, CompleteInv, FailInv, ReaderEndsInv
     DEF Reader
<1>5. CASE Fault
  BY <1>5, RestartInv, WorkerExitsInv, WorkerLostInv DEF Fault
<1>6. CASE UNCHANGED vars
  <2>1. Known'
    BY <1>6 DEF vars, IInv, Known, Types, ResultOK, WorksOK, Analysed, CompletedIsAnalysed
  <2>2. Exclusive => Exclusive'
    BY <1>6 DEF vars, Exclusive, ThreadOK, ReaderOK, AttemptOK
  <2> QED
    BY <1>6, <2>1, <2>2 DEF vars, IInv
<1> QED
  BY <1>1, <1>2, <1>3, <1>4, <1>5, <1>6 DEF Next

\* Whatever happens, what the Core knows is right, and while it knows of every process
\* that works, each worker has its job and its file to itself.
THEOREM Invariant == Spec => []IInv
BY InitInv, NextInv, PTL DEF Spec

\* A COMPLETED job of any import has an analysed observation with a preview, also when
\* the Core has lost sight of processes that still work on it (apply before complete, in
\* handle_job_result).
THEOREM CompletedAreAnalysed == Spec => []CompletedIsAnalysed
<1>1. IInv => CompletedIsAnalysed
  BY DEF IInv, Known
<1> QED
  BY <1>1, Invariant, PTL

\* No observation gets a part of a preview while the Core knows of every process that
\* works, wherever processes die and however often the Core starts (the preview's path is
\* the same in every attempt).
THEOREM PreviewsAreWhole == Spec => []PreviewIsWhole
<1>1. IInv => PreviewIsWhole
  BY DEF IInv, Exclusive, PreviewIsWhole
<1> QED
  BY <1>1, Invariant, PTL

\* And a job FAILS only if its handler raises or both attempts were interrupted: no result
\* of import_worker_output finds its file missing.
THEOREM FailuresHaveReasons == Spec => []FailedForAReason
<1>1. IInv => FailedForAReason
  BY DEF IInv, Exclusive, AttemptOK, FailedForAReason
<1> QED
  BY <1>1, Invariant, PTL
=============================================================================
