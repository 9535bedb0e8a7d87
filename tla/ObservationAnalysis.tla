------------------------ MODULE ObservationAnalysis ------------------------
(***************************************************************************)
(* Analysing imported images: the rows that observation_import.rs and      *)
(* observation_repository.rs make, ANALYZE_OBSERVATION in the process of   *)
(* src/workers/vision/main.py, and what the Core does with its result      *)
(* (handle_job_result and apply_observation_analysis of worker_runtime.rs, *)
(* import_worker_output of artifact_store.rs).                             *)
(*                                                                         *)
(* The process and the Core meet in one file, .worker-output/<job>/        *)
(* preview.jpg, which has the same path in every attempt. WorkerRuntime    *)
(* has the scheduling, the pipes and the commands; here a start, a         *)
(* recovery and a statement on table jobs are one step each, and the file  *)
(* has all of them. Nobody pauses or cancels a job.                        *)
(***************************************************************************)
EXTENDS JobRows, FiniteSets

CONSTANTS Observations,  \* an import's; each has one analysis job
          Raises,        \* [Observations -> {"read", "write", "never"}]: where the
                         \* handler raises: the image, or its preview, is no good
          Generation,    \* [Workers -> Nat]: the start of the Core that spawns it
          MaxBoots,      \* bound on the starts of the Core
          MaxExits,      \* bound on the processes that die
          MaxOverlaps    \* bound on the processes the Core loses sight of

ASSUME RaisesAssumption == Raises \in [Observations -> {"read", "write", "never"}]
ASSUME SpawnAssumption == Generation \in [Workers -> Nat] /\ IsFiniteSet(Workers)

VARIABLES observation,  \* [Observations -> [state, preview]]: table observations
          job,          \* [Observations -> Rows]: its row of table jobs
          importing,    \* import_images is at work
          output,       \* [Observations -> {"absent", "part", "whole"}]: preview.jpg
          opener,       \* [Observations -> Workers \cup {NULL}]: who emptied it last
          process,      \* [Workers -> {"off", "up", "lost", "orphan", "exited", "gone"}]
          handler,      \* [Workers -> what the thread of the job does]
          reader,       \* [Workers -> what the Core does with the result]
          boots,
          exits,
          overlaps

file == <<output, opener>>
bounds == <<boots, exits, overlaps>>
vars == <<observation, job, importing, output, opener, process, handler, reader,
          boots, exits, overlaps>>

Idle == [op |-> "idle"]

SpawnedBy(boot) == {w \in Workers : Generation[w] = boot}

Init ==
    /\ observation = [o \in Observations |-> [state |-> "NONE", preview |-> "none"]]
    /\ job = [o \in Observations |-> NoRow]
    /\ importing = TRUE
    /\ output = [o \in Observations |-> "absent"]
    /\ opener = [o \in Observations |-> NULL]
    /\ process = [w \in Workers |-> IF w \in SpawnedBy(1) THEN "up" ELSE "off"]
    /\ handler = [w \in Workers |-> Idle]
    /\ reader = [w \in Workers |-> Idle]
    /\ boots = 1 /\ exits = 0 /\ overlaps = 0

Thread(w, op) == handler' = [handler EXCEPT ![w].op = op]
Read(w, op) == reader' = [reader EXCEPT ![w].op = op]
Done(w) == reader' = [reader EXCEPT ![w] = Idle]
-----------------------------------------------------------------------------
(* The import *)

\* One transaction adds the observations of all images.
create_images ==
    /\ importing
    /\ \A o \in Observations : observation[o].state = "NONE"
    /\ observation' = [o \in Observations |-> [state |-> "PENDING", preview |-> "none"]]
    /\ UNCHANGED <<job, importing, file, process, handler, reader, bounds>>

\* The loop over the observations makes the next job when the last one is resolved.
NextJob(o) ==
    /\ importing
    /\ observation[o].state = "PENDING" /\ job[o] = NoRow
    /\ \A p \in Observations : job[p].state # "CREATED"

\* Mutant of create_with_input: an analysis may not be done twice.
create_with_input_once(o) ==
    /\ NextJob(o)
    /\ job' = [job EXCEPT ![o] = NewRow(2, FALSE)]
    /\ UNCHANGED <<observation, importing, file, process, handler, reader, bounds>>

\* A job is inserted CREATED: two attempts, idempotent.
create_with_input(o) ==
    /\ NextJob(o)
    /\ job' = [job EXCEPT ![o] = NewRow(2, TRUE)]
    /\ UNCHANGED <<observation, importing, file, process, handler, reader, bounds>>

\* It has no dependencies, so the next statements make it READY. Nothing else does: a
\* Core that stops before leaves it CREATED.
resolve_dependencies(o) ==
    /\ importing
    /\ job[o].state = "CREATED"
    /\ job' = [job EXCEPT ![o] = TransitionRow(@, @, "READY")]
    /\ UNCHANGED <<observation, importing, file, process, handler, reader, bounds>>
-----------------------------------------------------------------------------
(* The worker *)

\* The scheduler gives a job to an idle worker that it knows of.
start_on_worker(w, o) ==
    /\ process[w] = "up" /\ handler[w] = Idle /\ reader[w] = Idle
    /\ job[o].state = "READY" /\ job[o].attempt < job[o].max
    /\ job' = [job EXCEPT ![o] = StartedRow(@, @, w)]
    /\ handler' = [handler EXCEPT ![w] = [op |-> "read", job |-> o]]
    /\ UNCHANGED <<observation, importing, file, process, reader, bounds>>

Runs(w, op) == process[w] \in {"up", "lost", "orphan"} /\ handler[w].op = op

\* The image is opened and measured, or cannot be.
analyze_observation(w) ==
    /\ Runs(w, "read")
    /\ Thread(w, IF Raises[handler[w].job] = "read" THEN "failed" ELSE "measured")
    /\ UNCHANGED <<observation, job, importing, file, process, reader, bounds>>

\* Mutant of OpenPreview: a preview that is there is not made again.
OpenPreviewOnce(w) ==
    LET o == handler[w].job IN
    /\ Runs(w, "measured")
    /\ IF output[o] = "absent"
       THEN /\ output' = [output EXCEPT ![o] = "part"]
            /\ opener' = [opener EXCEPT ![o] = w]
            /\ Thread(w, "writing")
       ELSE Thread(w, "completed") /\ UNCHANGED file
    /\ UNCHANGED <<observation, job, importing, process, reader, bounds>>

\* preview.save creates or empties the file,
OpenPreview(w) ==
    LET o == handler[w].job IN
    /\ Runs(w, "measured")
    /\ output' = [output EXCEPT ![o] = "part"]
    /\ opener' = [opener EXCEPT ![o] = w]
    /\ Thread(w, "writing")
    /\ UNCHANGED <<observation, job, importing, process, reader, bounds>>

\* and writes it, or not all of it. All attempts write the same bytes, so the file is
\* whole when the one who emptied it last has written all; a file removed in between
\* stays removed.
WritePreview(w) ==
    LET o == handler[w].job
        raises == Raises[o] = "write" IN
    /\ Runs(w, "writing")
    /\ output' = [output EXCEPT ![o] = IF opener[o] = w /\ ~raises THEN "whole" ELSE @]
    /\ Thread(w, IF raises THEN "failed" ELSE "completed")
    /\ UNCHANGED <<observation, job, importing, opener, process, reader, bounds>>

\* The thread writes its result and ends, and with it a process whose input has ended.
RunJobEnds(w) ==
    /\ Runs(w, "completed") \/ Runs(w, "failed")
    /\ handler' = [handler EXCEPT ![w] = Idle]
    /\ IF process[w] = "orphan"
       THEN process' = [process EXCEPT ![w] = "gone"] /\ UNCHANGED reader
       ELSE /\ reader' = [reader EXCEPT
                            ![w] = [op |-> handler[w].op, job |-> handler[w].job,
                                    preview |-> "none"]]
            /\ UNCHANGED process
    /\ UNCHANGED <<observation, job, importing, file, bounds>>
-----------------------------------------------------------------------------
(* The Core: handle_job_result *)

\* Mutant of handle_job_result: this job is not told from one that has no output.
handle_job_result_bare(w) ==
    LET r == reader[w] IN
    /\ r.op \in {"completed", "failed"}
    /\ IF job[r.job].worker = w
       THEN Read(w, IF r.op = "completed" THEN "complete" ELSE "fail")
       ELSE Done(w)
    /\ UNCHANGED <<observation, job, importing, file, process, handler, bounds>>

\* A result is for the worker that the job is assigned to.
handle_job_result(w) ==
    LET r == reader[w] IN
    /\ r.op \in {"completed", "failed"}
    /\ IF job[r.job].worker = w
       THEN Read(w, IF r.op = "completed" THEN "import" ELSE "fail")
       ELSE Done(w)
    /\ UNCHANGED <<observation, job, importing, file, process, handler, bounds>>

\* The file is read into the artifact store, as it is, or is missing.
import_worker_output(w) ==
    LET r == reader[w] IN
    /\ r.op = "import"
    /\ IF output[r.job] = "absent" THEN Read(w, "fail")
       ELSE reader' = [reader EXCEPT ![w].preview = output[r.job], ![w].op = "remove"]
    /\ UNCHANGED <<observation, job, importing, file, process, handler, bounds>>

RemoveOutput(w) ==
    LET o == reader[w].job IN
    /\ reader[w].op = "remove"
    /\ output' = [output EXCEPT ![o] = "absent"]
    /\ opener' = [opener EXCEPT ![o] = NULL]
    /\ Read(w, "apply")
    /\ UNCHANGED <<observation, job, importing, process, handler, bounds>>

\* apply_image_analysis: the observation gets its quality, COMPLETED, and its preview.
apply_observation_analysis(w) ==
    LET r == reader[w] IN
    /\ r.op = "apply"
    /\ observation' = [observation EXCEPT
                         ![r.job] = [state |-> "COMPLETED", preview |-> r.preview]]
    /\ Read(w, "complete")
    /\ UNCHANGED <<job, importing, file, process, handler, bounds>>

\* The transition, which does not ask again whose job it is.
complete(w) ==
    LET r == reader[w] IN
    /\ r.op = "complete"
    /\ job' = IF job[r.job].state = "RUNNING"
              THEN [job EXCEPT ![r.job] = TransitionRow(@, @, "COMPLETED")] ELSE job
    /\ Done(w)
    /\ UNCHANGED <<observation, importing, file, process, handler, bounds>>


fail(w) ==
    LET r == reader[w] IN
    /\ r.op = "fail"
    /\ job' = IF job[r.job].state = "RUNNING"
              THEN [job EXCEPT ![r.job] = ReleasedRow(@, "FAILED")] ELSE job
    /\ Done(w)
    /\ UNCHANGED <<observation, importing, file, process, handler, bounds>>
-----------------------------------------------------------------------------
(* What goes wrong *)

\* recover_worker_lost of the workers ws, and, for all of them, recover_interrupted.
Recovered(ws) ==
    [o \in Observations |-> IF job[o].state = "RUNNING" /\ job[o].worker \in ws
                            THEN ReleasedRow(job[o], recovery_target(job[o]))
                            ELSE job[o]]

\* A process dies, in the middle of the file or not. What it has written is read.
WorkerExits(w) ==
    /\ exits < MaxExits /\ exits' = exits + 1
    /\ process[w] \in {"up", "lost"}
    /\ process' = [process EXCEPT ![w] = "exited"]
    /\ handler' = [handler EXCEPT ![w] = Idle]
    /\ UNCHANGED <<observation, job, importing, file, reader, boots, overlaps>>

\* Then the reader finds the end of its output.
ReaderEnds(w) ==
    /\ process[w] = "exited" /\ reader[w] = Idle
    /\ process' = [process EXCEPT ![w] = "gone"]
    /\ job' = Recovered({w})
    /\ UNCHANGED <<observation, importing, file, handler, reader, bounds>>

\* A process, or the Core, stalls until the worker counts as LOST. It is alive.
WorkerLost(w) ==
    /\ overlaps < MaxOverlaps /\ overlaps' = overlaps + 1
    /\ process[w] = "up"
    /\ process' = [process EXCEPT ![w] = "lost"]
    /\ job' = Recovered({w})
    /\ UNCHANGED <<observation, importing, file, handler, reader, boots, exits>>

\* The Core stops and starts again. Its processes end with their input, but not before
\* the thread of a job has ended: some may be killed, some not.
Restart ==
    \E orphans \in SUBSET {w \in Workers : handler[w] # Idle} :
      /\ boots < MaxBoots /\ boots' = boots + 1
      /\ overlaps + Cardinality(orphans) <= MaxOverlaps
      /\ overlaps' = overlaps + Cardinality(orphans)
      /\ process' = [w \in Workers |-> IF w \in orphans THEN "orphan"
                                       ELSE IF w \in SpawnedBy(boots + 1) THEN "up"
                                       ELSE IF process[w] = "off" THEN "off" ELSE "gone"]
      /\ handler' = [w \in Workers |-> IF w \in orphans THEN handler[w] ELSE Idle]
      /\ reader' = [w \in Workers |-> Idle]
      /\ importing' = FALSE
      /\ job' = Recovered(Workers)
      /\ UNCHANGED <<observation, file, exits>>
-----------------------------------------------------------------------------
Import == \/ create_images
          \/ \E o \in Observations : create_with_input(o) \/ resolve_dependencies(o)

Scheduler == \E w \in Workers, o \in Observations : start_on_worker(w, o)

Process(w) == analyze_observation(w) \/ OpenPreview(w) \/ WritePreview(w) \/ RunJobEnds(w)

Reader(w) ==
    \/ handle_job_result(w) \/ import_worker_output(w) \/ RemoveOutput(w)
    \/ apply_observation_analysis(w) \/ complete(w) \/ fail(w) \/ ReaderEnds(w)

Fault == Restart \/ \E w \in Workers : WorkerExits(w) \/ WorkerLost(w)

Next == Import \/ Scheduler \/ (\E w \in Workers : Process(w) \/ Reader(w)) \/ Fault

Spec == Init /\ [][Next]_vars

\* The tasks of the Core go on, and handlers end. No fault has to happen.
FairSpec ==
    /\ Spec
    /\ WF_vars(Import) /\ WF_vars(Scheduler)
    /\ \A w \in Workers : WF_vars(Process(w)) /\ WF_vars(Reader(w))
-----------------------------------------------------------------------------
TypeOK ==
    /\ observation \in [Observations -> [state : {"NONE", "PENDING", "COMPLETED"},
                                         preview : {"none", "part", "whole"}]]
    /\ job \in [Observations -> Rows]
    /\ output \in [Observations -> {"absent", "part", "whole"}]
    /\ opener \in [Observations -> Workers \cup {NULL}]
    /\ process \in [Workers -> {"off", "up", "lost", "orphan", "exited", "gone"}]
    /\ \A w \in Workers : process[w] \in {"off", "exited", "gone"} => handler[w] = Idle

\* Safety: a COMPLETED job has an analysed observation with a preview, also when it was
\* recovered while its result was handled, and whoever else still works on it.
CompletedIsAnalysed ==
    \A o \in Observations : job[o].state = "COMPLETED" =>
      observation[o].state = "COMPLETED" /\ observation[o].preview # "none"

\* Safety: as long as the Core knows of every process that works, the preview of an
\* observation is never a part of one: not what a process that died left behind, nor
\* what the next attempt is about to write to the same path.
PreviewIsWhole ==
    overlaps = 0 => \A o \in Observations : observation[o].preview # "part"

\* Safety: and a job FAILS only because its handler raises or because both of its
\* attempts were interrupted. No result finds its file missing.
FailedForAReason ==
    overlaps = 0 =>
      \A o \in Observations : job[o].state = "FAILED" =>
        Raises[o] # "never" \/ (job[o].attempt = 2 /\ boots + exits > 2)

\* A job that nothing will ever look at: the Core stopped between the statement that
\* inserted it and the one that makes it READY.
LeftCreated(o) == job[o].state = "CREATED" /\ ~importing

=============================================================================
