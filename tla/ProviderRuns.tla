---------------------------- MODULE ProviderRuns ----------------------------
(***************************************************************************)
(* Work done by paid remote services: the adapters of src/core/src/provider*)
(* (image_edit.rs and image_to_3d.rs over the queue of fal.rs, sfx.rs,     *)
(* world_labs.rs), the table they record their runs in                     *)
(* (provider_run_repository.rs), and asset_generation.rs, which chains two *)
(* of them.                                                                *)
(*                                                                         *)
(* A generation is a call that makes one run after another. Every request  *)
(* and every statement is a step; the service takes its own steps between  *)
(* them, and may take an order whose caller has given up long ago. Of a    *)
(* service's answer only the state of the work and the files matter. That  *)
(* a file is stored whole is what ArtifactStore is about; here importing   *)
(* one is a step.                                                          *)
(***************************************************************************)
EXTENDS Naturals, Sequences

CONSTANTS Generations,
          Plan,       \* [Generations -> Seq(Kinds)]: the runs of a generation
          Together,   \* SUBSET SUBSET Generations: those asked for side by side
          Files,      \* contents that services deliver
          Images,     \* those that are images
          Processed,  \* what audio post-processing makes of a sound
          Results,    \* [Kinds -> SUBSET SUBSET Files]: what a service may deliver
          MaxFaults   \* bound on failed steps and stops of the Core

Kinds == {"EDIT", "MODEL", "AUDIO", "WORLD"}

ASSUME PlanAssumption ==
    /\ Plan \in [Generations -> Seq(Kinds) \ {<<>>}]
    /\ Together \subseteq SUBSET Generations
ASSUME ResultsAssumption ==
    /\ Results \in [Kinds -> SUBSET SUBSET Files]
    /\ Images \subseteq Files /\ Processed \in Files
ASSUME AssetAssumption ==   \* a model that follows something follows an edit
    \A g \in Generations : \A n \in 2..Len(Plan[g]) :
      Plan[g][n] = "MODEL" => Plan[g][n - 1] = "EDIT"

VARIABLES row,        \* [Runs -> Rows]: table ai_provider_runs
          remote,     \* [Runs -> state of the order at the service]
          result,     \* [Runs -> SUBSET Files]: what the service has made
          call,       \* [Generations -> where the call stands]
          late,       \* runs that have been polled for their whole timeout
          artifacts,  \* SUBSET Files: contents in the artifact store
          answer,     \* [Generations -> {"none", "ok", "error"}]
          faults

service == <<remote, result>>
vars == <<row, remote, result, call, late, artifacts, answer, faults>>

Runs == UNION {{<<g, n>> : n \in 1..Len(Plan[g])} : g \in Generations}

Rows == [status : {"ABSENT", "CREATED", "SUBMITTED", "RUNNING", "COMPLETED", "FAILED"},
         request : BOOLEAN, outputs : SUBSET Files]
NoRun == [status |-> "ABSENT", request |-> FALSE, outputs |-> {}]

\* An order is "sent", then taken ("working") or "refused", then "done" or "failed".
Taken == {"working", "done", "failed"}

\* n: the run of the plan; seen: the state in the last answer; todo and got: files.
Start(n) == [op |-> "start", n |-> n, seen |-> "working", todo |-> {}, got |-> {}]
Stopped == [Start(1) EXCEPT !.op = "stopped"]
NotAsked == [Start(1) EXCEPT !.op = "end"]

Init ==
    /\ row = [r \in Runs |-> NoRun]
    /\ remote = [r \in Runs |-> "unsent"]
    /\ result = [r \in Runs |-> {}]
    /\ \E asked \in Together :
         call = [g \in Generations |-> IF g \in asked THEN Start(1) ELSE NotAsked]
    /\ late = {}
    /\ artifacts = {}
    /\ answer = [g \in Generations |-> "none"]
    /\ faults = 0

Run(g) == <<g, call[g].n>>
Kind(g) == Plan[g][call[g].n]
At(g, op) == call[g].op = op
Goto(g, op) == call' = [call EXCEPT ![g].op = op]

\* The call returns.
Return(g, what) ==
    /\ call' = [call EXCEPT ![g] = [Start(@.n) EXCEPT !.op = "end"]]
    /\ answer' = [answer EXCEPT ![g] = what]
-----------------------------------------------------------------------------
\* Mutant of create: the row is left for later.
create_later(g) ==
    /\ At(g, "start")
    /\ Goto(g, "send")
    /\ UNCHANGED <<row, service, late, artifacts, answer, faults>>

create(g) ==
    /\ At(g, "start")
    /\ row' = [row EXCEPT ![Run(g)] = [NoRun EXCEPT !.status = "CREATED"]]
    /\ Goto(g, "send")
    /\ UNCHANGED <<service, late, artifacts, answer, faults>>

\* The order leaves: a POST with the input, to a queue or to worlds:generate.
submit(g) ==
    /\ At(g, "send")
    /\ remote' = [remote EXCEPT ![Run(g)] = "sent"]
    /\ Goto(g, "await")
    /\ UNCHANGED <<row, result, late, artifacts, answer, faults>>

\* An answer about work tells its state as it is, or as it was before it ended. One
\* that cannot be read counts as still working.
Told(r) == {"working", remote[r]}

\* The answer to the order: an error, or the id of the work, which for World Labs
\* comes with its state.
Submitted(g) ==
    /\ At(g, "await")
    /\ remote[Run(g)] # "sent"
    /\ IF remote[Run(g)] = "refused" THEN Goto(g, "fail")
       ELSE \E seen \in IF Kind(g) = "WORLD" THEN Told(Run(g)) ELSE {"working"} :
              call' = [call EXCEPT ![g].op = "submitted", ![g].seen = seen]
    /\ UNCHANGED <<row, service, late, artifacts, answer, faults>>

\* Mutant of FalNext: nobody looks at the clock.
FalNextUntimed(seen, timeout) ==
    IF seen = "done" THEN "collect" ELSE IF seen = "failed" THEN "fail" ELSE "poll"

\* What an adapter of the queue does with a state it has recorded.
FalNext(seen, timeout) ==
    IF seen = "done" THEN "collect"
    ELSE IF seen = "failed" \/ timeout THEN "fail"
    ELSE "poll"

\* What world_labs.rs does with a state before it records it.
WorldNext(seen, timeout) ==
    IF seen = "done" THEN "collect"
    ELSE IF seen = "failed" \/ timeout THEN "fail"
    ELSE "status"

mark_submitted(g) ==
    /\ At(g, "submitted")
    /\ row' = [row EXCEPT ![Run(g)].status = "SUBMITTED", ![Run(g)].request = TRUE]
    /\ Goto(g, IF Kind(g) = "WORLD" THEN WorldNext(call[g].seen, FALSE) ELSE "poll")
    /\ UNCHANGED <<service, late, artifacts, answer, faults>>

\* The state of the work is asked for and answered.
Polled(g) ==
    /\ At(g, "poll")
    /\ \E seen \in Told(Run(g)) :
         call' = [call EXCEPT
                    ![g].seen = seen,
                    ![g].op = IF Kind(g) = "WORLD"
                              THEN WorldNext(seen, Run(g) \in late) ELSE "status"]
    /\ UNCHANGED <<row, service, late, artifacts, answer, faults>>

\* The queue's adapters record a state and then act on it.
mark_status(g) ==
    /\ At(g, "status")
    /\ row' = [row EXCEPT ![Run(g)].status = "RUNNING"]
    /\ Goto(g, IF Kind(g) = "WORLD" THEN "poll"
               ELSE FalNext(call[g].seen, Run(g) \in late))
    /\ UNCHANGED <<service, late, artifacts, answer, faults>>

\* The result is fetched (World Labs' came with the state), and its files are listed.
Collect(g) ==
    /\ At(g, "collect")
    /\ call' = [call EXCEPT ![g].todo = result[Run(g)],
                            ![g].op = IF result[Run(g)] = {} THEN "fail" ELSE "import"]
    /\ UNCHANGED <<row, service, late, artifacts, answer, faults>>

\* Mutant of import_source: the other files are left for later.
import_source_first(g) ==
    /\ At(g, "import")
    /\ \E f \in call[g].todo :
         /\ artifacts' = artifacts \cup {f}
         /\ call' = [call EXCEPT ![g].todo = {}, ![g].got = {f}, ![g].op = "complete"]
    /\ UNCHANGED <<row, service, late, answer, faults>>

\* One file is downloaded into the artifact store.
import_source(g) ==
    /\ At(g, "import")
    /\ \E f \in call[g].todo :
         /\ artifacts' = artifacts \cup {f}
         /\ call' = [call EXCEPT
                       ![g].todo = @ \ {f}, ![g].got = @ \cup {f},
                       ![g].op = IF call[g].todo # {f} THEN "import"
                                 ELSE IF Kind(g) = "AUDIO" THEN "postprocess"
                                 ELSE "complete"]
    /\ UNCHANGED <<row, service, late, answer, faults>>

\* A sound is analysed, and, if it is to be, trimmed and stored once more.
postprocess_audio(g) ==
    /\ At(g, "postprocess")
    /\ \E made \in {{}, {Processed}} :
         /\ artifacts' = artifacts \cup made
         /\ call' = [call EXCEPT ![g].got = @ \cup made, ![g].op = "complete"]
    /\ UNCHANGED <<row, service, late, answer, faults>>

HasImage(files) == files \cap Images # {}

\* Mutant of NextRun: the model is made of whatever there is.
NextRunBlind(g) ==
    IF call[g].n < Len(Plan[g])
    THEN call' = [call EXCEPT ![g] = Start(@.n + 1)] /\ UNCHANGED answer
    ELSE Return(g, "ok")

\* A run was completed: asset generation goes on with the first image among the
\* outputs of an edit, and fails without one; sounds are made one after another.
NextRun(g) ==
    IF Kind(g) = "EDIT" /\ ~HasImage(call[g].got) THEN Return(g, "error")
    ELSE IF call[g].n < Len(Plan[g])
    THEN call' = [call EXCEPT ![g] = Start(@.n + 1)] /\ UNCHANGED answer
    ELSE Return(g, "ok")

complete(g) ==
    /\ At(g, "complete")
    /\ row' = [row EXCEPT ![Run(g)].status = "COMPLETED",
                          ![Run(g)].outputs = call[g].got]
    /\ NextRun(g)
    /\ UNCHANGED <<service, late, artifacts, faults>>

\* Mutant of fail: the error is returned and not stored.
fail_unstored(g) ==
    /\ At(g, "fail")
    /\ Return(g, "error")
    /\ UNCHANGED <<row, service, late, artifacts, faults>>

\* Whatever went wrong after create: the run is FAILED and the call returns.
fail(g) ==
    /\ At(g, "fail")
    /\ row' = [row EXCEPT ![Run(g)].status = "FAILED"]
    /\ Return(g, "error")
    /\ UNCHANGED <<service, late, artifacts, faults>>
-----------------------------------------------------------------------------
(* The service, and time *)

\* It takes or refuses an order that was sent, whether or not anybody waits for it.
Take(r) ==
    /\ remote[r] = "sent"
    /\ \E state \in {"working", "refused"} : remote' = [remote EXCEPT ![r] = state]
    /\ UNCHANGED <<row, result, call, late, artifacts, answer, faults>>

\* Work ends, in files or not.
Finish(r) ==
    /\ remote[r] = "working"
    /\ \/ /\ \E files \in Results[Plan[r[1]][r[2]]] : result' = [result EXCEPT ![r] = files]
          /\ remote' = [remote EXCEPT ![r] = "done"]
       \/ remote' = [remote EXCEPT ![r] = "failed"] /\ UNCHANGED result
    /\ UNCHANGED <<row, call, late, artifacts, answer, faults>>

\* The adapter has waited for the whole timeout.
TimePasses(g) ==
    /\ call[g].op \in {"poll", "status"}
    /\ Run(g) \notin late
    /\ late' = late \cup {Run(g)}
    /\ UNCHANGED <<row, service, call, artifacts, answer, faults>>
-----------------------------------------------------------------------------
(* What goes wrong *)

Fault == faults < MaxFaults /\ faults' = faults + 1

\* A request, a download, a statement or a tool fails. Before there is a row, and when
\* the failure itself is what cannot be stored, the call just returns.
StepFails(g) ==
    /\ Fault
    /\ \/ call[g].op \in {"start", "fail"} /\ Return(g, "error")
       \/ /\ call[g].op \in {"await", "submitted", "poll", "status", "collect",
                             "import", "postprocess", "complete"}
          /\ Goto(g, "fail")
          /\ UNCHANGED answer
    /\ UNCHANGED <<row, service, late, artifacts>>

\* The Core stops. Nothing takes up a run again when it starts.
Crash ==
    /\ Fault
    /\ call' = [g \in Generations |-> IF At(g, "end") THEN call[g] ELSE Stopped]
    /\ UNCHANGED <<row, service, late, artifacts, answer>>

Step(g) ==
    \/ create(g) \/ submit(g) \/ Submitted(g) \/ mark_submitted(g)
    \/ Polled(g) \/ mark_status(g)
    \/ Collect(g) \/ import_source(g) \/ postprocess_audio(g)
    \/ complete(g) \/ fail(g)

Next ==
    \/ \E g \in Generations : Step(g) \/ TimePasses(g) \/ StepFails(g)
    \/ \E r \in Runs : Take(r) \/ Finish(r)
    \/ Crash

Spec == Init /\ [][Next]_vars

\* A call goes on, the service answers every request, and the clock runs. The service
\* need not ever finish its work.
FairSpec ==
    /\ Spec
    /\ \A g \in Generations : WF_vars(Step(g)) /\ WF_vars(TimePasses(g))
    /\ \A r \in Runs : WF_vars(Take(r))
-----------------------------------------------------------------------------
TypeOK ==
    /\ row \in [Runs -> Rows]
    /\ remote \in [Runs -> {"unsent", "sent", "refused"} \cup Taken]
    /\ result \in [Runs -> SUBSET Files]
    /\ late \subseteq Runs
    /\ artifacts \subseteq Files
    /\ answer \in [Generations -> {"none", "ok", "error"}]
    /\ \A g \in Generations :
         /\ call[g].n \in 1..Len(Plan[g]) /\ call[g].seen \in Taken
         /\ call[g].todo \subseteq Files /\ call[g].got \subseteq Files

Ended(r) == row[r].status \in {"COMPLETED", "FAILED"}

\* Safety: a COMPLETED run lists all that the service delivered for it, and all of it
\* is in the artifact store, although the files come one by one and any may fail.
CompletedIsDelivered ==
    \A r \in Runs : row[r].status = "COMPLETED" =>
      /\ remote[r] = "done" /\ result[r] # {}
      /\ result[r] \subseteq row[r].outputs
      /\ row[r].outputs \subseteq result[r] \cup {Processed}
      /\ row[r].outputs \subseteq artifacts

\* Safety: unless something fails, the row of work that a service has taken tells its
\* request id as soon as the order is answered, so that it could be asked for again:
\* also when the adapter has given it up.
OrderIsTraceable ==
    faults = 0 =>
      \A r \in Runs : remote[r] \in Taken =>
        row[r].request \/ (Run(r[1]) = r /\ call[r[1]].op \in {"await", "submitted"})

\* Safety: what a generation answers is what its rows say. A good answer has every run
\* of the plan COMPLETED; an error has its last run FAILED, or an edit that gave no
\* image, unless the failure could not be stored; and no run follows a bad one.
AnswerIsStored ==
    \A g \in Generations :
      /\ answer[g] = "ok" => \A n \in 1..Len(Plan[g]) : row[<<g, n>>].status = "COMPLETED"
      /\ answer[g] = "error" /\ faults = 0 =>
           \/ row[Run(g)].status = "FAILED"
           \/ /\ Kind(g) = "EDIT" /\ row[Run(g)].status = "COMPLETED"
              /\ ~HasImage(row[Run(g)].outputs)
      /\ \A n \in 2..Len(Plan[g]) :
           row[<<g, n>>] # NoRun => row[<<g, n - 1>>].status = "COMPLETED"

\* Safety: a model is ordered only when its reference is an image in the artifact
\* store that the edit before it has delivered.
ModelFromReference ==
    \A g \in Generations : \A n \in 2..Len(Plan[g]) :
      (Plan[g][n] = "MODEL" /\ row[<<g, n>>] # NoRun) =>
        HasImage(row[<<g, n - 1>>].outputs \cap artifacts)

\* Liveness: a run ends although the service may work for ever, unless the Core stops
\* or the failure cannot be stored.
RunsEnd ==
    \A r \in Runs :
      (row[r] # NoRun) ~> \/ Ended(r) \/ At(r[1], "stopped")
                          \/ answer[r[1]] = "error" /\ faults > 0

\* Refinement: a run is work as RemoteWork has it.
Stage(r) ==
    CASE row[r].status = "ABSENT" -> IF remote[r] \in Taken THEN "ordered" ELSE "absent"
      [] row[r].status = "COMPLETED" -> "delivered"
      [] row[r].status = "FAILED" -> "given up"
      [] OTHER -> IF remote[r] \in Taken THEN "ordered" ELSE "wanted"
Abstract == INSTANCE RemoteWork WITH Work <- Runs, stage <- [r \in Runs |-> Stage(r)]
WorkSpec == Abstract!Spec
=============================================================================
