--------------------------- MODULE JobLifecycle ---------------------------
(***************************************************************************)
(* What the job engine promises about one job whatever the interleaving of *)
(* its callers: the state moves along the edges of the lifecycle, a        *)
(* terminal job stays terminal, a checkpoint is never lost, and losing a   *)
(* worker puts a job back in the queue only when it is idempotent and      *)
(* keeps it resumable only when it has a checkpoint. JobEngine implements  *)
(* this specification.                                                     *)
(***************************************************************************)
EXTENDS JobRows

CONSTANT Jobs

VARIABLE life   \* [Jobs -> Lives]

Lives == [state : JobStates \cup {"NONE"}, idempotent : BOOLEAN,
          checkpoint : BOOLEAN]

Init == life = [j \in Jobs |-> [state |-> "NONE", idempotent |-> FALSE,
                                checkpoint |-> FALSE]]

\* The ways the life a of a job may become b.
Created(a, b) ==
    a.state = "NONE" /\ b.state = "CREATED" /\ ~b.checkpoint

Moved(a, b) ==
    can_transition(a.state, b.state) /\ b = [a EXCEPT !.state = b.state]

Checkpointed(a, b) ==
    /\ a.state # "NONE" /\ b.checkpoint
    /\ b = [a EXCEPT !.checkpoint = b.checkpoint]

WorkerLost(a, b) ==
    /\ a.state \in Active
    /\ \/ b.state = "READY" /\ a.idempotent
       \/ b.state = "RECOVERABLE" /\ a.checkpoint
       \/ b.state = "FAILED"
    /\ b = [a EXCEPT !.state = b.state]

Step(a, b) ==
    Created(a, b) \/ Moved(a, b) \/ Checkpointed(a, b) \/ WorkerLost(a, b)

Next ==
    /\ life' \in [Jobs -> Lives]
    /\ \E j \in Jobs : /\ Step(life[j], life'[j])
                       /\ \A i \in Jobs \ {j} : life'[i] = life[i]

Spec == Init /\ [][Next]_life
=============================================================================
