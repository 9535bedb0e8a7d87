----------------------------- MODULE JobGraph -----------------------------
(***************************************************************************)
(* The dependency half of src/core/src/job_engine.rs: add_dependency and   *)
(* resolve_dependencies over table job_dependencies, run by tasks that     *)
(* interleave between their SQL statements, next to RESUME_JOB, which      *)
(* reaches READY through transition without looking at dependencies.       *)
(*                                                                         *)
(* Of a job only the state matters here. How a job that is READY runs and  *)
(* ends is the lifecycle JobEngine is shown to implement.                  *)
(***************************************************************************)
EXTENDS JobRows, Sequences, FiniteSets

CONSTANTS JobIds,     \* job ids
          Adders,     \* tasks that call add_dependency
          Resolvers,  \* tasks that call resolve_dependencies
          Resumers,   \* tasks that execute RESUME_JOB
          WorldOf,    \* [JobIds -> worlds and NULL]: the world of a job
          MaxDeps,    \* bound on the dependencies, those being added included
          MaxOptional \* bound on the optional ones among them

Tasks == Adders \cup Resolvers \cup Resumers

VARIABLES state,  \* [JobIds -> JobStates \cup {"NONE"}]
          deps,   \* table job_dependencies: {[job, dep, optional]}
          task,   \* [Tasks -> TaskStates]: the call a task is in
          overtaken,  \* history: adders whose check another's INSERT has overtaken
          raced       \* history: the edges <<job, dep>> that such an adder made

race == <<overtaken, raced>>
graphVars == <<state, deps, task, race>>

Dependencies == [job : JobIds, dep : JobIds, optional : BOOLEAN]

NoCall == [op |-> "idle"]

\* The transitions a call still has to make.
Paths == {<<"READY">>, <<"PENDING">>, <<"BLOCKED">>, <<"PENDING", "BLOCKED">>}

TaskStates ==
    {NoCall}
    \cup [op : {"insert"}, job : JobIds, dep : JobIds, optional : BOOLEAN]
    \cup [op : {"resolve"}, job : JobIds, current : JobStates]
    \cup [op : {"get"}, job : JobIds, path : Paths, required : SUBSET JobIds]
    \cup [op : {"update"}, job : JobIds, path : Paths, required : SUBSET JobIds,
          from : JobStates]

GraphTypeOK ==
    /\ state \in [JobIds -> JobStates \cup {"NONE"}]
    /\ deps \subseteq Dependencies
    /\ \A d, e \in deps : d.job = e.job /\ d.dep = e.dep => d = e
    /\ task \in [Tasks -> TaskStates]

GraphInit ==
    /\ state = [j \in JobIds |-> "NONE"]
    /\ deps = {}
    /\ task = [c \in Tasks |-> NoCall]
    /\ overtaken = {} /\ raced = {}

Goto(c, record) == task' = [task EXCEPT ![c] = record]

create(j) ==
    /\ state[j] = "NONE"
    /\ state' = [state EXCEPT ![j] = "CREATED"]
    /\ UNCHANGED <<deps, task, race>>

\* A READY job is started, run to an end, and any job may be cancelled.
Execute(j) ==
    /\ \E to \in {"RUNNING"} \cup Terminal :
         /\ can_transition(state[j], to)
         /\ state[j] \in {"READY", "RUNNING"} \/ to = "CANCELLED"
         /\ state' = [state EXCEPT ![j] = to]
    /\ UNCHANGED <<deps, task, race>>
-----------------------------------------------------------------------------
Direct(graph, j) == {d.dep : d \in {e \in graph : e.job = j}}

Closed(graph, set) == \A k \in set : Direct(graph, k) \subseteq set

\* The jobs that j depends on, directly or not. The recursive query adds to the
\* direct ones the direct ones of what it has, until nothing is new: what it
\* returns is the least set that has those of j and is closed.
Reachable(graph, j) ==
    LET complete == {set \in SUBSET JobIds :
                       Direct(graph, j) \subseteq set /\ Closed(graph, set)}
    IN  {k \in JobIds : \A set \in complete : k \in set}

OneWorld(j, k) == NULL \in {WorldOf[j], WorldOf[k]} \/ WorldOf[j] = WorldOf[k]

Room(optional) ==
    LET adding == {c \in Adders : task[c].op = "insert"} IN
    /\ Cardinality(deps) + Cardinality(adding) < MaxDeps
    /\ optional => Cardinality({d \in deps : d.optional})
                     + Cardinality({c \in adding : task[c].optional}) < MaxOptional

\* Mutant of add_dependency: only a direct dependency back is looked for.
add_dependency_direct(c, j, k, optional) ==
    /\ task[c] = NoCall
    /\ Room(optional)
    /\ j # k
    /\ "NONE" \notin {state[j], state[k]}
    /\ OneWorld(j, k)
    /\ j \notin Direct(deps, k)
    /\ Goto(c, [op |-> "insert", job |-> j, dep |-> k, optional |-> optional])
    /\ UNCHANGED <<state, deps, race>>

\* Both jobs exist, in one world, so the call goes on to the cycle check; a check
\* that finds a path back returns an error.
add_dependency(c, j, k, optional) ==
    /\ task[c] = NoCall
    /\ Room(optional)
    /\ j # k
    /\ "NONE" \notin {state[j], state[k]}
    /\ OneWorld(j, k)
    /\ j \notin Reachable(deps, k)
    /\ Goto(c, [op |-> "insert", job |-> j, dep |-> k, optional |-> optional])
    /\ UNCHANGED <<state, deps, race>>

\* The checks an INSERT of edge overtakes, and the edges that an overtaken check
\* has let in. An edge that is there already changes no graph.
Record(c, edge) ==
    LET new == \A d \in deps : <<d.job, d.dep>> # edge IN
    /\ overtaken' = (overtaken \cup (IF new THEN {d \in Adders : task[d].op = "insert"}
                                            ELSE {})) \ {c}
    /\ raced' = IF c \notin overtaken THEN raced \ {edge}
                ELSE IF new THEN raced \cup {edge} ELSE raced

\* INSERT ... ON CONFLICT DO UPDATE SET optional.
InsertDependency(c) ==
    LET edge == <<task[c].job, task[c].dep>> IN
    /\ task[c].op = "insert"
    /\ deps' = {d \in deps : <<d.job, d.dep>> # edge}
               \cup {[job |-> task[c].job, dep |-> task[c].dep,
                      optional |-> task[c].optional]}
    /\ Record(c, edge)
    /\ Goto(c, NoCall)
    /\ UNCHANGED state
-----------------------------------------------------------------------------
\* The job is read; the states of its dependencies are read by the next
\* statement.
resolve_dependencies(c, j) ==
    /\ task[c] = NoCall
    /\ state[j] \in {"CREATED", "PENDING", "BLOCKED"}
    /\ Goto(c, [op |-> "resolve", job |-> j, current |-> state[j]])
    /\ UNCHANGED <<state, deps, race>>

Required(j) == {d.dep : d \in {e \in deps : e.job = j /\ ~e.optional}}

\* Mutant of ResolvedState: a dependency that has started is taken for done.
ResolvedStateEarly(required) ==
    IF \E k \in required : state[k] \in {"FAILED", "CANCELLED"} THEN "BLOCKED"
    ELSE IF \E k \in required : state[k] \notin {"RUNNING", "COMPLETED"} THEN "PENDING"
    ELSE "READY"

ResolvedState(required) ==
    IF \E k \in required : state[k] \in {"FAILED", "CANCELLED"} THEN "BLOCKED"
    ELSE IF \E k \in required : state[k] # "COMPLETED" THEN "PENDING"
    ELSE "READY"

\* CREATED reaches BLOCKED through PENDING, by two transitions.
ReadDependencies(c) ==
    LET r == task[c]
        required == Required(r.job)
        target == ResolvedState(required)
        path == IF r.current = "CREATED" /\ target = "BLOCKED"
                THEN <<"PENDING", "BLOCKED">> ELSE <<target>>
    IN  /\ r.op = "resolve"
        /\ Goto(c, IF r.current = target THEN NoCall
                     ELSE [op |-> "get", job |-> r.job, path |-> path,
                           required |-> required])
        /\ UNCHANGED <<state, deps, race>>

\* RESUME_JOB is transition(READY) and nothing else.
resume_job(c, j) ==
    /\ task[c] = NoCall
    /\ state[j] # "NONE"
    /\ Goto(c, [op |-> "get", job |-> j, path |-> <<"READY">>,
                  required |-> {}])
    /\ UNCHANGED <<state, deps, race>>

\* What is left of a call once its first transition has succeeded.
AfterTransition(t) ==
    IF Len(t.path) = 1 THEN NoCall
    ELSE [op |-> "get", job |-> t.job, path |-> Tail(t.path),
          required |-> t.required]

\* The SELECT of transition: done if the job is there already, an error when
\* the edge is illegal.
MoveGet(c) ==
    LET t == task[c]
        to == Head(t.path) IN
    /\ t.op = "get"
    /\ Goto(c, IF state[t.job] = to THEN AfterTransition(t)
                 ELSE IF can_transition(state[t.job], to)
                 THEN [op |-> "update", job |-> t.job, path |-> t.path,
                       required |-> t.required, from |-> state[t.job]]
                 ELSE NoCall)
    /\ UNCHANGED <<state, deps, race>>

\* The UPDATE of transition, conditional on the state the SELECT saw.
MoveUpdate(c) ==
    LET t == task[c] IN
    /\ t.op = "update"
    /\ IF state[t.job] = t.from
       THEN /\ state' = [state EXCEPT ![t.job] = Head(t.path)]
            /\ Goto(c, AfterTransition(t))
       ELSE Goto(c, NoCall) /\ UNCHANGED state
    /\ UNCHANGED <<deps, race>>
-----------------------------------------------------------------------------
AddStep(c) ==
    \/ \E j, k \in JobIds, b \in BOOLEAN : add_dependency(c, j, k, b)
    \/ InsertDependency(c)

MoveStep(c) == MoveGet(c) \/ MoveUpdate(c)

ResolveStep(c) ==
    \/ \E j \in JobIds : resolve_dependencies(c, j)
    \/ ReadDependencies(c)

GraphNext ==
    \/ \E j \in JobIds : create(j) \/ Execute(j)
    \/ \E c \in Adders : AddStep(c)
    \/ \E c \in Resolvers : ResolveStep(c)
    \/ \E c \in Resumers, j \in JobIds : resume_job(c, j)
    \/ \E c \in Resolvers \cup Resumers : MoveStep(c)

GraphSpec == GraphInit /\ [][GraphNext]_graphVars
-----------------------------------------------------------------------------
\* The edges whose check no other INSERT has overtaken.
Clean == {d \in deps : <<d.job, d.dep>> \notin raced}

\* Safety: every cycle of the dependency graph, of any length, has an edge that was
\* checked before another edge was inserted, and inserted after it: what one task
\* adds after another never closes a cycle, not even one that starts from a graph
\* that a race has already made cyclic.
Acyclic == \A j \in JobIds : j \notin Reachable(Clean, j)

\* Action: when resolve_dependencies moves a job, the reason still holds at the
\* UPDATE: every required dependency it read has completed when it writes READY,
\* and one of them has failed or been cancelled for good when it writes BLOCKED,
\* though other tasks ran between the read and the write.
ResolvedForCause ==
    [][\A c \in Resolvers :
         (MoveUpdate(c) /\ state[task[c].job] = task[c].from) =>
           LET to == Head(task[c].path)
               required == task[c].required IN
           /\ to = "READY" => \A k \in required : state[k] = "COMPLETED"
           /\ to = "BLOCKED" =>
                \E k \in required : state[k] \in {"FAILED", "CANCELLED"}]_graphVars
=============================================================================
