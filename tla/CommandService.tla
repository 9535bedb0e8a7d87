--------------------------- MODULE CommandService ---------------------------
(***************************************************************************)
(* src/core/src/command_service.rs: a command is executed under a lease    *)
(* kept in its row of table commands, and its response is stored there for *)
(* every later call with the same id. Each statement is a step; calls run  *)
(* concurrently, the Core may stop at any point, and the lease, which is   *)
(* never renewed, may run out under a call that is still executing.        *)
(*                                                                         *)
(* Of what a command does (execute_new), what matters here is whether it   *)
(* may be done again: CREATE_WORLD finds the world it created, ACCEPT      *)
(* refuses a candidate that is no longer pending (see WorldRevisions), and *)
(* IMPORT_OBSERVATIONS adds an observation of each file and a job for each *)
(* observation every time. All calls with one id carry the same content;   *)
(* ensure_same_command refuses others without writing.                     *)
(***************************************************************************)
EXTENDS Naturals, FiniteSets

CONSTANTS Commands,     \* command ids
          Kind,         \* [Commands -> {"CREATE_WORLD", "ACCEPT", "IMPORT"}]
          Calls,        \* calls of execute
          Files,        \* number of files an IMPORT names
          Slow,         \* commands whose execution may outlast the lease
          MaxCrashes,   \* bound on the stops of the Core
          NULL

ASSUME KindAssumption == Kind \in [Commands -> {"CREATE_WORLD", "ACCEPT", "IMPORT"}]
ASSUME SlowAssumption == Slow \subseteq Commands
ASSUME CallsAssumption == NULL \notin Calls
ASSUME FilesAssumption == Files \in Nat

VARIABLES row,      \* [Commands -> Rows]: table commands
          call,     \* [Calls -> where the call stands]
          done,     \* [Commands -> Nat]: effects of the command that are committed
          jobs,     \* [Commands -> [created, resolved : Nat]]: what an IMPORT queues
          crashes

vars == <<row, call, done, jobs, crashes>>
effects == <<done, jobs>>

\* lease is "live" or "expired" as of now, whoever looks; owner is the call that
\* generated the owner id.
Rows == [exists : BOOLEAN, response : {"NULL", "COMPLETED", "REJECTED"},
         owner : Calls \cup {NULL}, lease : {"NULL", "live", "expired"}]

NoRow == [exists |-> FALSE, response |-> "NULL", owner |-> NULL, lease |-> "NULL"]

\* stage counts the statements of an IMPORT that are done.
At(op, c) == [op |-> op, command |-> c, stage |-> 0, answer |-> "NULL"]
Start == At("start", NULL)

\* The observations, and two statements for the job of each.
Stages == 1 + 2 * Files

\* A call returns the response, ACCEPTED when another call is at work, or an
\* error; a call the Core stopped under never returns.
Steps ==
    {Start}
    \cup [op : {"load", "claim", "reload", "execute", "stopped"},
          command : Commands, stage : {0}, answer : {"NULL"}]
    \cup [op : {"execute"}, command : Commands, stage : 1..Stages, answer : {"NULL"}]
    \cup [op : {"persist"}, command : Commands, stage : {0},
          answer : {"COMPLETED", "REJECTED"}]
    \cup [op : {"returned"}, command : Commands, stage : {0},
          answer : {"COMPLETED", "REJECTED", "ACCEPTED", "error"}]

Init ==
    /\ row = [c \in Commands |-> NoRow]
    /\ call = [e \in Calls |-> Start]
    /\ done = [c \in Commands |-> 0]
    /\ jobs = [c \in Commands |-> [created |-> 0, resolved |-> 0]]
    /\ crashes = 0

RowOf(e) == row[call[e].command]
SetRow(e, r) == row' = [row EXCEPT ![call[e].command] = r]

Become(e, record) == call' = [call EXCEPT ![e] = record]
Goto(e, op) == Become(e, [call[e] EXCEPT !.op = op])
Return(e, a) == Become(e, [call[e] EXCEPT !.op = "returned", !.answer = a])
-----------------------------------------------------------------------------
\* INSERT ... ON CONFLICT DO NOTHING.
insert_command(e, c) ==
    /\ call[e] = Start
    /\ IF row[c].exists
       THEN Become(e, At("load", c)) /\ UNCHANGED row
       ELSE /\ row' = [row EXCEPT ![c] = [exists |-> TRUE, response |-> "NULL",
                                          owner |-> e, lease |-> "live"]]
            /\ Become(e, At("execute", c))
    /\ UNCHANGED <<effects, crashes>>

\* The first load of claim.
load(e) ==
    LET r == RowOf(e) IN
    /\ call[e].op = "load"
    /\ IF r.response # "NULL" THEN Return(e, r.response)
       ELSE IF r.lease = "live" THEN Return(e, "ACCEPTED")
       ELSE Goto(e, "claim")
    /\ UNCHANGED <<row, effects, crashes>>

\* Mutant of Claimable: the UPDATE does not look at the lease again.
ClaimableAlways(r) == r.response = "NULL"

\* The WHERE clause of the UPDATE that takes over the lease.
Claimable(r) == r.response = "NULL" /\ r.lease # "live"

claim(e) ==
    LET r == RowOf(e) IN
    /\ call[e].op = "claim"
    /\ IF Claimable(r)
       THEN /\ SetRow(e, [r EXCEPT !.owner = e, !.lease = "live"])
            /\ Goto(e, "execute")
       ELSE Goto(e, "reload") /\ UNCHANGED row
    /\ UNCHANGED <<effects, crashes>>

\* The second load: the response of the call that was faster, if there is one.
reload(e) ==
    LET r == RowOf(e) IN
    /\ call[e].op = "reload"
    /\ Return(e, IF r.response # "NULL" THEN r.response ELSE "ACCEPTED")
    /\ UNCHANGED <<row, effects, crashes>>
-----------------------------------------------------------------------------
Respond(e, a) ==
    Become(e, [call[e] EXCEPT !.op = "persist", !.stage = 0, !.answer = a])

Effect(e) == done' = [done EXCEPT ![call[e].command] = @ + 1]

\* Mutant of create_world: it does not look for the world it may have created.
create_world_again(e) == Effect(e) /\ Respond(e, "COMPLETED")

\* create_for_command: a unique index on the command id.
create_world(e) ==
    /\ IF done[call[e].command] = 0 THEN Effect(e) ELSE UNCHANGED done
    /\ Respond(e, "COMPLETED")

\* A candidate that is PENDING may be refused all the same, for its validation
\* or because the world has moved on.
accept(e) ==
    \/ done[call[e].command] = 0 /\ Effect(e) /\ Respond(e, "COMPLETED")
    \/ UNCHANGED done /\ Respond(e, "REJECTED")

Job(e, field) == jobs' = [jobs EXCEPT ![call[e].command][field] = @ + 1]

NextStage(e) == Become(e, [call[e] EXCEPT !.stage = @ + 1])

\* Mutant of import_images: the last job is not put in the queue.
import_images_short(e) ==
    LET n == call[e].stage IN
    \/ n = 0 /\ Effect(e) /\ UNCHANGED jobs /\ NextStage(e)
    \/ n > 0 /\ n < Stages - 1 /\ UNCHANGED done /\ NextStage(e)
       /\ Job(e, IF n % 2 = 1 THEN "created" ELSE "resolved")
    \/ n = Stages - 1 /\ UNCHANGED effects /\ Respond(e, "COMPLETED")

\* All files are read and stored (which may be done again, see artifact_store.rs),
\* one transaction adds their observations, then the job of each is created and
\* its dependencies are resolved. An error of any of these ends the command.
import_images(e) ==
    LET n == call[e].stage IN
    \/ n = 0 /\ Effect(e) /\ UNCHANGED jobs /\ NextStage(e)
    \/ n > 0 /\ n < Stages /\ UNCHANGED done /\ NextStage(e)
       /\ Job(e, IF n % 2 = 1 THEN "created" ELSE "resolved")
    \/ n = Stages /\ UNCHANGED effects /\ Respond(e, "COMPLETED")
    \/ n < Stages /\ UNCHANGED effects /\ Respond(e, "REJECTED")

\* A statement of the command's own.
execute_new(e) ==
    LET kind == Kind[call[e].command] IN
    /\ call[e].op = "execute"
    /\ \/ kind = "CREATE_WORLD" /\ create_world(e) /\ UNCHANGED jobs
       \/ kind = "ACCEPT" /\ accept(e) /\ UNCHANGED jobs
       \/ kind = "IMPORT" /\ import_images(e)
    /\ UNCHANGED <<row, crashes>>

\* Mutant of HoldsLease: whoever has executed the command stores its answer.
HoldsLeaseAlways(r, e) == TRUE

\* The WHERE clause of the UPDATE that stores the response.
HoldsLease(r, e) == r.owner = e

persist_response(e) ==
    LET r == RowOf(e) IN
    /\ call[e].op = "persist"
    /\ IF HoldsLease(r, e)
       THEN /\ SetRow(e, [r EXCEPT !.response = call[e].answer, !.owner = NULL,
                                   !.lease = "NULL"])
            /\ Goto(e, "returned")
       ELSE Return(e, "error") /\ UNCHANGED row
    /\ UNCHANGED <<effects, crashes>>
-----------------------------------------------------------------------------
\* A call is at work on its command.
AtWork(e) == call[e].op \in {"execute", "persist"}

\* COMMAND_LEASE_SECONDS pass. Unless the command is a slow one, the call that took
\* the lease is gone by then.
LeaseExpires(c) ==
    /\ row[c].lease = "live"
    /\ c \in Slow \/ ~AtWork(row[c].owner)
    /\ row' = [row EXCEPT ![c].lease = "expired"]
    /\ UNCHANGED <<call, effects, crashes>>

\* The Core stops and starts again. Nobody waits for the calls it was executing;
\* calls that had not begun are made to the new Core.
Crash ==
    /\ crashes < MaxCrashes
    /\ crashes' = crashes + 1
    /\ call' = [e \in Calls |-> IF call[e].op \in {"start", "returned"} THEN call[e]
                                ELSE At("stopped", call[e].command)]
    /\ UNCHANGED <<row, effects>>

CallStep(e) ==
    \/ \E c \in Commands : insert_command(e, c)
    \/ load(e) \/ claim(e) \/ reload(e)
    \/ execute_new(e)
    \/ persist_response(e)

Next ==
    \/ \E e \in Calls : CallStep(e)
    \/ \E c \in Commands : LeaseExpires(c)
    \/ Crash

Spec == Init /\ [][Next]_vars
-----------------------------------------------------------------------------
TypeOK ==
    /\ row \in [Commands -> Rows]
    /\ call \in [Calls -> Steps]
    /\ done \in [Commands -> Nat]
    /\ jobs \in [Commands -> [created : Nat, resolved : Nat]]

\* Safety: a command that is done within its lease is executed by one call at a
\* time, also after a crash and when several calls find the lease expired at once.
OneExecutor ==
    \A d, e \in Calls :
      (AtWork(d) /\ AtWork(e) /\ call[d].command = call[e].command
        /\ call[d].command \notin Slow) => d = e

\* Safety: all calls that return a response to a command return the same one,
\* which is the stored one, whoever executed the command and however often.
OneAnswer ==
    \A e \in Calls :
      (call[e].op = "returned" /\ call[e].answer \in {"COMPLETED", "REJECTED"})
        => call[e].answer = RowOf(e).response

\* Safety: a command that creates a world or accepts a candidate has its effect at
\* most once, and has had it when the response says COMPLETED.
EffectOnce ==
    \A c \in Commands : Kind[c] # "IMPORT" =>
      done[c] <= 1 /\ (row[c].response = "COMPLETED" => done[c] = 1)

\* Safety: an import that is answered COMPLETED has put a job for each of its files
\* in the queue, also when another call took over in the middle.
ImportedAll ==
    \A c \in Commands :
      Kind[c] = "IMPORT" /\ row[c].response = "COMPLETED" =>
        done[c] > 0 /\ jobs[c].resolved >= Files

\* Safety: the files of one import are imported once.
ImportedOnce == \A c \in Commands : Kind[c] = "IMPORT" => done[c] <= 1
=============================================================================
