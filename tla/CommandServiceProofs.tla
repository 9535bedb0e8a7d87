----------------------- MODULE CommandServiceProofs -----------------------
(***************************************************************************)
(* What the lease of a command and its stored response guarantee, for any  *)
(* commands, calls, files and crashes.                                     *)
(***************************************************************************)
EXTENDS CommandService, TLAPS

\* What the effects of a command must be when it is answered COMPLETED.
Achieved(c, d, j) ==
    IF Kind[c] = "IMPORT" THEN d > 0 /\ j.resolved >= Files ELSE d = 1

\* What a row promises, with the effects of its command.
RowOK(c, r, d, j) ==
    /\ ~r.exists => r = NoRow
    /\ r.response # "NULL" => r.owner = NULL
    /\ r.response = "COMPLETED" => Achieved(c, d, j)
    /\ Kind[c] # "IMPORT" => d <= 1

\* The jobs that n statements of an import leave resolved: every second
\* statement after the first resolves one.
Resolved(n, resolved) ==
    IF n % 2 = 1 THEN 2 * resolved >= n - 1 ELSE 2 * resolved >= n - 2

\* What a call knows of the row and the effects of its command.
CallOK(e, k, r, d, j) ==
    /\ r.exists
    /\ (k.op \in {"execute", "persist"} /\ k.command \notin Slow)
         => r.owner = e /\ r.lease = "live"
    /\ (k.op = "returned" /\ k.answer \in {"COMPLETED", "REJECTED"})
         => k.answer = r.response
    /\ (k.op = "persist" /\ k.answer = "COMPLETED") => Achieved(k.command, d, j)
    /\ (k.op = "execute" /\ Kind[k.command] = "IMPORT" /\ k.stage > 0)
         => d > 0 /\ Resolved(k.stage, j.resolved)

RowsOK == \A c \in Commands : RowOK(c, row[c], done[c], jobs[c])

CallsOK ==
    \A e \in Calls : call[e].op # "start" =>
      CallOK(e, call[e], row[call[e].command], done[call[e].command],
             jobs[call[e].command])

IInv == TypeOK /\ RowsOK /\ CallsOK
-----------------------------------------------------------------------------
\* The last statement of an import leaves all its jobs resolved.
LEMMA AllResolved ==
    ASSUME NEW resolved \in Nat, Resolved(Stages, resolved)
    PROVE  resolved >= Files
BY FilesAssumption DEF Resolved, Stages

\* A statement of an import more, which resolves a job if its number is even.
LEMMA NextResolved ==
    ASSUME NEW n \in Nat, n > 0, NEW resolved \in Nat, Resolved(n, resolved)
    PROVE  /\ n % 2 = 1 => Resolved(n + 1, resolved)
           /\ n % 2 # 1 => Resolved(n + 1, resolved + 1)
BY DEF Resolved

\* What an import has resolved stays enough when others resolve more.
LEMMA ResolvedMore ==
    ASSUME NEW n \in Nat, NEW a \in Nat, NEW b \in Nat, a <= b, Resolved(n, a)
    PROVE  Resolved(n, b)
BY DEF Resolved

\* A call that has begun names a command; the fields of a call follow its op.
LEMMA StepFields ==
    ASSUME NEW k \in Steps
    PROVE  /\ k = [op |-> k.op, command |-> k.command, stage |-> k.stage,
                   answer |-> k.answer]
           /\ k.op # "start" => k.command \in Commands
           /\ k.op = "start" => k = Start
           /\ k.op = "execute" => k.stage \in 0..Stages /\ k.answer = "NULL"
           /\ k.op = "persist" => k.stage = 0 /\ k.answer \in {"COMPLETED", "REJECTED"}
           /\ k.op \in {"load", "claim", "reload", "stopped"}
                => k.stage = 0 /\ k.answer = "NULL"
           /\ k.stage \in Nat
BY FilesAssumption DEF Steps, Start, At, Stages

LEMMA InitInv == Init => IInv
<1> SUFFICES ASSUME Init PROVE IInv
  OBVIOUS
<1>1. TypeOK
  BY DEF Init, TypeOK, Rows, NoRow, Steps
<1>2. RowsOK
  BY DEF Init, RowsOK, RowOK, NoRow
<1>3. CallsOK
  BY DEF Init, CallsOK, Start, At
<1> QED
  BY <1>1, <1>2, <1>3 DEF IInv
-----------------------------------------------------------------------------
Queued == [created : Nat, resolved : Nat]

\* Effects are never taken back, and a command other than an import has one.
Grows(c, d, j, d2, j2) ==
    /\ d <= d2 /\ j.resolved <= j2.resolved
    /\ Kind[c] # "IMPORT" => d2 <= 1

\* What has been achieved stays achieved.
LEMMA AchievedMore ==
    ASSUME NEW c \in Commands, NEW d \in Nat, NEW j \in Queued,
           NEW d2 \in Nat, NEW j2 \in Queued,
           Grows(c, d, j, d2, j2), Achieved(c, d, j)
    PROVE  Achieved(c, d2, j2)
BY FilesAssumption DEF Achieved, Grows, Queued

\* A call f keeps what it knows while others step on its command: a response is
\* not replaced, effects grow, and the lease of a command that is not slow is not
\* taken from a call at work.
LEMMA OthersKeep ==
    ASSUME NEW f \in Calls, NEW k \in Steps, k.op # "start",
           NEW r \in Rows, NEW d \in Nat, NEW j \in Queued,
           NEW r2 \in Rows, NEW d2 \in Nat, NEW j2 \in Queued,
           CallOK(f, k, r, d, j), Grows(k.command, d, j, d2, j2),
           r.exists => r2.exists, r.response # "NULL" => r2.response = r.response,
           (k.op \in {"execute", "persist"} /\ k.command \notin Slow
             /\ r.owner = f /\ r.lease = "live") => r2.owner = f /\ r2.lease = "live"
    PROVE  CallOK(f, k, r2, d2, j2)
<1>1. k.command \in Commands /\ k.stage \in Nat
  BY StepFields
<1>2. Achieved(k.command, d, j) => Achieved(k.command, d2, j2)
  BY <1>1, AchievedMore
<1>3. ASSUME k.stage > 0, d > 0, Resolved(k.stage, j.resolved)
      PROVE  d2 > 0 /\ Resolved(k.stage, j2.resolved)
  <2>1. Resolved(k.stage, j2.resolved)
    BY <1>1, <1>3, ResolvedMore DEF Grows, Queued
  <2> QED
    BY <1>3, <2>1 DEF Grows
<1>4. (k.op = "returned" /\ k.answer \in {"COMPLETED", "REJECTED"})
        => k.answer = r2.response
  BY DEF CallOK
<1> QED
  BY <1>2, <1>3, <1>4 DEF CallOK

\* A step of call e that leaves it at k, on a command c, whose row becomes r2 and
\* whose effects become d2 and j2, keeps the invariant when it keeps c's part.
LEMMA CallStepInv ==
    ASSUME IInv, NEW e \in Calls, NEW k \in Steps, k.op # "start",
           NEW c \in Commands, c = k.command,
           NEW r2 \in Rows, NEW d2 \in Nat, NEW j2 \in Queued,
           call' = [call EXCEPT ![e] = k], row' = [row EXCEPT ![c] = r2],
           done' = [done EXCEPT ![c] = d2], jobs' = [jobs EXCEPT ![c] = j2],
           RowOK(c, r2, d2, j2), CallOK(e, k, r2, d2, j2),
           Grows(c, done[c], jobs[c], d2, j2),
           row[c].exists => r2.exists,
           row[c].response # "NULL" => r2.response = row[c].response,
           \A f \in Calls \ {e} : (row[c].owner = f /\ row[c].lease = "live")
                                     => r2.owner = f /\ r2.lease = "live"
    PROVE  IInv'
<1>1. TypeOK'
  BY DEF IInv, TypeOK, Queued
<1>2. RowsOK'
  <2> SUFFICES ASSUME NEW b \in Commands
               PROVE  RowOK(b, row'[b], done'[b], jobs'[b])
    BY DEF RowsOK
  <2>1. CASE b = c
    BY <2>1 DEF IInv, TypeOK
  <2>2. CASE b # c
    BY <2>2 DEF IInv, TypeOK, RowsOK
  <2> QED
    BY <2>1, <2>2
<1>3. CallsOK'
  <2> SUFFICES ASSUME NEW f \in Calls, call'[f].op # "start"
               PROVE  CallOK(f, call'[f], row'[call'[f].command],
                             done'[call'[f].command], jobs'[call'[f].command])
    BY DEF CallsOK
  <2>1. CASE f = e
    BY <2>1 DEF IInv, TypeOK
  <2>2. CASE f # e
    <3> DEFINE b == call[f].command
    <3>1. /\ call'[f] = call[f] /\ call[f] \in Steps /\ b \in Commands
          /\ row[b] \in Rows /\ done[b] \in Nat /\ jobs[b] \in Queued
          /\ CallOK(f, call[f], row[b], done[b], jobs[b])
      BY <2>2, StepFields DEF IInv, TypeOK, CallsOK, Queued
    <3>2. CASE b # c
      BY <3>1, <3>2 DEF IInv, TypeOK
    <3>3. CASE b = c
      <4>1. row'[b] = r2 /\ done'[b] = d2 /\ jobs'[b] = j2
        BY <3>1, <3>3 DEF IInv, TypeOK
      <4>2. CallOK(f, call[f], r2, d2, j2)
        BY <2>2, <3>1, <3>3, OthersKeep
      <4> QED
        BY <3>1, <4>1, <4>2
    <3> QED
      BY <3>2, <3>3
  <2> QED
    BY <2>1, <2>2
<1> QED
  BY <1>1, <1>2, <1>3 DEF IInv
-----------------------------------------------------------------------------
\* The record of a call by where it stands.
LEMMA StepSets ==
    ASSUME NEW k \in Steps
    PROVE  /\ k.op = "execute" =>
                k \in [op : {"execute"}, command : Commands, stage : 0..Stages,
                       answer : {"NULL"}]
           /\ k.op \in {"load", "claim", "reload", "persist"} =>
                k \in [op : {"load", "claim", "reload", "persist"},
                       command : Commands, stage : {0},
                       answer : {"NULL", "COMPLETED", "REJECTED"}]
BY FilesAssumption DEF Steps, Start, At, Stages

\* What the invariant says of a call that is on its way.
LEMMA Current ==
    ASSUME IInv, NEW e \in Calls, call[e].op # "start"
    PROVE  LET c == call[e].command IN
           /\ call[e] \in Steps /\ c \in Commands
           /\ row[c] \in Rows /\ done[c] \in Nat /\ jobs[c] \in Queued
           /\ RowOK(c, row[c], done[c], jobs[c])
           /\ CallOK(e, call[e], row[c], done[c], jobs[c])
BY StepFields DEF IInv, TypeOK, RowsOK, CallsOK, Queued

\* A step of a call that changes nothing but the call.
LEMMA QuietStepInv ==
    ASSUME IInv, NEW e \in Calls, NEW k \in Steps, k.op # "start",
           call' = [call EXCEPT ![e] = k], UNCHANGED <<row, effects>>,
           CallOK(e, k, row[k.command], done[k.command], jobs[k.command])
    PROVE  IInv'
<1> DEFINE c == k.command
<1>1. c \in Commands
  BY StepFields
<1>2. /\ row[c] \in Rows /\ done[c] \in Nat /\ jobs[c] \in Queued
      /\ RowOK(c, row[c], done[c], jobs[c])
  BY <1>1 DEF IInv, TypeOK, RowsOK, Queued
<1>3. /\ row' = [row EXCEPT ![c] = row[c]]
      /\ done' = [done EXCEPT ![c] = done[c]]
      /\ jobs' = [jobs EXCEPT ![c] = jobs[c]]
  BY <1>1 DEF IInv, TypeOK, effects
<1>4. Grows(c, done[c], jobs[c], done[c], jobs[c])
  BY <1>2 DEF Grows, RowOK, Queued
<1>5. c = k.command /\ CallOK(e, k, row[c], done[c], jobs[c])
  OBVIOUS
<1> HIDE DEF c
<1> QED
  BY <1>1, <1>2, <1>3, <1>4, <1>5, CallStepInv

\* A call whose command is not at work and that holds no answer knows nothing.
LEMMA NothingKnown ==
    ASSUME NEW e, NEW k, NEW r, NEW d, NEW j, r.exists,
           \/ k.op \in {"load", "claim", "reload", "stopped"}
           \/ k.op = "returned" /\ k.answer \in {"ACCEPTED", "error"}
    PROVE  CallOK(e, k, r, d, j)
BY DEF CallOK

LEMMA InsertInv ==
    ASSUME IInv, NEW e \in Calls, NEW c \in Commands, insert_command(e, c)
    PROVE  IInv'
<1>1. CASE row[c].exists
  <2> DEFINE k == At("load", c)
  <2>1. k \in Steps /\ k.op = "load"
    BY DEF At, Steps
  <2>2. call' = [call EXCEPT ![e] = k] /\ UNCHANGED <<row, effects>>
    BY <1>1 DEF insert_command, Become
  <2>3. k.command = c
    BY DEF At
  <2>4. CallOK(e, k, row[k.command], done[k.command], jobs[k.command])
    BY <1>1, <2>1, <2>3, NothingKnown
  <2> HIDE DEF k
  <2> QED
    BY <2>1, <2>2, <2>4, QuietStepInv
<1>2. CASE ~row[c].exists
  <2> DEFINE k == At("execute", c)
             r == [exists |-> TRUE, response |-> "NULL", owner |-> e, lease |-> "live"]
  <2>1. k \in Steps /\ k.op = "execute" /\ k.command = c /\ k.stage = 0
    BY DEF At, Steps
  <2>2. r \in Rows /\ r.exists
    BY DEF Rows
  <2>3. /\ row[c] = NoRow /\ done[c] \in Nat /\ jobs[c] \in Queued
        /\ RowOK(c, row[c], done[c], jobs[c])
    BY <1>2 DEF IInv, TypeOK, RowsOK, RowOK, Queued
  <2>4. RowOK(c, r, done[c], jobs[c]) /\ Grows(c, done[c], jobs[c], done[c], jobs[c])
    BY <2>3 DEF RowOK, Grows, Queued
  <2>5. CallOK(e, k, r, done[c], jobs[c])
    BY <2>1, <2>2 DEF CallOK
  <2>6. /\ call' = [call EXCEPT ![e] = k] /\ row' = [row EXCEPT ![c] = r]
        /\ done' = [done EXCEPT ![c] = done[c]]
        /\ jobs' = [jobs EXCEPT ![c] = jobs[c]]
    BY <1>2 DEF insert_command, Become, effects, IInv, TypeOK
  <2>7. row[c].response = "NULL" /\ row[c].owner = NULL
    BY <2>3 DEF NoRow
  <2>8. \A f \in Calls : row[c].owner # f
    BY <2>7, CallsAssumption
  <2> HIDE DEF k, r
  <2> QED
    BY <2>1, <2>2, <2>3, <2>4, <2>5, <2>6, <2>7, <2>8, CallStepInv
<1> QED
  BY <1>1, <1>2

\* A call that returns the stored response, or no response at all.
LEMMA ReturnInv ==
    ASSUME IInv, NEW e \in Calls, call[e].op \in {"load", "reload", "persist"},
           NEW a \in {"COMPLETED", "REJECTED", "ACCEPTED", "error"},
           a \in {"COMPLETED", "REJECTED"} => a = RowOf(e).response,
           Return(e, a), UNCHANGED <<row, effects>>
    PROVE  IInv'
<1> DEFINE k == [call[e] EXCEPT !.op = "returned", !.answer = a]
<1>1. /\ call[e] \in Steps /\ call[e].command \in Commands
      /\ call[e].stage = 0 /\ row[call[e].command].exists
  BY Current, StepFields DEF CallOK
<1>2. k \in [op : {"returned"}, command : {call[e].command}, stage : {0}, answer : {a}]
  <2>1. call[e] \in [op : {"load", "claim", "reload", "persist"},
                     command : Commands, stage : {0},
                     answer : {"NULL", "COMPLETED", "REJECTED"}]
    BY <1>1, StepSets
  <2> QED
    BY <2>1
<1>3. k \in Steps /\ k.op = "returned" /\ k.answer = a /\ k.command = call[e].command
  BY <1>1, <1>2 DEF Steps
<1>4. CallOK(e, k, row[k.command], done[k.command], jobs[k.command])
  BY <1>1, <1>3 DEF CallOK, RowOf
<1>5. call' = [call EXCEPT ![e] = k]
  BY DEF Return, Become
<1> HIDE DEF k
<1> QED
  BY <1>3, <1>4, <1>5, QuietStepInv

\* A call that goes from one look at the row to the next.
LEMMA GotoInv ==
    ASSUME IInv, NEW e \in Calls, call[e].op \in {"load", "claim"},
           NEW op \in {"claim", "reload"}, Goto(e, op), UNCHANGED <<row, effects>>
    PROVE  IInv'
<1> DEFINE k == [call[e] EXCEPT !.op = op]
<1>1. /\ call[e] \in Steps /\ call[e].command \in Commands
      /\ call[e].stage = 0 /\ call[e].answer = "NULL" /\ row[call[e].command].exists
  BY Current, StepFields DEF CallOK
<1>2. /\ k = [op |-> op, command |-> call[e].command, stage |-> 0, answer |-> "NULL"]
      /\ call' = [call EXCEPT ![e] = k]
  BY <1>1, StepFields DEF Goto, Become
<1>3. k \in Steps /\ k.op = op /\ k.command = call[e].command
  BY <1>1, <1>2 DEF Steps
<1>4. CallOK(e, k, row[k.command], done[k.command], jobs[k.command])
  BY <1>1, <1>3, NothingKnown
<1> HIDE DEF k
<1> QED
  BY <1>2, <1>3, <1>4, QuietStepInv

LEMMA LoadInv ==
    ASSUME IInv, NEW e \in Calls, load(e)
    PROVE  IInv'
<1>1. call[e].op = "load" /\ UNCHANGED <<row, effects>>
  BY DEF load
<1>2. RowOf(e).response \in {"NULL", "COMPLETED", "REJECTED"}
  BY <1>1, Current DEF RowOf, Rows
<1>3. CASE RowOf(e).response # "NULL"
  <2>1. Return(e, RowOf(e).response)
    BY <1>3 DEF load
  <2> QED
    BY <1>1, <1>2, <1>3, <2>1, ReturnInv
<1>4. CASE RowOf(e).response = "NULL" /\ RowOf(e).lease = "live"
  <2>1. Return(e, "ACCEPTED")
    BY <1>4 DEF load
  <2> QED
    BY <1>1, <2>1, ReturnInv
<1>5. CASE RowOf(e).response = "NULL" /\ RowOf(e).lease # "live"
  <2>1. Goto(e, "claim")
    BY <1>5 DEF load
  <2> QED
    BY <1>1, <2>1, GotoInv
<1> QED
  BY <1>3, <1>4, <1>5

LEMMA ReloadInv ==
    ASSUME IInv, NEW e \in Calls, reload(e)
    PROVE  IInv'
<1>1. call[e].op = "reload" /\ UNCHANGED <<row, effects>>
  BY DEF reload
<1>2. RowOf(e).response \in {"NULL", "COMPLETED", "REJECTED"}
  BY <1>1, Current DEF RowOf, Rows
<1>3. CASE RowOf(e).response # "NULL"
  <2>1. Return(e, RowOf(e).response)
    BY <1>3 DEF reload
  <2> QED
    BY <1>1, <1>2, <1>3, <2>1, ReturnInv
<1>4. CASE RowOf(e).response = "NULL"
  <2>1. Return(e, "ACCEPTED")
    BY <1>4 DEF reload
  <2> QED
    BY <1>1, <2>1, ReturnInv
<1> QED
  BY <1>3, <1>4

LEMMA ClaimInv ==
    ASSUME IInv, NEW e \in Calls, claim(e)
    PROVE  IInv'
<1>1. call[e].op = "claim"
  BY DEF claim
<1>2. CASE Claimable(RowOf(e))
  <2> DEFINE c == call[e].command
             k == [call[e] EXCEPT !.op = "execute"]
             r == [row[c] EXCEPT !.owner = e, !.lease = "live"]
  <2>1. /\ call[e] \in Steps /\ c \in Commands /\ call[e].stage = 0
        /\ call[e].answer = "NULL"
        /\ row[c] \in Rows /\ done[c] \in Nat /\ jobs[c] \in Queued
        /\ RowOK(c, row[c], done[c], jobs[c]) /\ row[c].exists
    BY <1>1, Current, StepFields DEF CallOK
  <2>2. row[c].response = "NULL" /\ row[c].lease # "live"
    BY <1>2 DEF Claimable, RowOf
  <2>3. k = [op |-> "execute", command |-> c, stage |-> 0, answer |-> "NULL"]
    BY <2>1, StepFields
  <2>4. k \in Steps /\ k.op = "execute" /\ k.command = c /\ k.stage = 0
    BY <2>1, <2>3 DEF Steps
  <2>5. /\ r \in Rows /\ r.owner = e /\ r.lease = "live" /\ r.response = "NULL"
        /\ r.exists = row[c].exists
    BY <2>1, <2>2 DEF Rows
  <2>6. RowOK(c, r, done[c], jobs[c]) /\ Grows(c, done[c], jobs[c], done[c], jobs[c])
    BY <2>1, <2>5 DEF RowOK, Grows, Queued
  <2>7. CallOK(e, k, r, done[c], jobs[c])
    BY <2>1, <2>4, <2>5 DEF CallOK
  <2>8. /\ call' = [call EXCEPT ![e] = k] /\ row' = [row EXCEPT ![c] = r]
        /\ done' = [done EXCEPT ![c] = done[c]]
        /\ jobs' = [jobs EXCEPT ![c] = jobs[c]]
    BY <1>2 DEF claim, Goto, Become, SetRow, RowOf, effects, IInv, TypeOK
  <2> HIDE DEF k, r, c
  <2> QED
    BY <2>1, <2>2, <2>4, <2>5, <2>6, <2>7, <2>8, CallStepInv
<1>3. CASE ~Claimable(RowOf(e))
  <2>1. Goto(e, "reload") /\ UNCHANGED <<row, effects>>
    BY <1>3 DEF claim
  <2> QED
    BY <1>1, <2>1, GotoInv
<1> QED
  BY <1>2, <1>3
-----------------------------------------------------------------------------
\* A statement of a command's own changes its effects and leaves the row alone.
LEMMA EffectInv ==
    ASSUME IInv, NEW e \in Calls, call[e].op = "execute",
           NEW c, c = call[e].command,
           NEW k \in Steps, k.op \in {"execute", "persist"}, k.command = c,
           NEW d \in Nat, NEW j \in Queued, Grows(c, done[c], jobs[c], d, j),
           call' = [call EXCEPT ![e] = k], UNCHANGED row,
           done' = [done EXCEPT ![c] = d], jobs' = [jobs EXCEPT ![c] = j],
           (k.op = "persist" /\ k.answer = "COMPLETED") => Achieved(c, d, j),
           (k.op = "execute" /\ Kind[c] = "IMPORT" /\ k.stage > 0)
             => d > 0 /\ Resolved(k.stage, j.resolved)
    PROVE  IInv'
<1>1. /\ c \in Commands /\ row[c] \in Rows /\ done[c] \in Nat /\ jobs[c] \in Queued
      /\ RowOK(c, row[c], done[c], jobs[c])
      /\ CallOK(e, call[e], row[c], done[c], jobs[c])
  BY Current
<1>2. RowOK(c, row[c], d, j)
  BY <1>1, AchievedMore DEF RowOK, Grows
<1>3. CallOK(e, k, row[c], d, j)
  BY <1>1 DEF CallOK
<1>4. row' = [row EXCEPT ![c] = row[c]]
  BY <1>1 DEF IInv, TypeOK
<1> QED
  BY <1>1, <1>2, <1>3, <1>4, CallStepInv

\* The record of a call that executes its next statement.
LEMMA NextFields ==
    ASSUME NEW k \in Steps, k.op = "execute", k.stage < Stages
    PROVE  /\ [k EXCEPT !.stage = @ + 1] \in Steps
           /\ [k EXCEPT !.stage = @ + 1].op = "execute"
           /\ [k EXCEPT !.stage = @ + 1].command = k.command
           /\ [k EXCEPT !.stage = @ + 1].stage = k.stage + 1
<1>1. k \in [op : {"execute"}, command : Commands, stage : 0..Stages, answer : {"NULL"}]
  BY StepSets
<1>2. k.stage + 1 \in 1..Stages
  BY <1>1, FilesAssumption DEF Stages
<1>3. [k EXCEPT !.stage = @ + 1] \in
        [op : {"execute"}, command : {k.command}, stage : {k.stage + 1}, answer : {"NULL"}]
  BY <1>1
<1> QED
  BY <1>1, <1>2, <1>3 DEF Steps

\* A statement after which the command is answered.
LEMMA RespondInv ==
    ASSUME IInv, NEW e \in Calls, call[e].op = "execute",
           NEW c, c = call[e].command,
           NEW d \in Nat, NEW j \in Queued, Grows(c, done[c], jobs[c], d, j),
           NEW a \in {"COMPLETED", "REJECTED"}, Respond(e, a), UNCHANGED row,
           done' = [done EXCEPT ![c] = d], jobs' = [jobs EXCEPT ![c] = j],
           a = "COMPLETED" => Achieved(c, d, j)
    PROVE  IInv'
<1> DEFINE k == [call[e] EXCEPT !.op = "persist", !.stage = 0, !.answer = a]
<1>1. call[e] \in Steps /\ c \in Commands
  BY Current
<1>2. k \in [op : {"persist"}, command : {c}, stage : {0}, answer : {a}]
  <2>1. call[e] \in [op : {"execute"}, command : Commands, stage : 0..Stages,
                     answer : {"NULL"}]
    BY <1>1, StepSets
  <2> QED
    BY <2>1
<1>3. k \in Steps /\ k.op = "persist" /\ k.answer = a /\ k.command = c
  BY <1>1, <1>2 DEF Steps
<1>4. call' = [call EXCEPT ![e] = k]
  BY DEF Respond, Become
<1> HIDE DEF k
<1> QED
  BY <1>3, <1>4, EffectInv

\* A statement of an import that is not its last.
LEMMA StageInv ==
    ASSUME IInv, NEW e \in Calls, call[e].op = "execute", call[e].stage < Stages,
           NEW c, c = call[e].command,
           NEW d \in Nat, NEW j \in Queued, Grows(c, done[c], jobs[c], d, j),
           NextStage(e), UNCHANGED row,
           done' = [done EXCEPT ![c] = d], jobs' = [jobs EXCEPT ![c] = j],
           d > 0, Resolved(call[e].stage + 1, j.resolved)
    PROVE  IInv'
<1> DEFINE k == [call[e] EXCEPT !.stage = @ + 1]
<1>1. call[e] \in Steps
  BY Current
<1>2. /\ k \in Steps /\ k.op = "execute" /\ k.command = c
      /\ k.stage = call[e].stage + 1
  BY <1>1, NextFields
<1>3. call' = [call EXCEPT ![e] = k]
  BY DEF NextStage, Become
<1> HIDE DEF k
<1> QED
  BY <1>2, <1>3, EffectInv
\* What a call that executes can rely on, and what does not change an effect.
LEMMA Executing ==
    ASSUME IInv, NEW e \in Calls, call[e].op = "execute", NEW c, c = call[e].command
    PROVE  /\ c \in Commands /\ row[c] \in Rows
           /\ done[c] \in Nat /\ jobs[c] \in Queued /\ call[e].stage \in 0..Stages
           /\ Kind[c] # "IMPORT" => done[c] <= 1
           /\ (Kind[c] = "IMPORT" /\ call[e].stage > 0)
                => done[c] > 0 /\ Resolved(call[e].stage, jobs[c].resolved)
           /\ UNCHANGED done => done' = [done EXCEPT ![c] = done[c]]
           /\ UNCHANGED jobs => jobs' = [jobs EXCEPT ![c] = jobs[c]]
           /\ Grows(c, done[c], jobs[c], done[c], jobs[c])
<1>1. /\ call[e] \in Steps /\ c \in Commands /\ row[c] \in Rows
      /\ done[c] \in Nat /\ jobs[c] \in Queued
      /\ RowOK(c, row[c], done[c], jobs[c])
      /\ CallOK(e, call[e], row[c], done[c], jobs[c])
  BY Current
<1>2. /\ call[e].stage \in 0..Stages
      /\ Kind[c] # "IMPORT" => done[c] <= 1
      /\ (Kind[c] = "IMPORT" /\ call[e].stage > 0)
           => done[c] > 0 /\ Resolved(call[e].stage, jobs[c].resolved)
  BY <1>1, StepFields DEF RowOK, CallOK
<1>3. Grows(c, done[c], jobs[c], done[c], jobs[c])
  BY <1>1, <1>2 DEF Grows, Queued
<1> QED
  BY <1>1, <1>2, <1>3 DEF IInv, TypeOK

\* A command that is refused, or whose statement fails.
LEMMA RejectInv ==
    ASSUME IInv, NEW e \in Calls, call[e].op = "execute",
           UNCHANGED <<row, effects>>, Respond(e, "REJECTED")
    PROVE  IInv'
<1> DEFINE c == call[e].command
<1>1. /\ done[c] \in Nat /\ jobs[c] \in Queued
      /\ done' = [done EXCEPT ![c] = done[c]]
      /\ jobs' = [jobs EXCEPT ![c] = jobs[c]]
      /\ Grows(c, done[c], jobs[c], done[c], jobs[c])
  BY Executing DEF effects
<1>2. UNCHANGED row
  OBVIOUS
<1> QED
  BY <1>1, <1>2, RespondInv

\* A statement after which the effect is there, once.
LEMMA EffectedInv ==
    ASSUME IInv, NEW e \in Calls, call[e].op = "execute", UNCHANGED <<row, jobs>>,
           NEW c, c = call[e].command, Kind[c] # "IMPORT", NEW d, d = 1,
           done' = [done EXCEPT ![c] = d], Respond(e, "COMPLETED")
    PROVE  IInv'
<1>1. /\ c \in Commands /\ done[c] \in Nat /\ jobs[c] \in Queued /\ done[c] <= 1
      /\ jobs' = [jobs EXCEPT ![c] = jobs[c]]
  BY Executing
<1>2. d \in Nat /\ "COMPLETED" \in {"COMPLETED", "REJECTED"} /\ UNCHANGED row
  OBVIOUS
<1>3. Grows(c, done[c], jobs[c], d, jobs[c])
  BY <1>1 DEF Grows, Queued
<1>4. Achieved(c, d, jobs[c])
  BY DEF Achieved
<1> QED
  BY <1>1, <1>2, <1>3, <1>4, RespondInv

LEMMA CreateWorldInv ==
    ASSUME IInv, NEW e \in Calls, call[e].op = "execute", UNCHANGED <<row, jobs>>,
           NEW c, c = call[e].command, Kind[c] = "CREATE_WORLD", create_world(e)
    PROVE  IInv'
<1>1. /\ c \in Commands /\ done[c] \in Nat /\ done[c] <= 1
      /\ UNCHANGED done => done' = [done EXCEPT ![c] = done[c]]
  BY Executing
<1>2. Respond(e, "COMPLETED")
  BY DEF create_world
<1>3. PICK d : d = 1
  OBVIOUS
<1>4. done' = [done EXCEPT ![c] = d]
  BY <1>1, <1>3 DEF create_world, Effect
<1> QED
  BY <1>2, <1>3, <1>4, EffectedInv

LEMMA AcceptInv ==
    ASSUME IInv, NEW e \in Calls, call[e].op = "execute", UNCHANGED <<row, jobs>>,
           NEW c, c = call[e].command, Kind[c] = "ACCEPT", accept(e)
    PROVE  IInv'
<1>1. CASE done[c] = 0 /\ Effect(e) /\ Respond(e, "COMPLETED")
  <2>1. PICK d : d = 1
    OBVIOUS
  <2>2. done' = [done EXCEPT ![c] = d]
    <3>1. done[c] + 1 = d
      BY <1>1, <2>1
    <3> QED
      BY <1>1, <3>1 DEF Effect
  <2>3. Respond(e, "COMPLETED")
    BY <1>1
  <2> QED
    BY <2>1, <2>2, <2>3, EffectedInv
<1>2. CASE UNCHANGED done /\ Respond(e, "REJECTED")
  BY <1>2, RejectInv DEF effects
<1> QED
  BY <1>1, <1>2 DEF accept

LEMMA ImportInv ==
    ASSUME IInv, NEW e \in Calls, call[e].op = "execute", UNCHANGED row,
           Kind[call[e].command] = "IMPORT", import_images(e)
    PROVE  IInv'
<1> DEFINE c == call[e].command
           n == call[e].stage
<1>1. /\ c \in Commands /\ done[c] \in Nat /\ jobs[c] \in Queued /\ n \in 0..Stages
      /\ n > 0 => done[c] > 0 /\ Resolved(n, jobs[c].resolved)
      /\ UNCHANGED done => done' = [done EXCEPT ![c] = done[c]]
      /\ UNCHANGED jobs => jobs' = [jobs EXCEPT ![c] = jobs[c]]
      /\ Grows(c, done[c], jobs[c], done[c], jobs[c])
  BY Executing
<1>2. Stages \in Nat /\ Stages > 0
  BY FilesAssumption DEF Stages
\* The observations.
<1>3. CASE n = 0 /\ Effect(e) /\ UNCHANGED jobs /\ NextStage(e)
  <2>1. done' = [done EXCEPT ![c] = done[c] + 1]
    BY <1>1, <1>3 DEF Effect
  <2>2. /\ done[c] + 1 \in Nat /\ done[c] + 1 > 0
        /\ Grows(c, done[c], jobs[c], done[c] + 1, jobs[c])
    BY <1>1 DEF Grows, Queued
  <2>3. Resolved(n + 1, jobs[c].resolved) /\ n < Stages
    BY <1>1, <1>2, <1>3 DEF Resolved, Queued
  <2>4. jobs' = [jobs EXCEPT ![c] = jobs[c]] /\ NextStage(e)
    BY <1>1, <1>3
  <2> QED
    BY <1>1, <2>1, <2>2, <2>3, <2>4, StageInv
\* A job is created or resolved.
<1>4. CASE /\ n > 0 /\ n < Stages /\ UNCHANGED done /\ NextStage(e)
           /\ Job(e, IF n % 2 = 1 THEN "created" ELSE "resolved")
  <2>1. n \in Nat /\ jobs[c].resolved \in Nat /\ jobs[c].created \in Nat
    BY <1>1 DEF Queued
  <2>2. CASE n % 2 = 1
    <3> DEFINE j == [jobs[c] EXCEPT !.created = @ + 1]
    <3>1. jobs' = [jobs EXCEPT ![c] = j]
      BY <1>1, <1>4, <2>2 DEF Job
    <3>2. j \in Queued /\ j.resolved = jobs[c].resolved
      BY <1>1 DEF Queued
    <3>3. Grows(c, done[c], jobs[c], done[c], j)
      BY <1>1, <3>2 DEF Grows, Queued
    <3>4. Resolved(n + 1, j.resolved)
      BY <1>1, <1>4, <2>1, <2>2, <3>2, NextResolved
    <3> HIDE DEF j
    <3> QED
      BY <1>1, <1>4, <3>1, <3>2, <3>3, <3>4, StageInv
  <2>3. CASE n % 2 # 1
    <3> DEFINE j == [jobs[c] EXCEPT !.resolved = @ + 1]
    <3>1. jobs' = [jobs EXCEPT ![c] = j]
      BY <1>1, <1>4, <2>3 DEF Job
    <3>2. j \in Queued /\ j.resolved = jobs[c].resolved + 1
      BY <1>1 DEF Queued
    <3>3. Grows(c, done[c], jobs[c], done[c], j)
      BY <1>1, <2>1, <3>2 DEF Grows
    <3>4. Resolved(n + 1, j.resolved)
      BY <1>1, <1>4, <2>1, <2>3, <3>2, NextResolved
    <3> HIDE DEF j
    <3> QED
      BY <1>1, <1>4, <3>1, <3>2, <3>3, <3>4, StageInv
  <2> QED
    BY <2>2, <2>3
\* All jobs are in the queue.
<1>5. CASE n = Stages /\ UNCHANGED effects /\ Respond(e, "COMPLETED")
  <2>1. Achieved(c, done[c], jobs[c])
    BY <1>1, <1>2, <1>5, AllResolved DEF Achieved, Queued
  <2>2. /\ done' = [done EXCEPT ![c] = done[c]]
        /\ jobs' = [jobs EXCEPT ![c] = jobs[c]]
        /\ Respond(e, "COMPLETED")
    BY <1>1, <1>5 DEF effects
  <2> QED
    BY <1>1, <2>1, <2>2, RespondInv
\* An error.
<1>6. CASE n < Stages /\ UNCHANGED effects /\ Respond(e, "REJECTED")
  BY <1>6, RejectInv
<1> QED
  BY <1>3, <1>4, <1>5, <1>6 DEF import_images

LEMMA ExecuteInv ==
    ASSUME IInv, NEW e \in Calls, execute_new(e)
    PROVE  IInv'
BY CreateWorldInv, AcceptInv, ImportInv DEF execute_new
-----------------------------------------------------------------------------
LEMMA PersistInv ==
    ASSUME IInv, NEW e \in Calls, persist_response(e)
    PROVE  IInv'
<1>1. call[e].op = "persist"
  BY DEF persist_response
<1>2. CASE HoldsLease(RowOf(e), e)
  <2> DEFINE c == call[e].command
             a == call[e].answer
             k == [call[e] EXCEPT !.op = "returned"]
             r == [row[c] EXCEPT !.response = a, !.owner = NULL, !.lease = "NULL"]
  <2>1. /\ call[e] \in Steps /\ c \in Commands /\ a \in {"COMPLETED", "REJECTED"}
        /\ row[c] \in Rows /\ done[c] \in Nat /\ jobs[c] \in Queued
        /\ RowOK(c, row[c], done[c], jobs[c])
        /\ CallOK(e, call[e], row[c], done[c], jobs[c])
    BY <1>1, Current, StepFields
  <2>2. row[c].owner = e /\ row[c].response = "NULL" /\ row[c].exists
    BY <1>2, <2>1, CallsAssumption DEF HoldsLease, RowOf, RowOK, CallOK
  <2>3. k \in [op : {"returned"}, command : {c}, stage : {0}, answer : {a}]
    <3>1. call[e] \in [op : {"load", "claim", "reload", "persist"},
                       command : Commands, stage : {0},
                       answer : {"NULL", "COMPLETED", "REJECTED"}]
      BY <1>1, <2>1, StepSets
    <3> QED
      BY <3>1
  <2>4. k \in Steps /\ k.op = "returned" /\ k.command = c /\ k.answer = a
    BY <2>1, <2>3 DEF Steps
  <2>5. /\ r \in Rows /\ r.exists /\ r.response = a
        /\ r.owner = NULL /\ r.lease = "NULL"
    BY <2>1, <2>2 DEF Rows
  <2>6. a = "COMPLETED" => Achieved(c, done[c], jobs[c])
    BY <1>1, <2>1 DEF CallOK
  <2>7. RowOK(c, r, done[c], jobs[c]) /\ Grows(c, done[c], jobs[c], done[c], jobs[c])
    BY <2>1, <2>5, <2>6 DEF RowOK, Grows, Queued
  <2>8. CallOK(e, k, r, done[c], jobs[c])
    BY <2>4, <2>5 DEF CallOK
  <2>9. /\ call' = [call EXCEPT ![e] = k] /\ row' = [row EXCEPT ![c] = r]
        /\ done' = [done EXCEPT ![c] = done[c]]
        /\ jobs' = [jobs EXCEPT ![c] = jobs[c]]
    BY <1>2 DEF persist_response, Goto, Become, SetRow, RowOf, effects, IInv, TypeOK
  <2> HIDE DEF k, r, c, a
  <2> QED
    BY <2>1, <2>2, <2>4, <2>5, <2>7, <2>8, <2>9, CallStepInv
<1>3. CASE ~HoldsLease(RowOf(e), e)
  <2>1. Return(e, "error") /\ UNCHANGED <<row, effects>>
    BY <1>3 DEF persist_response
  <2> QED
    BY <1>1, <2>1, ReturnInv
<1> QED
  BY <1>2, <1>3

\* A lease that runs out is that of a slow command, or of a call that is gone.
LEMMA ExpireInv ==
    ASSUME IInv, NEW c \in Commands, LeaseExpires(c)
    PROVE  IInv'
<1> DEFINE r == [row[c] EXCEPT !.lease = "expired"]
<1>1. /\ row[c] \in Rows /\ row[c].lease = "live" /\ row[c].exists
      /\ RowOK(c, row[c], done[c], jobs[c])
  BY DEF IInv, TypeOK, RowsOK, RowOK, NoRow, LeaseExpires
<1>2. /\ r \in Rows /\ r.exists /\ r.response = row[c].response
      /\ r.owner = row[c].owner /\ r.lease = "expired"
  BY <1>1 DEF Rows
<1>3. row' = [row EXCEPT ![c] = r] /\ UNCHANGED <<call, done, jobs>>
  BY DEF LeaseExpires, effects
<1> HIDE DEF r
<1>4. TypeOK'
  BY <1>2, <1>3 DEF IInv, TypeOK
<1>5. RowsOK'
  <2> SUFFICES ASSUME NEW b \in Commands PROVE RowOK(b, row'[b], done[b], jobs[b])
    BY <1>3 DEF RowsOK
  <2>1. CASE b = c
    BY <1>1, <1>2, <1>3, <2>1 DEF RowOK, IInv, TypeOK
  <2>2. CASE b # c
    BY <1>3, <2>2 DEF IInv, TypeOK, RowsOK
  <2> QED
    BY <2>1, <2>2
<1>6. CallsOK'
  <2> SUFFICES ASSUME NEW e \in Calls, call[e].op # "start"
               PROVE  CallOK(e, call[e], row'[call[e].command],
                             done[call[e].command], jobs[call[e].command])
    BY <1>3 DEF CallsOK
  <2> DEFINE b == call[e].command
  <2>1. b \in Commands /\ CallOK(e, call[e], row[b], done[b], jobs[b])
    BY Current
  <2>2. CASE b # c
    BY <1>3, <2>1, <2>2 DEF IInv, TypeOK
  <2>3. CASE b = c
    <3>1. row'[b] = r
      BY <1>3, <2>1, <2>3 DEF IInv, TypeOK
    <3>2. ~(AtWork(e) /\ c \notin Slow)
      BY <2>1, <2>3 DEF LeaseExpires, CallOK, AtWork
    <3>3. CallOK(e, call[e], r, done[b], jobs[b])
      BY <1>2, <2>1, <2>3, <3>2 DEF CallOK, AtWork
    <3> QED
      BY <3>1, <3>3
  <2> QED
    BY <2>2, <2>3
<1> QED
  BY <1>4, <1>5, <1>6 DEF IInv

\* The calls of a Core that stops know nothing any more.
LEMMA CrashInv ==
    ASSUME IInv, Crash
    PROVE  IInv'
<1>1. UNCHANGED <<row, done, jobs>>
  BY DEF Crash, effects
<1>2. ASSUME NEW e \in Calls
      PROVE  /\ call'[e] \in Steps
             /\ call'[e].op # "start" => call[e].op # "start"
             /\ call'[e].op # "start" => call'[e].command = call[e].command
             /\ call'[e] = call[e] \/ call'[e].op = "stopped"
  <2>1. CASE call[e].op \in {"start", "returned"}
    BY <2>1 DEF Crash, IInv, TypeOK
  <2>2. CASE call[e].op \notin {"start", "returned"}
    <3>1. call'[e] = At("stopped", call[e].command) /\ call[e].command \in Commands
      BY <2>2, Current DEF Crash
    <3> QED
      BY <2>2, <3>1 DEF At, Steps
  <2> QED
    BY <2>1, <2>2
<1>3. TypeOK'
  <2>1. call' \in [Calls -> Steps]
    BY <1>2 DEF Crash
  <2> QED
    BY <1>1, <2>1 DEF IInv, TypeOK
<1>4. RowsOK'
  BY <1>1 DEF IInv, RowsOK
<1>5. CallsOK'
  <2> SUFFICES ASSUME NEW e \in Calls, call'[e].op # "start"
               PROVE  CallOK(e, call'[e], row[call'[e].command],
                             done[call'[e].command], jobs[call'[e].command])
    BY <1>1 DEF CallsOK
  <2>1. /\ call'[e].command = call[e].command
        /\ CallOK(e, call[e], row[call[e].command], done[call[e].command],
                  jobs[call[e].command])
    BY <1>2, Current
  <2>2. CASE call'[e] = call[e]
    BY <2>1, <2>2
  <2>3. CASE call'[e].op = "stopped"
    BY <2>1, <2>3, NothingKnown DEF CallOK
  <2> QED
    BY <1>2, <2>2, <2>3
<1> QED
  BY <1>3, <1>4, <1>5 DEF IInv

LEMMA NextInv == IInv /\ [Next]_vars => IInv'
<1> SUFFICES ASSUME IInv, [Next]_vars PROVE IInv'
  OBVIOUS
<1>1. ASSUME NEW e \in Calls, CallStep(e) PROVE IInv'
  <2>1. ASSUME NEW c \in Commands, insert_command(e, c) PROVE IInv'
    BY <2>1, InsertInv
  <2>2. CASE load(e)
    BY <2>2, LoadInv
  <2>3. CASE claim(e)
    BY <2>3, ClaimInv
  <2>4. CASE reload(e)
    BY <2>4, ReloadInv
  <2>5. CASE execute_new(e)
    BY <2>5, ExecuteInv
  <2>6. CASE persist_response(e)
    BY <2>6, PersistInv
  <2> QED
    BY <1>1, <2>1, <2>2, <2>3, <2>4, <2>5, <2>6 DEF CallStep
<1>2. ASSUME NEW c \in Commands, LeaseExpires(c) PROVE IInv'
  BY <1>2, ExpireInv
<1>3. CASE Crash
  BY <1>3, CrashInv
<1>4. CASE UNCHANGED vars
  BY <1>4 DEF IInv, TypeOK, RowsOK, CallsOK, vars
<1> QED
  BY <1>1, <1>2, <1>3, <1>4 DEF Next

THEOREM Invariant == Spec => []IInv
BY InitInv, NextInv, PTL DEF Spec
-----------------------------------------------------------------------------
\* A command that is done within its lease is executed by one call at a time, in
\* spite of crashes and of any number of calls that find the lease expired.
THEOREM ExecutorIsOne == Spec => []OneExecutor
<1>1. IInv => OneExecutor
  <2> SUFFICES ASSUME IInv, NEW d \in Calls, NEW e \in Calls,
                      AtWork(d), AtWork(e), call[d].command = call[e].command,
                      call[d].command \notin Slow
               PROVE  d = e
    BY DEF OneExecutor
  <2>1. RowOf(d).owner = d /\ RowOf(e).owner = e
    BY Current DEF AtWork, CallOK, RowOf
  <2> QED
    BY <2>1 DEF RowOf
<1> QED
  BY <1>1, Invariant, PTL

\* Every response that a call returns is the one that is stored, whoever executed
\* the command, however slow, and however often.
THEOREM AnswerIsOne == Spec => []OneAnswer
<1>1. IInv => OneAnswer
  BY Current DEF OneAnswer, CallOK, RowOf
<1> QED
  BY <1>1, Invariant, PTL

\* Creating a world and accepting a candidate take effect at most once, and have
\* taken effect when the answer is COMPLETED.
THEOREM EffectIsOne == Spec => []EffectOnce
<1>1. IInv => EffectOnce
  BY DEF EffectOnce, IInv, RowsOK, RowOK, Achieved
<1> QED
  BY <1>1, Invariant, PTL

\* An import that is answered COMPLETED has queued a job for each of its files, for
\* any number of files and also when another call took over in the middle.
THEOREM ImportIsWhole == Spec => []ImportedAll
<1>1. IInv => ImportedAll
  BY DEF ImportedAll, IInv, RowsOK, RowOK, Achieved
<1> QED
  BY <1>1, Invariant, PTL
=============================================================================
