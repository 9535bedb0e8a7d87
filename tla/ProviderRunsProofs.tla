------------------------ MODULE ProviderRunsProofs ------------------------
(***************************************************************************)
(* That a COMPLETED run was delivered whole, that runs are work as         *)
(* RemoteWork has it, that orders can be traced and that answers and       *)
(* references are backed by rows, for any generations, plans, services and *)
(* faults.                                                                 *)
(***************************************************************************)
EXTENDS ProviderRuns, SequenceTheorems, TLAPS

Ops == {"start", "send", "await", "submitted", "poll", "status", "collect", "import",
        "postprocess", "complete", "fail", "end", "stopped"}

Calls == [op : Ops, n : Nat, seen : Taken, todo : SUBSET Files, got : SUBSET Files]

States == {"unsent", "sent", "refused"} \cup Taken

Types ==
    /\ row \in [Runs -> Rows]
    /\ remote \in [Runs -> States]
    /\ result \in [Runs -> SUBSET Files]
    /\ call \in [Generations -> Calls]
    /\ \A g \in Generations : call[g].n \in 1..Len(Plan[g])

Open == {"CREATED", "SUBMITTED", "RUNNING"}

\* Where no file has been stored yet.
Before == {"start", "send", "await", "submitted", "poll", "status", "collect"}

\* What a call k knows about its run: w is the row, state and files the order at the
\* service, stored what is in the artifact store.
RunOK(k, w, state, files, stored) ==
    /\ k.op = "start" => w = NoRun
    /\ k.op # "start" => w.status \in Open
    /\ k.op \in {"start", "send"} => state = "unsent"
    /\ k.op = "await" => state # "unsent"
    /\ k.op \in {"submitted", "poll", "status"} => state \in Taken
    /\ (k.op \in {"submitted", "status"} /\ k.seen = "done") => state = "done"
    /\ k.op \in {"collect", "import", "postprocess", "complete"} => state = "done"
    /\ k.op \in Before => k.got = {}
    /\ k.op = "import" =>
         files # {} /\ files = k.todo \cup k.got /\ k.got \subseteq stored
    /\ k.op \in {"postprocess", "complete"} =>
         /\ files # {} /\ files \subseteq k.got
         /\ k.got \subseteq (files \cup {Processed}) \cap stored

\* The same with all rows, orders and results; the runs to come have none.
CallOK(g, k, rw, rm, rs, stored) ==
    k.op \notin {"end", "stopped"} =>
      /\ RunOK(k, rw[<<g, k.n>>], rm[<<g, k.n>>], rs[<<g, k.n>>], stored)
      /\ \A m \in (k.n + 1)..Len(Plan[g]) :
           rw[<<g, m>>] = NoRun /\ rm[<<g, m>>] = "unsent"

\* What a row promises: no order without one, and outputs that were delivered.
RowOK(w, state, files, stored) ==
    /\ w.status = "ABSENT" => state = "unsent"
    /\ w.status = "COMPLETED" =>
         /\ state = "done" /\ files # {} /\ files \subseteq w.outputs
         /\ w.outputs \subseteq (files \cup {Processed}) \cap stored

CallsOK == \A g \in Generations : CallOK(g, call[g], row, remote, result, artifacts)
RowsOK == \A r \in Runs : RowOK(row[r], remote[r], result[r], artifacts)

IInv == Types /\ CallsOK /\ RowsOK
-----------------------------------------------------------------------------
\* A plan has a first run, and all its runs have a row.
LEMMA PlanOf ==
    ASSUME NEW g \in Generations
    PROVE  /\ Len(Plan[g]) \in Nat /\ 1 \in 1..Len(Plan[g])
           /\ \A m \in 1..Len(Plan[g]) : <<g, m>> \in Runs
<1>1. Plan[g] \in Seq(Kinds) /\ Plan[g] # <<>>
  BY PlanAssumption
<1>2. Len(Plan[g]) \in Nat /\ Len(Plan[g]) # 0
  BY <1>1, EmptySeq
<1>3. ASSUME NEW m \in 1..Len(Plan[g]) PROVE <<g, m>> \in Runs
  <2>1. <<g, m>> \in {<<g, n>> : n \in 1..Len(Plan[g])}
    OBVIOUS
  <2> QED
    BY <2>1 DEF Runs
<1> QED
  BY <1>2, <1>3

LEMMA RunOf ==
    ASSUME Types, NEW g \in Generations
    PROVE  /\ Run(g) \in Runs /\ Run(g) = <<g, call[g].n>>
           /\ call[g] \in Calls
           /\ row[Run(g)] \in Rows /\ remote[Run(g)] \in States
           /\ result[Run(g)] \subseteq Files
<1>1. Run(g) = <<g, call[g].n>> /\ call[g].n \in 1..Len(Plan[g])
  BY DEF Types, Run
<1>2. Run(g) \in Runs
  BY <1>1, PlanOf
<1> QED
  BY <1>1, <1>2 DEF Types

LEMMA InitInv == Init => IInv
<1> SUFFICES ASSUME Init PROVE IInv
  OBVIOUS
<1>1. \A g \in Generations : call[g] \in {Start(1), NotAsked}
  BY DEF Init
<1>2. Types
  <2>1. /\ Start(1) \in Calls /\ Start(1).n = 1
        /\ NotAsked \in Calls /\ NotAsked.n = 1
    BY DEF Start, NotAsked, Calls, Ops, Taken
  <2>2. \A g \in Generations : call[g].n = 1 /\ 1 \in 1..Len(Plan[g])
    BY <1>1, <2>1, PlanOf
  <2>3. call \in [Generations -> Calls]
    BY <1>1, <2>1 DEF Init
  <2> QED
    BY <2>2, <2>3 DEF Init, Types, Rows, NoRun, States
<1>3. CallsOK
  <2> SUFFICES ASSUME NEW g \in Generations
               PROVE  CallOK(g, call[g], row, remote, result, artifacts)
    BY DEF CallsOK
  <2>1. <<g, call[g].n>> \in Runs /\ \A m \in 1..Len(Plan[g]) : <<g, m>> \in Runs
    BY <1>2, PlanOf DEF Types
  <2>2. call[g].op \in {"start", "end"} /\ call[g].n \in Nat /\ call[g].got = {}
    BY <1>1 DEF Start, NotAsked
  <2> QED
    BY <2>1, <2>2 DEF CallOK, RunOK, Before, Init
<1>4. RowsOK
  BY DEF Init, RowsOK, RowOK, NoRun
<1> QED
  BY <1>2, <1>3, <1>4 DEF IInv

\* How the service may move on with an order.
Moves(rm, rs, rm2, rs2, r) ==
    /\ \/ rm2[r] = rm[r]
       \/ rm[r] = "sent" /\ rm2[r] \in {"working", "refused"}
       \/ rm[r] = "working" /\ rm2[r] \in {"done", "failed"}
    /\ rm[r] # "working" => rs2[r] = rs[r]

\* A call keeps what it knows while the service and other calls go on.
LEMMA OthersKeep ==
    ASSUME NEW g \in Generations, NEW k \in Calls,
           NEW rw, NEW rm, NEW rs, NEW stored, NEW rw2, NEW rm2, NEW rs2, NEW stored2,
           CallOK(g, k, rw, rm, rs, stored), stored \subseteq stored2,
           Len(Plan[g]) \in Nat, k.n \in 1..Len(Plan[g]),
           \A m \in 1..Len(Plan[g]) :
             rw2[<<g, m>>] = rw[<<g, m>>] /\ Moves(rm, rs, rm2, rs2, <<g, m>>)
    PROVE  CallOK(g, k, rw2, rm2, rs2, stored2)
<1> SUFFICES ASSUME k.op \notin {"end", "stopped"}
             PROVE  CallOK(g, k, rw2, rm2, rs2, stored2)
  BY DEF CallOK
<1> DEFINE r == <<g, k.n>>
<1>1. \A m \in (k.n + 1)..Len(Plan[g]) :
        rw2[<<g, m>>] = NoRun /\ rm2[<<g, m>>] = "unsent"
  BY DEF CallOK, Moves, Calls
<1>2. rw2[r] = rw[r] /\ Moves(rm, rs, rm2, rs2, r)
  OBVIOUS
<1>3. RunOK(k, rw2[r], rm2[r], rs2[r], stored2)
  BY <1>2 DEF CallOK, RunOK, Moves, Taken
<1> QED
  BY <1>1, <1>3 DEF CallOK
-----------------------------------------------------------------------------
\* A row stays right while more is stored.
LEMMA RowKeeps ==
    ASSUME NEW w, NEW state, NEW files, NEW stored, NEW stored2, stored \subseteq stored2,
           RowOK(w, state, files, stored)
    PROVE  RowOK(w, state, files, stored2)
BY DEF RowOK

\* A step of the call of g, which leaves it at k, the row of its run at w and its
\* order at state, keeps the invariant if it keeps the part of g.
LEMMA CallStep ==
    ASSUME IInv, NEW g \in Generations, NEW k \in Calls, k.n \in 1..Len(Plan[g]),
           NEW w \in Rows, NEW state \in States,
           call' = [call EXCEPT ![g] = k], row' = [row EXCEPT ![Run(g)] = w],
           remote' = [remote EXCEPT ![Run(g)] = state], UNCHANGED result,
           artifacts \subseteq artifacts',
           CallOK(g, k, row', remote', result, artifacts'),
           RowOK(w, state, result[Run(g)], artifacts')
    PROVE  IInv'
<1>1. Types'
  BY DEF IInv, Types
<1>2. CallsOK'
  <2> SUFFICES ASSUME NEW h \in Generations
               PROVE  CallOK(h, call'[h], row', remote', result, artifacts')
    BY DEF CallsOK
  <2>1. CASE h = g
    BY <2>1 DEF IInv, Types
  <2>2. CASE h # g
    <3>1. /\ call'[h] = call[h] /\ call[h] \in Calls
          /\ call[h].n \in 1..Len(Plan[h]) /\ Len(Plan[h]) \in Nat
          /\ CallOK(h, call[h], row, remote, result, artifacts)
      BY <2>2, PlanOf DEF IInv, Types, CallsOK
    <3>2. ASSUME NEW m \in 1..Len(Plan[h])
          PROVE  row'[<<h, m>>] = row[<<h, m>>] /\ remote'[<<h, m>>] = remote[<<h, m>>]
      BY <2>2, PlanOf DEF Run, IInv, Types
    <3>3. \A m \in 1..Len(Plan[h]) :
            row'[<<h, m>>] = row[<<h, m>>] /\ Moves(remote, result, remote', result, <<h, m>>)
      BY <3>2 DEF Moves
    <3> DEFINE k2 == call[h]
               rows == row'
               orders == remote'
               stored == artifacts'
    <3>4. /\ k2 \in Calls /\ Len(Plan[h]) \in Nat /\ k2.n \in 1..Len(Plan[h])
          /\ CallOK(h, k2, row, remote, result, artifacts) /\ artifacts \subseteq stored
          /\ \A m \in 1..Len(Plan[h]) :
               rows[<<h, m>>] = row[<<h, m>>] /\ Moves(remote, result, orders, result, <<h, m>>)
      BY <3>1, <3>3
    <3> HIDE DEF k2, rows, orders, stored
    <3>5. CallOK(h, k2, rows, orders, result, stored)
      BY <3>4, OthersKeep
    <3> QED
      BY <3>1, <3>5 DEF k2, rows, orders, stored
  <2> QED
    BY <2>1, <2>2
<1>3. RowsOK'
  <2> SUFFICES ASSUME NEW r \in Runs
               PROVE  RowOK(row'[r], remote'[r], result[r], artifacts')
    BY DEF RowsOK
  <2>1. CASE r = Run(g)
    BY <2>1 DEF IInv, Types
  <2>2. CASE r # Run(g)
    <3>1. row'[r] = row[r] /\ remote'[r] = remote[r]
      BY <2>2 DEF IInv, Types
    <3> QED
      BY <3>1, RowKeeps DEF IInv, RowsOK
  <2> QED
    BY <2>1, <2>2
<1> QED
  BY <1>1, <1>2, <1>3 DEF IInv

\* A step that changes the call alone, and perhaps stores something.
LEMMA QuietStep ==
    ASSUME IInv, NEW g \in Generations, NEW k \in Calls, k.n \in 1..Len(Plan[g]),
           call' = [call EXCEPT ![g] = k], UNCHANGED <<row, service>>,
           artifacts \subseteq artifacts',
           CallOK(g, k, row, remote, result, artifacts')
    PROVE  IInv'
<1>1. /\ Run(g) \in Runs /\ row[Run(g)] \in Rows /\ remote[Run(g)] \in States
      /\ row' = [row EXCEPT ![Run(g)] = row[Run(g)]]
      /\ remote' = [remote EXCEPT ![Run(g)] = remote[Run(g)]]
      /\ UNCHANGED result
  BY RunOf DEF IInv, Types, service
<1>2. RowOK(row[Run(g)], remote[Run(g)], result[Run(g)], artifacts')
  BY <1>1, RowKeeps DEF IInv, RowsOK
<1>3. CallOK(g, k, row', remote', result, artifacts')
  BY DEF service
<1> QED
  BY <1>1, <1>2, <1>3, CallStep

\* What holds of the call of g and of its run.
LEMMA Current ==
    ASSUME IInv, NEW g \in Generations
    PROVE  /\ Run(g) \in Runs /\ Run(g) = <<g, call[g].n>>
           /\ call[g] \in Calls /\ call[g].n \in 1..Len(Plan[g]) /\ call[g].n \in Nat
           /\ row[Run(g)] \in Rows /\ remote[Run(g)] \in States
           /\ result[Run(g)] \subseteq Files
           /\ CallOK(g, call[g], row, remote, result, artifacts)
           /\ RowOK(row[Run(g)], remote[Run(g)], result[Run(g)], artifacts)
           /\ \A m \in (call[g].n + 1)..Len(Plan[g]) :
                <<g, m>> \in Runs /\ <<g, m>> # Run(g)
<1>1. /\ Run(g) \in Runs /\ Run(g) = <<g, call[g].n>> /\ call[g] \in Calls
      /\ row[Run(g)] \in Rows /\ remote[Run(g)] \in States /\ result[Run(g)] \subseteq Files
  BY RunOf DEF IInv
<1>2. call[g].n \in 1..Len(Plan[g]) /\ call[g].n \in Nat /\ Len(Plan[g]) \in Nat
  BY <1>1, PlanOf DEF IInv, Types, Calls
<1>3. /\ CallOK(g, call[g], row, remote, result, artifacts)
      /\ RowOK(row[Run(g)], remote[Run(g)], result[Run(g)], artifacts)
  BY <1>1 DEF IInv, CallsOK, RowsOK
<1>4. ASSUME NEW m \in (call[g].n + 1)..Len(Plan[g])
      PROVE  <<g, m>> \in Runs /\ <<g, m>> # Run(g)
  <2>1. m \in 1..Len(Plan[g]) /\ m # call[g].n
    BY <1>2
  <2> QED
    BY <1>1, <2>1, PlanOf
<1> QED
  BY <1>1, <1>2, <1>3, <1>4

\* A call that is at its end knows nothing.
LEMMA EndKnows ==
    ASSUME NEW g, NEW k, k.op \in {"end", "stopped"},
           NEW rw, NEW rm, NEW rs, NEW stored
    PROVE  CallOK(g, k, rw, rm, rs, stored)
BY DEF CallOK
\* A step within a run, from what it must establish of the run.
LEMMA RunStep ==
    ASSUME IInv, NEW g \in Generations, NEW k \in Calls, k.n = call[g].n,
           call[g].op \notin {"end", "stopped"},
           NEW w \in Rows, NEW state \in States,
           call' = [call EXCEPT ![g] = k], row' = [row EXCEPT ![Run(g)] = w],
           remote' = [remote EXCEPT ![Run(g)] = state], UNCHANGED result,
           artifacts \subseteq artifacts',
           RunOK(k, w, state, result[Run(g)], artifacts'),
           RowOK(w, state, result[Run(g)], artifacts')
    PROVE  IInv'
<1>1. /\ Run(g) \in Runs /\ Run(g) = <<g, k.n>> /\ k.n \in 1..Len(Plan[g])
      /\ CallOK(g, call[g], row, remote, result, artifacts)
      /\ \A m \in (k.n + 1)..Len(Plan[g]) : <<g, m>> \in Runs /\ <<g, m>> # Run(g)
  BY Current
<1>2. row'[Run(g)] = w /\ remote'[Run(g)] = state
  BY <1>1 DEF IInv, Types
<1>3. \A m \in (k.n + 1)..Len(Plan[g]) :
        row'[<<g, m>>] = NoRun /\ remote'[<<g, m>>] = "unsent"
  BY <1>1 DEF IInv, Types, CallOK
<1>4. CallOK(g, k, row', remote', result, artifacts')
  BY <1>1, <1>2, <1>3 DEF CallOK
<1> QED
  BY <1>1, <1>4, CallStep

\* A step within a run that leaves row and order alone.
LEMMA QuietRunStep ==
    ASSUME IInv, NEW g \in Generations, NEW k \in Calls, k.n = call[g].n,
           call[g].op \notin {"end", "stopped"},
           call' = [call EXCEPT ![g] = k], UNCHANGED <<row, service>>,
           artifacts \subseteq artifacts',
           RunOK(k, row[Run(g)], remote[Run(g)], result[Run(g)], artifacts')
    PROVE  IInv'
<1>1. /\ Run(g) = <<g, k.n>> /\ k.n \in 1..Len(Plan[g])
      /\ CallOK(g, call[g], row, remote, result, artifacts)
  BY Current
<1>2. CallOK(g, k, row, remote, result, artifacts')
  BY <1>1 DEF CallOK
<1> QED
  BY <1>1, <1>2, QuietStep

\* What a call that is not at its end knows, with its record.
LEMMA Busy ==
    ASSUME IInv, NEW g \in Generations, call[g].op \notin {"end", "stopped"}
    PROVE  /\ Run(g) \in Runs /\ row[Run(g)] \in Rows /\ remote[Run(g)] \in States
           /\ result[Run(g)] \subseteq Files /\ call[g] \in Calls
           /\ RunOK(call[g], row[Run(g)], remote[Run(g)], result[Run(g)], artifacts)
           /\ RowOK(row[Run(g)], remote[Run(g)], result[Run(g)], artifacts)
           /\ UNCHANGED row => row' = [row EXCEPT ![Run(g)] = row[Run(g)]]
           /\ UNCHANGED remote => remote' = [remote EXCEPT ![Run(g)] = remote[Run(g)]]
<1>1. /\ Run(g) \in Runs /\ Run(g) = <<g, call[g].n>> /\ call[g] \in Calls
      /\ row[Run(g)] \in Rows /\ remote[Run(g)] \in States
      /\ result[Run(g)] \subseteq Files
      /\ CallOK(g, call[g], row, remote, result, artifacts)
      /\ RowOK(row[Run(g)], remote[Run(g)], result[Run(g)], artifacts)
  BY Current
<1>2. RunOK(call[g], row[Run(g)], remote[Run(g)], result[Run(g)], artifacts)
  BY <1>1 DEF CallOK
<1> QED
  BY <1>1, <1>2 DEF IInv, Types

\* The record of a call that goes on.
LEMMA GotoFields ==
    ASSUME NEW k \in Calls, NEW op \in Ops
    PROVE  /\ [k EXCEPT !.op = op] \in Calls
           /\ [k EXCEPT !.op = op].op = op
           /\ [k EXCEPT !.op = op].n = k.n
           /\ [k EXCEPT !.op = op].seen = k.seen
           /\ [k EXCEPT !.op = op].todo = k.todo
           /\ [k EXCEPT !.op = op].got = k.got
BY DEF Calls
-----------------------------------------------------------------------------
LEMMA CreateInv ==
    ASSUME IInv, NEW g \in Generations, create(g)
    PROVE  IInv'
<1> DEFINE k == [call[g] EXCEPT !.op = "send"]
           w == [NoRun EXCEPT !.status = "CREATED"]
<1>1. /\ call[g].op = "start" /\ call' = [call EXCEPT ![g] = k]
      /\ row' = [row EXCEPT ![Run(g)] = w] /\ UNCHANGED <<remote, result, artifacts>>
  BY DEF create, At, Goto, service
<1>2. /\ call[g].got = {} /\ remote[Run(g)] = "unsent" /\ remote[Run(g)] \in States /\ call[g] \in Calls
      /\ remote' = [remote EXCEPT ![Run(g)] = remote[Run(g)]]
  BY <1>1, Busy DEF RunOK, Before
<1>3. k \in Calls /\ k.op = "send" /\ k.n = call[g].n /\ k.got = call[g].got
  BY <1>2, GotoFields DEF Ops
<1>4. w \in Rows /\ w.status = "CREATED"
  BY DEF NoRun, Rows
<1> HIDE DEF k, w
<1>5. RunOK(k, w, remote[Run(g)], result[Run(g)], artifacts')
  BY <1>2, <1>3, <1>4 DEF RunOK, Before, Open
<1>6. RowOK(w, remote[Run(g)], result[Run(g)], artifacts')
  BY <1>4 DEF RowOK
<1> QED
  BY <1>1, <1>2, <1>3, <1>4, <1>5, <1>6, RunStep

LEMMA SubmitInv ==
    ASSUME IInv, NEW g \in Generations, submit(g)
    PROVE  IInv'
<1> DEFINE k == [call[g] EXCEPT !.op = "await"]
<1>1. /\ call[g].op = "send" /\ call' = [call EXCEPT ![g] = k]
      /\ remote' = [remote EXCEPT ![Run(g)] = "sent"] /\ UNCHANGED <<row, result, artifacts>>
  BY DEF submit, At, Goto
<1>2. /\ call[g].got = {} /\ row[Run(g)].status \in Open /\ row[Run(g)] \in Rows /\ call[g] \in Calls
      /\ row' = [row EXCEPT ![Run(g)] = row[Run(g)]]
  BY <1>1, Busy DEF RunOK, Before
<1>3. k \in Calls /\ k.op = "await" /\ k.n = call[g].n /\ k.got = call[g].got
  BY <1>2, GotoFields DEF Ops
<1> HIDE DEF k
<1>4. RunOK(k, row[Run(g)], "sent", result[Run(g)], artifacts')
  BY <1>2, <1>3 DEF RunOK, Before
<1>5. RowOK(row[Run(g)], "sent", result[Run(g)], artifacts')
  BY <1>2 DEF RowOK, Open
<1>6. "sent" \in States
  BY DEF States
<1> QED
  BY <1>1, <1>2, <1>3, <1>4, <1>5, <1>6, RunStep
\* A call whose run exists may end in its failure.
LEMMA ToFail ==
    ASSUME IInv, NEW g \in Generations, call[g].op \notin {"start", "end", "stopped"},
           Goto(g, "fail"), UNCHANGED <<row, service, artifacts>>
    PROVE  IInv'
<1> DEFINE k == [call[g] EXCEPT !.op = "fail"]
<1>1. call' = [call EXCEPT ![g] = k]
  BY DEF Goto
<1>2. row[Run(g)].status \in Open /\ call[g] \in Calls
  BY Busy DEF RunOK, Before
<1>3. k \in Calls /\ k.op = "fail" /\ k.n = call[g].n /\ k.got = call[g].got
  BY <1>2, GotoFields DEF Ops
<1> HIDE DEF k
<1>4. RunOK(k, row[Run(g)], remote[Run(g)], result[Run(g)], artifacts')
  BY <1>2, <1>3 DEF RunOK, Before
<1> QED
  BY <1>1, <1>3, <1>4, QuietRunStep

LEMMA SubmittedInv ==
    ASSUME IInv, NEW g \in Generations, Submitted(g)
    PROVE  IInv'
<1>1. call[g].op = "await" /\ UNCHANGED <<row, service, artifacts>>
  BY DEF Submitted, At
<1>2. /\ call[g].got = {} /\ row[Run(g)].status \in Open /\ call[g] \in Calls
      /\ remote[Run(g)] \in Taken \cup {"refused"}
  BY <1>1, Busy DEF RunOK, Before, Submitted, States
<1>3. CASE remote[Run(g)] = "refused"
  BY <1>1, <1>3, ToFail DEF Submitted
<1>4. CASE remote[Run(g)] # "refused"
  <2>1. PICK seen \in Told(Run(g)) \cup {"working"} :
          call' = [call EXCEPT ![g].op = "submitted", ![g].seen = seen]
    BY <1>4 DEF Submitted
  <2> DEFINE k == [call[g] EXCEPT !.op = "submitted", !.seen = seen]
  <2>2. seen \in Taken /\ (seen = "done" => remote[Run(g)] = "done")
    BY <1>2, <1>4 DEF Told, Taken
  <2>3. k \in Calls /\ k.op = "submitted" /\ k.n = call[g].n /\ k.seen = seen
      /\ k.got = call[g].got
    BY <1>2, <2>2 DEF Calls, Ops
  <2>4. call' = [call EXCEPT ![g] = k]
    BY <2>1 DEF IInv, Types
  <2> HIDE DEF k
  <2>5. RunOK(k, row[Run(g)], remote[Run(g)], result[Run(g)], artifacts')
    BY <1>2, <1>4, <2>2, <2>3 DEF RunOK, Before
  <2> QED
    BY <1>1, <2>3, <2>4, <2>5, QuietRunStep
<1> QED
  BY <1>3, <1>4

LEMMA MarkSubmittedInv ==
    ASSUME IInv, NEW g \in Generations, mark_submitted(g)
    PROVE  IInv'
<1> DEFINE op == IF Kind(g) = "WORLD" THEN WorldNext(call[g].seen, FALSE) ELSE "poll"
           k == [call[g] EXCEPT !.op = op]
           w == [row[Run(g)] EXCEPT !.status = "SUBMITTED", !.request = TRUE]
<1>1. call[g].op = "submitted" /\ UNCHANGED <<remote, result, artifacts>>
  BY DEF mark_submitted, At, service
<1>2. /\ call[g].got = {} /\ remote[Run(g)] \in Taken /\ call[g] \in Calls /\ row[Run(g)] \in Rows
      /\ Run(g) \in Runs /\ remote[Run(g)] \in States
      /\ call[g].seen = "done" => remote[Run(g)] = "done"
      /\ remote' = [remote EXCEPT ![Run(g)] = remote[Run(g)]]
  BY <1>1, Busy DEF RunOK, Before
<1>3. /\ op \in {"collect", "fail", "status", "poll"}
      /\ op = "collect" => remote[Run(g)] = "done"
      /\ op = "status" => call[g].seen # "done"
  BY <1>2 DEF WorldNext
<1>4. w \in Rows /\ w.status = "SUBMITTED"
  BY <1>2 DEF Rows
<1>5. /\ call' = [call EXCEPT ![g] = k] /\ row' = [row EXCEPT ![Run(g)] = w]
  BY <1>2 DEF mark_submitted, Goto, IInv, Types
<1>6. op \in Ops /\ call[g] \in Calls
  BY <1>2, <1>3 DEF Ops
<1> HIDE DEF op
<1>7. k \in Calls /\ k.op = op /\ k.n = call[g].n /\ k.seen = call[g].seen
      /\ k.got = call[g].got
  BY <1>6 DEF Calls
<1> HIDE DEF k, w
<1>8. RunOK(k, w, remote[Run(g)], result[Run(g)], artifacts')
  BY <1>2, <1>3, <1>4, <1>7 DEF RunOK, Before, Open
<1>9. RowOK(w, remote[Run(g)], result[Run(g)], artifacts')
  BY <1>4 DEF RowOK
<1> QED
  BY <1>1, <1>2, <1>4, <1>5, <1>7, <1>8, <1>9, RunStep

LEMMA PolledInv ==
    ASSUME IInv, NEW g \in Generations, Polled(g)
    PROVE  IInv'
<1>1. call[g].op = "poll" /\ UNCHANGED <<row, service, artifacts>>
  BY DEF Polled, At
<1>2. /\ call[g].got = {} /\ row[Run(g)].status \in Open /\ call[g] \in Calls /\ remote[Run(g)] \in Taken
  BY <1>1, Busy DEF RunOK, Before
<1>3. PICK seen \in Told(Run(g)), op \in {"collect", "fail", "status"} :
        /\ op = "collect" => seen = "done"
        /\ call' = [call EXCEPT ![g].seen = seen, ![g].op = op]
  BY DEF Polled, WorldNext
<1> DEFINE k == [call[g] EXCEPT !.seen = seen, !.op = op]
<1>4. seen \in Taken /\ (seen = "done" => remote[Run(g)] = "done")
  BY <1>2 DEF Told, Taken
<1>5. k \in Calls /\ k.op = op /\ k.n = call[g].n /\ k.seen = seen
      /\ k.got = call[g].got
  BY <1>2, <1>4 DEF Calls, Ops
<1>6. call' = [call EXCEPT ![g] = k]
  BY <1>3 DEF IInv, Types
<1> HIDE DEF k
<1>7. RunOK(k, row[Run(g)], remote[Run(g)], result[Run(g)], artifacts')
  BY <1>2, <1>3, <1>4, <1>5 DEF RunOK, Before
<1> QED
  BY <1>1, <1>5, <1>6, <1>7, QuietRunStep

LEMMA MarkStatusInv ==
    ASSUME IInv, NEW g \in Generations, mark_status(g)
    PROVE  IInv'
<1> DEFINE op == IF Kind(g) = "WORLD" THEN "poll"
                 ELSE FalNext(call[g].seen, Run(g) \in late)
           k == [call[g] EXCEPT !.op = op]
           w == [row[Run(g)] EXCEPT !.status = "RUNNING"]
<1>1. call[g].op = "status" /\ UNCHANGED <<remote, result, artifacts>>
  BY DEF mark_status, At, service
<1>2. /\ call[g].got = {} /\ remote[Run(g)] \in Taken /\ call[g] \in Calls /\ row[Run(g)] \in Rows
      /\ Run(g) \in Runs /\ remote[Run(g)] \in States
      /\ call[g].seen = "done" => remote[Run(g)] = "done"
      /\ remote' = [remote EXCEPT ![Run(g)] = remote[Run(g)]]
  BY <1>1, Busy DEF RunOK, Before
<1>3. /\ op \in {"collect", "fail", "poll"}
      /\ op = "collect" => remote[Run(g)] = "done"
  BY <1>2 DEF FalNext
<1>4. w \in Rows /\ w.status = "RUNNING"
  BY <1>2 DEF Rows
<1>5. /\ call' = [call EXCEPT ![g] = k] /\ row' = [row EXCEPT ![Run(g)] = w]
  BY <1>2 DEF mark_status, Goto, IInv, Types
<1>6. op \in Ops /\ call[g] \in Calls
  BY <1>2, <1>3 DEF Ops
<1> HIDE DEF op
<1>7. k \in Calls /\ k.op = op /\ k.n = call[g].n /\ k.got = call[g].got
  BY <1>6 DEF Calls
<1> HIDE DEF k, w
<1>8. RunOK(k, w, remote[Run(g)], result[Run(g)], artifacts')
  BY <1>2, <1>3, <1>4, <1>7 DEF RunOK, Before, Open
<1>9. RowOK(w, remote[Run(g)], result[Run(g)], artifacts')
  BY <1>4 DEF RowOK
<1> QED
  BY <1>1, <1>2, <1>4, <1>5, <1>7, <1>8, <1>9, RunStep
LEMMA CollectInv ==
    ASSUME IInv, NEW g \in Generations, Collect(g)
    PROVE  IInv'
<1>1. call[g].op = "collect" /\ UNCHANGED <<row, service, artifacts>>
  BY DEF Collect, At
<1>2. /\ row[Run(g)].status \in Open /\ call[g] \in Calls
      /\ call[g].got = {} /\ remote[Run(g)] = "done" /\ result[Run(g)] \subseteq Files
  BY <1>1, Busy DEF RunOK, Before
<1> DEFINE op == IF result[Run(g)] = {} THEN "fail" ELSE "import"
           k == [call[g] EXCEPT !.todo = result[Run(g)], !.op = op]
<1>3. call' = [call EXCEPT ![g] = k]
  BY DEF Collect, IInv, Types
<1>4. op \in {"fail", "import"} /\ (op = "import" => result[Run(g)] # {})
  OBVIOUS
<1> HIDE DEF op
<1>5. /\ k \in Calls /\ k.op = op /\ k.n = call[g].n /\ k.got = call[g].got
      /\ k.todo = result[Run(g)]
  BY <1>2, <1>4 DEF Calls, Ops
<1> HIDE DEF k
<1>6. RunOK(k, row[Run(g)], remote[Run(g)], result[Run(g)], artifacts')
  BY <1>2, <1>4, <1>5 DEF RunOK, Before
<1> QED
  BY <1>1, <1>3, <1>5, <1>6, QuietRunStep

LEMMA ImportInv ==
    ASSUME IInv, NEW g \in Generations, import_source(g)
    PROVE  IInv'
<1>1. call[g].op = "import" /\ UNCHANGED <<row, service>>
  BY DEF import_source, At
<1>2. /\ row[Run(g)].status \in Open /\ call[g] \in Calls /\ remote[Run(g)] = "done"
      /\ result[Run(g)] # {} /\ result[Run(g)] = call[g].todo \cup call[g].got
      /\ call[g].got \subseteq artifacts
  BY <1>1, Busy DEF RunOK
<1>3. PICK f \in call[g].todo, op \in {"import", "postprocess", "complete"} :
        /\ artifacts' = artifacts \cup {f}
        /\ op # "import" => call[g].todo = {f}
        /\ call' = [call EXCEPT ![g].todo = @ \ {f}, ![g].got = @ \cup {f}, ![g].op = op]
  BY DEF import_source
<1> DEFINE k == [call[g] EXCEPT !.todo = @ \ {f}, !.got = @ \cup {f}, !.op = op]
<1>4. call' = [call EXCEPT ![g] = k]
  BY <1>3 DEF IInv, Types
<1>5. /\ k \in Calls /\ k.op = op /\ k.n = call[g].n
      /\ k.todo = call[g].todo \ {f} /\ k.got = call[g].got \cup {f}
  BY <1>2 DEF Calls, Ops
<1> HIDE DEF k
<1>6. RunOK(k, row[Run(g)], remote[Run(g)], result[Run(g)], artifacts')
  BY <1>2, <1>3, <1>5 DEF RunOK, Before
<1> QED
  BY <1>1, <1>3, <1>4, <1>5, <1>6, QuietRunStep

LEMMA PostprocessInv ==
    ASSUME IInv, NEW g \in Generations, postprocess_audio(g)
    PROVE  IInv'
<1>1. call[g].op = "postprocess" /\ UNCHANGED <<row, service>>
  BY DEF postprocess_audio, At
<1>2. /\ row[Run(g)].status \in Open /\ call[g] \in Calls /\ remote[Run(g)] = "done"
      /\ result[Run(g)] # {} /\ result[Run(g)] \subseteq call[g].got
      /\ call[g].got \subseteq (result[Run(g)] \cup {Processed}) \cap artifacts
  BY <1>1, Busy DEF RunOK
<1>3. PICK made \in {{}, {Processed}} :
        /\ artifacts' = artifacts \cup made
        /\ call' = [call EXCEPT ![g].got = @ \cup made, ![g].op = "complete"]
  BY DEF postprocess_audio
<1> DEFINE k == [call[g] EXCEPT !.got = @ \cup made, !.op = "complete"]
<1>4. call' = [call EXCEPT ![g] = k]
  BY <1>3 DEF IInv, Types
<1>5. /\ k \in Calls /\ k.op = "complete" /\ k.n = call[g].n
      /\ k.got = call[g].got \cup made
  BY <1>2, <1>3, ResultsAssumption DEF Calls, Ops
<1> HIDE DEF k
<1>6. RunOK(k, row[Run(g)], remote[Run(g)], result[Run(g)], artifacts')
  BY <1>2, <1>3, <1>5 DEF RunOK, Before
<1> QED
  BY <1>1, <1>3, <1>4, <1>5, <1>6, QuietRunStep
\* The record of a call that returns, and of one that begins another run.
LEMMA StartFields ==
    ASSUME NEW n \in Nat
    PROVE  /\ Start(n) \in Calls /\ Start(n).op = "start" /\ Start(n).n = n
           /\ Start(n).got = {}
           /\ [Start(n) EXCEPT !.op = "end"] \in Calls
           /\ [Start(n) EXCEPT !.op = "end"].op = "end"
           /\ [Start(n) EXCEPT !.op = "end"].n = n
BY DEF Start, Calls, Ops, Taken

\* A call that returns, with the row of its run at w.
LEMMA ReturnStep ==
    ASSUME IInv, NEW g \in Generations, NEW what, Return(g, what),
           NEW w \in Rows, row' = [row EXCEPT ![Run(g)] = w],
           UNCHANGED <<service, artifacts>>,
           RowOK(w, remote[Run(g)], result[Run(g)], artifacts)
    PROVE  IInv'
<1> DEFINE k == [Start(call[g].n) EXCEPT !.op = "end"]
<1>1. /\ Run(g) \in Runs /\ call[g].n \in 1..Len(Plan[g]) /\ call[g].n \in Nat
      /\ remote[Run(g)] \in States
  BY Current
<1>2. k \in Calls /\ k.op = "end" /\ k.n \in 1..Len(Plan[g])
  BY <1>1, StartFields
<1>3. call' = [call EXCEPT ![g] = k]
  BY DEF Return, IInv, Types
<1>4. /\ remote' = [remote EXCEPT ![Run(g)] = remote[Run(g)]]
      /\ UNCHANGED result /\ artifacts \subseteq artifacts'
      /\ RowOK(w, remote[Run(g)], result[Run(g)], artifacts')
  BY <1>1 DEF service, IInv, Types
<1> HIDE DEF k
<1>5. CallOK(g, k, row', remote', result, artifacts')
  BY <1>2, EndKnows
<1> QED
  BY <1>1, <1>2, <1>3, <1>4, <1>5, CallStep

LEMMA FailInv ==
    ASSUME IInv, NEW g \in Generations, fail(g)
    PROVE  IInv'
<1> DEFINE w == [row[Run(g)] EXCEPT !.status = "FAILED"]
<1>1. /\ Return(g, "error") /\ UNCHANGED <<service, artifacts>>
      /\ Run(g) \in Runs /\ row[Run(g)] \in Rows
  BY Current DEF fail
<1>2. w \in Rows /\ w.status = "FAILED"
  BY <1>1 DEF Rows
<1>3. row' = [row EXCEPT ![Run(g)] = w]
  BY DEF fail, IInv, Types
<1> HIDE DEF w
<1>4. RowOK(w, remote[Run(g)], result[Run(g)], artifacts)
  BY <1>2 DEF RowOK
<1> QED
  BY <1>1, <1>2, <1>3, <1>4, ReturnStep

LEMMA CompleteInv ==
    ASSUME IInv, NEW g \in Generations, complete(g)
    PROVE  IInv'
<1> DEFINE w == [row[Run(g)] EXCEPT !.status = "COMPLETED", !.outputs = call[g].got]
<1>1. call[g].op = "complete" /\ UNCHANGED <<service, artifacts>>
  BY DEF complete, At
<1>2. /\ Run(g) \in Runs /\ row[Run(g)] \in Rows /\ call[g] \in Calls
      /\ remote[Run(g)] = "done" /\ result[Run(g)] # {}
      /\ result[Run(g)] \subseteq call[g].got
      /\ call[g].got \subseteq (result[Run(g)] \cup {Processed}) \cap artifacts
  BY <1>1, Busy DEF RunOK
<1>3. w \in Rows /\ w.status = "COMPLETED" /\ w.outputs = call[g].got
  BY <1>2 DEF Rows, Calls
<1>4. row' = [row EXCEPT ![Run(g)] = w]
  BY <1>2 DEF complete, IInv, Types
<1> HIDE DEF w
<1>5. RowOK(w, remote[Run(g)], result[Run(g)], artifacts)
  BY <1>2, <1>3 DEF RowOK
<1>6. ASSUME NEW what, Return(g, what) PROVE IInv'
  BY <1>1, <1>3, <1>4, <1>5, <1>6, ReturnStep
<1>7. CASE call[g].n < Len(Plan[g]) /\ call' = [call EXCEPT ![g] = Start(@.n + 1)]
  <2> DEFINE n == call[g].n + 1
             k == Start(n)
  <2>1. /\ n \in 1..Len(Plan[g]) /\ n \in Nat /\ remote[Run(g)] \in States
        /\ n \in (call[g].n + 1)..Len(Plan[g])
        /\ (n + 1)..Len(Plan[g]) \subseteq (call[g].n + 1)..Len(Plan[g])
        /\ CallOK(g, call[g], row, remote, result, artifacts)
        /\ \A m \in (call[g].n + 1)..Len(Plan[g]) :
             <<g, m>> \in Runs /\ <<g, m>> # Run(g)
    BY <1>7, Current, PlanOf
  <2>2. call' = [call EXCEPT ![g] = k]
    BY <1>7 DEF IInv, Types
  <2>3. k \in Calls /\ k.op = "start" /\ k.n = n /\ k.got = {}
    BY <2>1, StartFields
  <2>4. /\ remote' = [remote EXCEPT ![Run(g)] = remote[Run(g)]]
        /\ UNCHANGED <<remote, result>> /\ artifacts \subseteq artifacts'
        /\ RowOK(w, remote[Run(g)], result[Run(g)], artifacts')
    BY <1>1, <1>2, <1>5 DEF service, IInv, Types
  <2>5. \A m \in (call[g].n + 1)..Len(Plan[g]) :
          row'[<<g, m>>] = NoRun /\ remote'[<<g, m>>] = "unsent"
    BY <1>1, <1>4, <2>1, <2>4 DEF CallOK, IInv, Types
  <2> HIDE DEF n, k
  <2>6. CallOK(g, k, row', remote', result, artifacts')
    BY <2>1, <2>3, <2>5 DEF CallOK, RunOK, Before
  <2> QED
    BY <1>3, <1>4, <2>1, <2>2, <2>3, <2>4, <2>6, CallStep
<1> QED
  BY <1>6, <1>7 DEF complete, NextRun
-----------------------------------------------------------------------------
\* The service takes, refuses or finishes an order.
LEMMA ServiceStep ==
    ASSUME IInv, remote' \in [Runs -> States], result' \in [Runs -> SUBSET Files],
           UNCHANGED <<row, call, artifacts>>,
           \A r \in Runs : Moves(remote, result, remote', result', r)
    PROVE  IInv'
<1>1. Types'
  BY DEF IInv, Types
<1>2. RowsOK'
  <2> SUFFICES ASSUME NEW r \in Runs
               PROVE  RowOK(row[r], remote'[r], result'[r], artifacts)
    BY DEF RowsOK
  <2> QED
    BY DEF IInv, RowsOK, RowOK, Moves
<1>3. CallsOK'
  <2> SUFFICES ASSUME NEW g \in Generations
               PROVE  CallOK(g, call[g], row, remote', result', artifacts)
    BY DEF CallsOK
  <2> DEFINE k == call[g]
             orders == remote'
             files == result'
  <2>1. /\ k \in Calls /\ Len(Plan[g]) \in Nat /\ k.n \in 1..Len(Plan[g])
        /\ CallOK(g, k, row, remote, result, artifacts)
        /\ \A m \in 1..Len(Plan[g]) :
             row[<<g, m>>] = row[<<g, m>>] /\ Moves(remote, result, orders, files, <<g, m>>)
    BY PlanOf DEF IInv, Types, CallsOK
  <2> HIDE DEF k, orders, files
  <2>2. CallOK(g, k, row, orders, files, artifacts)
    BY <2>1, OthersKeep
  <2> QED
    BY <2>2 DEF k, orders, files
<1> QED
  BY <1>1, <1>2, <1>3 DEF IInv

LEMMA TakeInv ==
    ASSUME IInv, NEW r \in Runs, Take(r)
    PROVE  IInv'
<1>1. PICK state \in {"working", "refused"} : remote' = [remote EXCEPT ![r] = state]
  BY DEF Take
<1>2. remote' \in [Runs -> States] /\ result' \in [Runs -> SUBSET Files]
  BY <1>1 DEF Take, IInv, Types, States, Taken
<1>3. \A q \in Runs : Moves(remote, result, remote', result', q)
  BY <1>1 DEF Take, IInv, Types, Moves
<1>4. UNCHANGED <<row, call, artifacts>>
  BY DEF Take
<1> QED
  BY <1>2, <1>3, <1>4, ServiceStep

LEMMA FinishInv ==
    ASSUME IInv, NEW r \in Runs, Finish(r)
    PROVE  IInv'
<1>1. Plan[r[1]][r[2]] \in Kinds
  <2>1. PICK g \in Generations : \E n \in 1..Len(Plan[g]) : r = <<g, n>>
    BY DEF Runs
  <2>2. Plan[g] \in Seq(Kinds)
    BY PlanAssumption
  <2> QED
    BY <2>1, <2>2
<1>2. /\ remote[r] = "working" /\ UNCHANGED <<row, call, artifacts>>
      /\ \/ /\ \E files \in Results[Plan[r[1]][r[2]]] : result' = [result EXCEPT ![r] = files]
            /\ remote' = [remote EXCEPT ![r] = "done"]
         \/ remote' = [remote EXCEPT ![r] = "failed"] /\ UNCHANGED result
  BY DEF Finish
<1>3. remote' \in [Runs -> States] /\ result' \in [Runs -> SUBSET Files]
  BY <1>1, <1>2, ResultsAssumption DEF IInv, Types, States, Taken
<1>4. \A q \in Runs : Moves(remote, result, remote', result', q)
  BY <1>2 DEF IInv, Types, Moves
<1> QED
  BY <1>2, <1>3, <1>4, ServiceStep

LEMMA StepFailsInv ==
    ASSUME IInv, NEW g \in Generations, StepFails(g)
    PROVE  IInv'
<1>1. UNCHANGED <<row, service, artifacts>>
  BY DEF StepFails
<1>2. CASE Return(g, "error")
  <2>1. /\ row[Run(g)] \in Rows
        /\ row' = [row EXCEPT ![Run(g)] = row[Run(g)]]
        /\ RowOK(row[Run(g)], remote[Run(g)], result[Run(g)], artifacts)
    BY <1>1, Current DEF IInv, Types
  <2>2. UNCHANGED <<service, artifacts>>
    BY <1>1
  <2> QED
    BY <1>2, <2>1, <2>2, ReturnStep
<1>3. CASE /\ call[g].op \in {"await", "submitted", "poll", "status", "collect",
                              "import", "postprocess", "complete"}
           /\ Goto(g, "fail")
  BY <1>1, <1>3, ToFail
<1> QED
  BY <1>2, <1>3 DEF StepFails

LEMMA CrashInv ==
    ASSUME IInv, Crash
    PROVE  IInv'
<1>1. UNCHANGED <<row, remote, result, artifacts>>
  BY DEF Crash, service
<1>2. /\ Stopped \in Calls /\ Stopped.op = "stopped" /\ Stopped.n = 1
  BY DEF Stopped, Start, Calls, Ops, Taken
<1>3. call' \in [Generations -> Calls]
  BY <1>2 DEF Crash, IInv, Types
<1>4. ASSUME NEW g \in Generations
      PROVE  call'[g].op \in {"end", "stopped"} /\ call'[g].n \in 1..Len(Plan[g])
  <2>1. call'[g] = IF call[g].op = "end" THEN call[g] ELSE Stopped
    BY DEF Crash, At
  <2> QED
    BY <1>2, <2>1, PlanOf DEF IInv, Types
<1>5. Types'
  BY <1>1, <1>3, <1>4 DEF IInv, Types
<1>6. CallsOK'
  BY <1>4 DEF CallsOK, CallOK
<1>7. RowsOK'
  BY <1>1 DEF IInv, RowsOK
<1> QED
  BY <1>5, <1>6, <1>7 DEF IInv

LEMMA NextInv == IInv /\ [Next]_vars => IInv'
<1> SUFFICES ASSUME IInv, [Next]_vars PROVE IInv'
  OBVIOUS
<1>1. ASSUME NEW g \in Generations, Step(g) PROVE IInv'
  BY <1>1, CreateInv, SubmitInv, SubmittedInv, MarkSubmittedInv, PolledInv,
     MarkStatusInv, CollectInv, ImportInv, PostprocessInv, CompleteInv, FailInv DEF Step
<1>2. ASSUME UNCHANGED <<row, remote, result, call, artifacts>> PROVE IInv'
  BY <1>2 DEF IInv, Types, CallsOK, RowsOK
<1>3. ASSUME NEW g \in Generations, TimePasses(g) PROVE IInv'
  BY <1>2, <1>3 DEF TimePasses, service
<1>4. ASSUME NEW g \in Generations, StepFails(g) PROVE IInv'
  BY <1>4, StepFailsInv
<1>5. ASSUME NEW r \in Runs, Take(r) \/ Finish(r) PROVE IInv'
  BY <1>5, TakeInv, FinishInv
<1>6. CASE Crash
  BY <1>6, CrashInv
<1>7. CASE UNCHANGED vars
  BY <1>2, <1>7 DEF vars, service
<1> QED
  BY <1>1, <1>3, <1>4, <1>5, <1>6, <1>7 DEF Next

THEOREM Invariant == Spec => []IInv
BY InitInv, NextInv, PTL DEF Spec

\* A COMPLETED run lists all that the service delivered for it, and all of it is in
\* the artifact store, for any results, any faults and any number of runs.
THEOREM CompletedAreDelivered == Spec => []CompletedIsDelivered
<1>1. IInv => CompletedIsDelivered
  BY DEF CompletedIsDelivered, IInv, RowsOK, RowOK
<1> QED
  BY <1>1, Invariant, PTL
-----------------------------------------------------------------------------
(* Runs are work *)

Stages == [r \in Runs |-> Stage(r)]

\* A step on one run moves that run's stage, and no other.
LEMMA OneStage ==
    ASSUME NEW r \in Runs,
           \A q \in Runs \ {r} : row'[q] = row[q] /\ remote'[q] = remote[q]
    PROVE  /\ Stages' = [Stages EXCEPT ![r] = Stage(r)']
           /\ Stage(r)' = Stage(r) => UNCHANGED Stages
<1>1. \A q \in Runs \ {r} : Stage(q)' = Stage(q)
  BY DEF Stage
<1> QED
  BY <1>1 DEF Stages

\* A step that leaves rows and orders alone is none of RemoteWork's.
LEMMA SameStages ==
    ASSUME UNCHANGED <<row, remote>>
    PROVE  UNCHANGED Stages
BY DEF Stages, Stage

LEMMA InitMaps == Init => Abstract!Init
BY DEF Init, NoRun, Stage, Abstract!Init, Taken

LEMMA CreateMaps ==
    ASSUME IInv, NEW g \in Generations, create(g), NEW r, r = Run(g)
    PROVE  Abstract!Next
<1>1. /\ r \in Runs /\ call[g].op = "start" /\ UNCHANGED remote
      /\ row' = [row EXCEPT ![r] = [NoRun EXCEPT !.status = "CREATED"]]
  BY Current DEF create, At, service
<1>2. row[r] = NoRun /\ remote[r] = "unsent"
  BY <1>1, Busy DEF RunOK
<1>3. row'[r].status = "CREATED" /\ remote'[r] = "unsent"
  BY <1>1, <1>2 DEF IInv, Types, NoRun
<1>4. \A q \in Runs \ {r} : row'[q] = row[q] /\ remote'[q] = remote[q]
  BY <1>1 DEF IInv, Types
<1>5. Stage(r) = "absent" /\ Stage(r)' = "wanted"
  BY <1>2, <1>3 DEF Stage, NoRun, Taken
<1>6. Abstract!Want(r)
  BY <1>1, <1>4, <1>5, OneStage DEF Abstract!Want, Abstract!Move, Stages
<1> QED
  BY <1>1, <1>6 DEF Abstract!Next

LEMMA CompleteMaps ==
    ASSUME IInv, NEW g \in Generations, complete(g), NEW r, r = Run(g)
    PROVE  Abstract!Next
<1>1. /\ r \in Runs /\ call[g].op = "complete" /\ UNCHANGED remote
      /\ row' = [row EXCEPT ![r].status = "COMPLETED", ![r].outputs = call[g].got]
  BY Current DEF complete, At, service
<1>2. row[r].status \in Open /\ remote[r] = "done" /\ row[r] \in Rows
  BY <1>1, Busy DEF RunOK
<1>3. row'[r].status = "COMPLETED"
  BY <1>1, <1>2 DEF IInv, Types, Rows
<1>4. \A q \in Runs \ {r} : row'[q] = row[q] /\ remote'[q] = remote[q]
  BY <1>1 DEF IInv, Types
<1>5. Stage(r) = "ordered" /\ Stage(r)' = "delivered"
  BY <1>2, <1>3 DEF Stage, Open, Taken
<1>6. Abstract!Deliver(r)
  BY <1>1, <1>4, <1>5, OneStage DEF Abstract!Deliver, Abstract!Move, Stages
<1> QED
  BY <1>1, <1>6 DEF Abstract!Next

LEMMA FailMaps ==
    ASSUME IInv, NEW g \in Generations, fail(g), NEW r, r = Run(g)
    PROVE  Abstract!Next
<1>1. /\ r \in Runs /\ call[g].op = "fail" /\ UNCHANGED remote
      /\ row' = [row EXCEPT ![r].status = "FAILED"]
  BY Current DEF fail, At, service
<1>2. row[r].status \in Open /\ row[r] \in Rows
  BY <1>1, Busy DEF RunOK
<1>3. row'[r].status = "FAILED"
  BY <1>1, <1>2 DEF IInv, Types, Rows
<1>4. \A q \in Runs \ {r} : row'[q] = row[q] /\ remote'[q] = remote[q]
  BY <1>1 DEF IInv, Types
<1>5. Stage(r) \in {"wanted", "ordered"} /\ Stage(r)' = "given up"
  BY <1>2, <1>3 DEF Stage, Open
<1>6. Abstract!GiveUp(r)
  BY <1>1, <1>4, <1>5, OneStage DEF Abstract!GiveUp, Abstract!Move, Stages
<1> QED
  BY <1>1, <1>6 DEF Abstract!Next

\* Orders that leave, and states that are recorded, keep the stage of a run.
LEMMA RecordMaps ==
    ASSUME IInv, NEW g \in Generations,
           submit(g) \/ mark_submitted(g) \/ mark_status(g), NEW r, r = Run(g)
    PROVE  UNCHANGED Stages
<1>1. r \in Runs /\ row[r] \in Rows /\ remote[r] \in States
  BY Current
<1>2. \A q \in Runs \ {r} : row'[q] = row[q] /\ remote'[q] = remote[q]
  BY DEF submit, mark_submitted, mark_status, service, IInv, Types
<1>3. CASE submit(g)
  <2>1. /\ remote[r] = "unsent" /\ row[r].status \in Open
        /\ UNCHANGED row /\ remote'[r] = "sent"
    BY <1>1, <1>3, Busy DEF submit, At, RunOK, IInv, Types
  <2>2. Stage(r)' = Stage(r)
    BY <2>1 DEF Stage, Open, Taken
  <2> QED
    BY <1>1, <1>2, <2>2, OneStage
<1>4. CASE mark_submitted(g) \/ mark_status(g)
  <2>1. row[r].status \in Open
    BY <1>4, Busy DEF mark_submitted, mark_status, At, RunOK
  <2>2. UNCHANGED remote
    BY <1>4 DEF mark_submitted, mark_status, service
  <2>3. row'[r].status \in {"SUBMITTED", "RUNNING"}
    <3>1. row \in [Runs -> Rows]
      BY DEF IInv, Types
    <3>2. CASE mark_submitted(g)
      BY <1>1, <3>1, <3>2 DEF mark_submitted, Rows
    <3>3. CASE mark_status(g)
      BY <1>1, <3>1, <3>3 DEF mark_status, Rows
    <3> QED
      BY <1>4, <3>2, <3>3
  <2>4. Stage(r)' = Stage(r)
    BY <2>1, <2>2, <2>3 DEF Stage, Open
  <2> QED
    BY <1>1, <1>2, <2>4, OneStage
<1> QED
  BY <1>3, <1>4

LEMMA TakeMaps ==
    ASSUME IInv, NEW r \in Runs, Take(r)
    PROVE  Abstract!Next \/ UNCHANGED Stages
<1>1. /\ remote[r] = "sent" /\ remote'[r] \in {"working", "refused"} /\ UNCHANGED row
      /\ row[r] \in Rows /\ RowOK(row[r], remote[r], result[r], artifacts)
  BY DEF Take, IInv, Types, RowsOK
<1>2. \A q \in Runs \ {r} : row'[q] = row[q] /\ remote'[q] = remote[q]
  BY DEF Take, IInv, Types
<1>3. row[r].status \in Open \cup {"FAILED"}
  BY <1>1 DEF RowOK, Rows, Open
<1>4. CASE remote'[r] = "working" /\ row[r].status \in Open
  <2>1. Stage(r) = "wanted" /\ Stage(r)' = "ordered"
    BY <1>1, <1>4 DEF Stage, Open, Taken
  <2>2. Abstract!Order(r)
    BY <1>2, <2>1, OneStage DEF Abstract!Order, Abstract!Move, Stages
  <2> QED
    BY <2>2 DEF Abstract!Next
<1>5. CASE remote'[r] = "refused" \/ row[r].status = "FAILED"
  <2>1. Stage(r)' = Stage(r)
    BY <1>1, <1>3, <1>5 DEF Stage, Open, Taken
  <2> QED
    BY <1>2, <2>1, OneStage
<1> QED
  BY <1>1, <1>3, <1>4, <1>5

LEMMA FinishMaps ==
    ASSUME IInv, NEW r \in Runs, Finish(r)
    PROVE  UNCHANGED Stages
<1>1. /\ remote[r] \in Taken /\ remote'[r] \in Taken /\ UNCHANGED row
  BY DEF Finish, IInv, Types, Taken
<1>2. \A q \in Runs \ {r} : row'[q] = row[q] /\ remote'[q] = remote[q]
  BY DEF Finish, IInv, Types
<1>3. Stage(r)' = Stage(r)
  BY <1>1 DEF Stage
<1> QED
  BY <1>2, <1>3, OneStage

LEMMA NextMaps == IInv /\ [Next]_vars => [Abstract!Next]_Stages
<1> SUFFICES ASSUME IInv, [Next]_vars PROVE Abstract!Next \/ UNCHANGED Stages
  OBVIOUS
<1>1. ASSUME NEW g \in Generations, Step(g)
      PROVE  Abstract!Next \/ UNCHANGED Stages
  <2>0. PICK r : r = Run(g)
    OBVIOUS
  <2>1. CASE create(g)
    BY <2>0, <2>1, CreateMaps
  <2>2. CASE complete(g)
    BY <2>0, <2>2, CompleteMaps
  <2>3. CASE fail(g)
    BY <2>0, <2>3, FailMaps
  <2>4. CASE submit(g) \/ mark_submitted(g) \/ mark_status(g)
    BY <2>0, <2>4, RecordMaps
  <2>5. CASE \/ Submitted(g) \/ Polled(g) \/ Collect(g)
             \/ import_source(g) \/ postprocess_audio(g)
    <3>1. UNCHANGED <<row, remote>>
      BY <2>5 DEF Submitted, Polled, Collect, import_source, postprocess_audio, service
    <3> QED
      BY <3>1, SameStages
  <2> QED
    BY <1>1, <2>1, <2>2, <2>3, <2>4, <2>5 DEF Step
<1>2. ASSUME NEW g \in Generations, TimePasses(g) \/ StepFails(g)
      PROVE  UNCHANGED Stages
  <2>1. UNCHANGED <<row, remote>>
    BY <1>2 DEF TimePasses, StepFails, service
  <2> QED
    BY <2>1, SameStages
<1>3. ASSUME NEW r \in Runs, Take(r) \/ Finish(r)
      PROVE  Abstract!Next \/ UNCHANGED Stages
  BY <1>3, TakeMaps, FinishMaps
<1>4. CASE Crash \/ UNCHANGED vars
  <2>1. UNCHANGED <<row, remote>>
    BY <1>4 DEF Crash, vars, service
  <2> QED
    BY <2>1, SameStages
<1> QED
  BY <1>1, <1>2, <1>3, <1>4 DEF Next

\* Runs are work as RemoteWork has it: wanted before it is ordered, ordered before
\* it is delivered, and delivered or given up for good.
THEOREM RunsAreWork == Spec => WorkSpec
<1>1. Init => Abstract!Init
  BY InitMaps
<1>2. IInv /\ [Next]_vars => [Abstract!Next]_[r \in Runs |-> Stage(r)]
  BY NextMaps DEF Stages
<1> QED
  BY <1>1, <1>2, Invariant, PTL DEF Spec, WorkSpec, Abstract!Spec
-----------------------------------------------------------------------------
(* Orders that can be traced, and answers that are stored *)

\* A step of g leaves the other calls, and all runs but its own, alone.
LEMMA OwnRun ==
    ASSUME IInv, NEW g \in Generations, Step(g)
    PROVE  /\ call[g].op \notin {"end", "stopped"} /\ UNCHANGED faults
           /\ \A r \in Runs \ {Run(g)} : row'[r] = row[r] /\ remote'[r] = remote[r]
           /\ \A q \in Generations \ {g} : call'[q] = call[q]
           /\ UNCHANGED answer \/ \E what : Return(g, what)
<1>1. call[g].op \notin {"end", "stopped"} /\ UNCHANGED faults
  BY DEF Step, create, submit, Submitted, mark_submitted, Polled, mark_status, Collect,
         import_source, postprocess_audio, complete, fail, At
<1>2. /\ row \in [Runs -> Rows] /\ remote \in [Runs -> States] /\ DOMAIN call = Generations
  BY DEF IInv, Types
<1>3. \A r \in Runs \ {Run(g)} : row'[r] = row[r]
  BY <1>2 DEF Step, create, submit, Submitted, mark_submitted, Polled, mark_status, Collect,
              import_source, postprocess_audio, complete, fail
<1>4. \A r \in Runs \ {Run(g)} : remote'[r] = remote[r]
  BY <1>2 DEF Step, create, submit, Submitted, mark_submitted, Polled, mark_status, Collect,
              import_source, postprocess_audio, complete, fail, service
<1>5. \A q \in Generations \ {g} : call'[q] = call[q]
  BY <1>2 DEF Step, create, submit, Submitted, mark_submitted, Polled, mark_status, Collect,
              import_source, postprocess_audio, complete, fail, Goto, NextRun, Return
<1>6. UNCHANGED answer \/ \E what : Return(g, what)
  BY DEF Step, create, submit, Submitted, mark_submitted, Polled, mark_status, Collect,
         import_source, postprocess_audio, complete, fail, NextRun
<1> QED
  BY <1>1, <1>3, <1>4, <1>5, <1>6

\* An order that has left has its request id stored, or its answer is on the way.
Traceable(r) ==
    remote[r] \in Taken \cup {"sent"} =>
      row[r].request \/ (Run(r[1]) = r /\ call[r[1]].op \in {"await", "submitted"})

Orders == faults \in Nat /\ (faults = 0 => \A r \in Runs : Traceable(r))

LEMMA OwnOrder ==
    ASSUME IInv, NEW g \in Generations, Step(g), Traceable(Run(g)), NEW r, r = Run(g)
    PROVE  Traceable(r)'
<1>0. /\ r \in Runs /\ r = <<g, call[g].n>> /\ r[1] = g /\ call[g] \in Calls
      /\ row[r] \in Rows /\ row \in [Runs -> Rows] /\ remote \in [Runs -> States]
      /\ call \in [Generations -> Calls]
  BY Current DEF IInv, Types
<1>1. CASE create(g)
  <2>1. remote'[r] = "unsent"
    BY <1>1, Busy DEF create, At, service, RunOK
  <2> QED
    BY <2>1 DEF Traceable, Taken
<1>2. CASE submit(g)
  <2>1. call'[g].op = "await" /\ call'[g].n = call[g].n
    BY <1>0, <1>2 DEF submit, Goto, Calls
  <2> QED
    BY <1>0, <2>1 DEF Traceable, Run
<1>3. CASE Submitted(g)
  <2>1. CASE remote[r] = "refused"
    BY <1>3, <2>1 DEF Submitted, service, Traceable, Taken
  <2>2. CASE remote[r] # "refused"
    <3>1. PICK seen : call' = [call EXCEPT ![g].op = "submitted", ![g].seen = seen]
      BY <1>3, <2>2 DEF Submitted
    <3>2. call'[g].op = "submitted" /\ call'[g].n = call[g].n
      BY <1>0, <3>1 DEF Calls
    <3> QED
      BY <1>0, <3>2 DEF Traceable, Run
  <2> QED
    BY <2>1, <2>2
<1>4. CASE mark_submitted(g)
  <2>1. row'[r].request = TRUE
    BY <1>0, <1>4 DEF mark_submitted, Rows
  <2> QED
    BY <2>1 DEF Traceable
<1>5. CASE \/ Polled(g) \/ mark_status(g) \/ Collect(g) \/ import_source(g)
           \/ postprocess_audio(g) \/ complete(g) \/ fail(g)
  <2>1. call[g].op \notin {"await", "submitted"} /\ UNCHANGED remote
    BY <1>5 DEF Polled, mark_status, Collect, import_source, postprocess_audio, complete,
                fail, At, service
  <2>2. row'[r].request = row[r].request
    <3>1. CASE UNCHANGED row
      BY <3>1
    <3>2. CASE mark_status(g)
      BY <1>0, <3>2 DEF mark_status, Rows
    <3>3. CASE complete(g)
      BY <1>0, <3>3 DEF complete, Rows
    <3>4. CASE fail(g)
      BY <1>0, <3>4 DEF fail, Rows
    <3> QED
      BY <1>5, <3>1, <3>2, <3>3, <3>4
         DEF Polled, Collect, import_source, postprocess_audio
  <2> QED
    BY <1>0, <2>1, <2>2 DEF Traceable
<1> QED
  BY <1>1, <1>2, <1>3, <1>4, <1>5 DEF Step

LEMMA OrdersInit == Init => Orders
BY DEF Init, Orders, Traceable, Taken

LEMMA OrdersNext == IInv /\ Orders /\ [Next]_vars => Orders'
<1> SUFFICES ASSUME IInv, Orders, [Next]_vars PROVE Orders'
  OBVIOUS
<1>1. ASSUME UNCHANGED <<row, remote, call, faults>> PROVE Orders'
  BY <1>1 DEF Orders, Traceable, Run
<1>2. ASSUME NEW g \in Generations, Step(g) PROVE Orders'
  <2>1. /\ UNCHANGED faults /\ Run(g) \in Runs /\ Run(g) = <<g, call[g].n>>
        /\ \A r \in Runs \ {Run(g)} : row'[r] = row[r] /\ remote'[r] = remote[r]
        /\ \A q \in Generations \ {g} : call'[q] = call[q]
    BY <1>2, OwnRun, Current
  <2>2. ASSUME NEW r \in Runs, faults = 0 PROVE Traceable(r)'
    <3>1. Traceable(r)
      BY <2>2 DEF Orders
    <3>2. PICK q \in Generations : r[1] = q
      BY DEF Runs
    <3>3. CASE r = Run(g)
      BY <1>2, <3>1, <3>3, OwnOrder
    <3>4. CASE r # Run(g) /\ q = g
      BY <2>1, <3>1, <3>2, <3>4 DEF Traceable
    <3>5. CASE r # Run(g) /\ q # g
      BY <2>1, <3>1, <3>2, <3>5 DEF Traceable, Run
    <3> QED
      BY <3>3, <3>4, <3>5
  <2> QED
    BY <2>1, <2>2 DEF Orders
<1>3. ASSUME NEW r \in Runs, Take(r) \/ Finish(r) PROVE Orders'
  <2>1. UNCHANGED <<row, call, faults>>
    BY <1>3 DEF Take, Finish
  <2>2. \A q \in Runs : remote'[q] \in Taken \cup {"sent"} => remote[q] \in Taken \cup {"sent"}
    BY <1>3 DEF Take, Finish, Taken, IInv, Types
  <2> QED
    BY <2>1, <2>2 DEF Orders, Traceable, Run
<1>4. ASSUME faults' = faults + 1 PROVE Orders'
  BY <1>4 DEF Orders
<1>5. ASSUME NEW g \in Generations, TimePasses(g) \/ StepFails(g) PROVE Orders'
  BY <1>1, <1>4, <1>5 DEF TimePasses, StepFails, Fault, service
<1>6. CASE Crash
  BY <1>4, <1>6 DEF Crash, Fault
<1>7. CASE UNCHANGED vars
  BY <1>1, <1>7 DEF vars, service
<1> QED
  BY <1>2, <1>3, <1>5, <1>6, <1>7 DEF Next

\* Until something fails, the row of work that a service has taken tells its request id
\* as soon as the order is answered, and keeps it when the adapter gives the run up.
THEOREM OrdersAreTraceable == Spec => []OrderIsTraceable
<1>1. Orders => OrderIsTraceable
  BY DEF Orders, Traceable, OrderIsTraceable
<1> QED
  BY <1>1, OrdersInit, OrdersNext, Invariant, PTL DEF Spec

\* A run that another may follow.
Good(g, m) ==
    /\ row[<<g, m>>].status = "COMPLETED"
    /\ Plan[g][m] = "EDIT" => HasImage(row[<<g, m>>].outputs)

\* Why a generation answers an error.
LastIsBad(g) ==
    \/ row[Run(g)].status = "FAILED"
    \/ /\ Kind(g) = "EDIT" /\ row[Run(g)].status = "COMPLETED"
       /\ ~HasImage(row[Run(g)].outputs)

AnswerOK(g) ==
    /\ call[g].op # "end" => answer[g] = "none"
    /\ call[g].op \notin {"end", "stopped"} => \A m \in 1..(call[g].n - 1) : Good(g, m)
    /\ answer[g] = "ok" => \A m \in 1..Len(Plan[g]) : row[<<g, m>>].status = "COMPLETED"
    /\ answer[g] = "error" /\ faults = 0 => LastIsBad(g)
    /\ \A m \in 2..Len(Plan[g]) : row[<<g, m>>] # NoRun => Good(g, m - 1)

Answers ==
    /\ faults \in Nat /\ answer \in [Generations -> {"none", "ok", "error"}]
    /\ \A g \in Generations : AnswerOK(g)

LEMMA AnswersInit == Init => Answers
<1> SUFFICES ASSUME Init PROVE Answers
  OBVIOUS
<1>1. /\ faults = 0 /\ answer = [g \in Generations |-> "none"] /\ row = [r \in Runs |-> NoRun]
      /\ \A g \in Generations : call[g] \in {Start(1), NotAsked}
  BY DEF Init
<1>2. ASSUME NEW g \in Generations PROVE AnswerOK(g)
  <2>1. call[g].n = 1 /\ answer[g] = "none"
    BY <1>1 DEF Start, NotAsked
  <2>2. \A m \in 2..Len(Plan[g]) : row[<<g, m>>] = NoRun
    BY <1>1, PlanOf
  <2> QED
    BY <2>1, <2>2 DEF AnswerOK
<1> QED
  BY <1>1, <1>2 DEF Answers

\* A step of g leaves what came before its run as it is, and nothing comes after.
LEMMA OwnChain ==
    ASSUME IInv, NEW g \in Generations, Step(g), AnswerOK(g)
    PROVE  /\ answer[g] = "none"
           /\ \A m \in 1..(call[g].n - 1) : Good(g, m)'
           /\ \A m \in 2..Len(Plan[g]) : row'[<<g, m>>] # NoRun => Good(g, m - 1)'
<1>1. /\ call[g].op \notin {"end", "stopped"} /\ call[g].n \in Nat
      /\ call[g].n \in 1..Len(Plan[g]) /\ Len(Plan[g]) \in Nat
      /\ Run(g) = <<g, call[g].n>>
      /\ \A r \in Runs \ {Run(g)} : row'[r] = row[r]
      /\ \A m \in 1..Len(Plan[g]) : <<g, m>> \in Runs
      /\ CallOK(g, call[g], row, remote, result, artifacts)
  BY OwnRun, Current, PlanOf
<1>2. answer[g] = "none"
  BY <1>1 DEF AnswerOK
<1>3. ASSUME NEW m \in 1..(call[g].n - 1) PROVE Good(g, m)'
  <2>1. Good(g, m)
    BY <1>1 DEF AnswerOK
  <2>2. m \in 1..Len(Plan[g]) /\ m # call[g].n
    BY <1>1
  <2>3. row'[<<g, m>>] = row[<<g, m>>]
    BY <1>1, <2>2
  <2> QED
    BY <2>1, <2>3 DEF Good, HasImage
<1>4. ASSUME NEW m \in 2..Len(Plan[g]), row'[<<g, m>>] # NoRun
      PROVE  Good(g, m - 1)'
  <2>1. CASE m <= call[g].n
    BY <1>1, <1>3, <2>1
  <2>2. CASE m > call[g].n
    <3>1. m \in (call[g].n + 1)..Len(Plan[g]) /\ m \in 1..Len(Plan[g]) /\ m # call[g].n
      BY <1>1, <2>2
    <3>2. row[<<g, m>>] = NoRun
      BY <1>1, <3>1 DEF CallOK
    <3>3. row'[<<g, m>>] = row[<<g, m>>]
      BY <1>1, <3>1
    <3> QED
      BY <1>4, <3>2, <3>3
  <2> QED
    BY <1>1, <2>1, <2>2
<1> QED
  BY <1>2, <1>3, <1>4

LEMMA OwnAnswer ==
    ASSUME IInv, NEW g \in Generations, Step(g), AnswerOK(g),
           answer \in [Generations -> {"none", "ok", "error"}]
    PROVE  AnswerOK(g)' /\ answer' \in [Generations -> {"none", "ok", "error"}]
<1>0. /\ answer[g] = "none"
      /\ \A m \in 1..(call[g].n - 1) : Good(g, m)'
      /\ \A m \in 2..Len(Plan[g]) : row'[<<g, m>>] # NoRun => Good(g, m - 1)'
  BY OwnChain
<1>1. /\ Run(g) \in Runs /\ Run(g) = <<g, call[g].n>> /\ call[g] \in Calls
      /\ row[Run(g)] \in Rows /\ row \in [Runs -> Rows] /\ call \in [Generations -> Calls]
      /\ call[g].n \in Nat /\ call[g].n \in 1..Len(Plan[g]) /\ Len(Plan[g]) \in Nat
  BY Current, PlanOf DEF IInv, Types
<1>2. ASSUME UNCHANGED answer, call'[g].n = call[g].n
      PROVE  AnswerOK(g)' /\ answer' \in [Generations -> {"none", "ok", "error"}]
  <2>1. answer'[g] = "none"
    BY <1>0, <1>2
  <2> QED
    BY <1>0, <1>2, <2>1 DEF AnswerOK
<1>3. ASSUME NEW what \in {"ok", "error"}, Return(g, what),
             what = "ok" => call[g].n = Len(Plan[g]) /\ row'[Run(g)].status = "COMPLETED",
             what = "error" =>
               \/ row'[Run(g)].status = "FAILED"
               \/ /\ Kind(g) = "EDIT" /\ row'[Run(g)].status = "COMPLETED"
                  /\ ~HasImage(row'[Run(g)].outputs)
      PROVE  AnswerOK(g)' /\ answer' \in [Generations -> {"none", "ok", "error"}]
  <2>1. /\ answer' \in [Generations -> {"none", "ok", "error"}] /\ answer'[g] = what
    BY <1>3 DEF Return
  <2>2. call'[g].op = "end" /\ call'[g].n = call[g].n
    BY <1>1, <1>3, StartFields DEF Return
  <2>3. Run(g)' = Run(g) /\ Kind(g)' = Kind(g)
    BY <2>2 DEF Run, Kind
  <2>4. what = "error" => LastIsBad(g)'
    BY <1>3, <2>3 DEF LastIsBad, HasImage
  <2>5. ASSUME what = "ok", NEW m \in 1..Len(Plan[g])
        PROVE  row'[<<g, m>>].status = "COMPLETED"
    <3>1. CASE m = call[g].n
      BY <1>1, <1>3, <2>5, <3>1
    <3>2. CASE m # call[g].n
      <4>1. m \in 1..(call[g].n - 1)
        BY <1>1, <1>3, <2>5, <3>2
      <4> QED
        BY <1>0, <4>1 DEF Good
    <3> QED
      BY <3>1, <3>2
  <2> QED
    BY <1>0, <2>1, <2>2, <2>4, <2>5 DEF AnswerOK
<1>4. CASE \/ create(g) \/ submit(g) \/ mark_submitted(g) \/ mark_status(g)
  <2>1. UNCHANGED answer /\ \E op : Goto(g, op)
    BY <1>4 DEF create, submit, mark_submitted, mark_status
  <2>2. call'[g].n = call[g].n
    BY <1>1, <2>1 DEF Goto, Calls
  <2> QED
    BY <1>2, <2>1, <2>2
<1>5. CASE \/ Submitted(g) \/ Polled(g) \/ Collect(g) \/ import_source(g)
           \/ postprocess_audio(g)
  <2>1. UNCHANGED answer
    BY <1>5 DEF Submitted, Polled, Collect, import_source, postprocess_audio
  <2>2. call'[g].n = call[g].n
    <3>1. CASE Submitted(g)
      BY <1>1, <3>1 DEF Submitted, Goto, Calls
    <3>2. CASE Polled(g)
      BY <1>1, <3>2 DEF Polled, Calls
    <3>3. CASE Collect(g)
      BY <1>1, <3>3 DEF Collect, Calls
    <3>4. CASE import_source(g)
      BY <1>1, <3>4 DEF import_source, Calls
    <3>5. CASE postprocess_audio(g)
      BY <1>1, <3>5 DEF postprocess_audio, Calls
    <3> QED
      BY <1>5, <3>1, <3>2, <3>3, <3>4, <3>5
  <2> QED
    BY <1>2, <2>1, <2>2
<1>6. CASE complete(g)
  <2>1. row'[Run(g)].status = "COMPLETED" /\ row'[Run(g)].outputs = call[g].got
    BY <1>1, <1>6 DEF complete, Rows
  <2>2. CASE Kind(g) = "EDIT" /\ ~HasImage(call[g].got)
    <3>1. Return(g, "error") /\ ~HasImage(row'[Run(g)].outputs)
      BY <1>6, <2>1, <2>2 DEF complete, NextRun
    <3> QED
      BY <1>3, <2>1, <2>2, <3>1
  <2>3. CASE ~(Kind(g) = "EDIT" /\ ~HasImage(call[g].got)) /\ call[g].n < Len(Plan[g])
    <3>1. /\ UNCHANGED answer /\ call' = [call EXCEPT ![g] = Start(call[g].n + 1)]
      BY <1>6, <2>3 DEF complete, NextRun
    <3>2. call'[g].n = call[g].n + 1 /\ answer'[g] = "none"
      BY <1>0, <1>1, <3>1 DEF Start
    <3>3. PICK n : n = call[g].n
      OBVIOUS
    <3>4. Good(g, n)'
      <4>1. /\ row'[<<g, n>>].status = "COMPLETED" /\ row'[<<g, n>>].outputs = call[g].got
            /\ Plan[g][n] = "EDIT" => HasImage(call[g].got)
        BY <1>1, <2>1, <2>3, <3>3 DEF Kind
      <4> QED
        BY <4>1 DEF Good, HasImage
    <3>5. n \in Nat /\ call'[g].n - 1 = n /\ \A m \in 1..(n - 1) : Good(g, m)'
      BY <1>0, <1>1, <3>2, <3>3
    <3>6. ASSUME NEW m \in 1..(call'[g].n - 1) PROVE Good(g, m)'
      <4>1. m = n \/ m \in 1..(n - 1)
        BY <3>5
      <4> QED
        BY <3>4, <3>5, <4>1
    <3> QED
      BY <1>0, <3>1, <3>2, <3>6 DEF AnswerOK
  <2>4. CASE ~(Kind(g) = "EDIT" /\ ~HasImage(call[g].got)) /\ call[g].n >= Len(Plan[g])
    <3>1. Return(g, "ok") /\ call[g].n = Len(Plan[g])
      BY <1>1, <1>6, <2>4 DEF complete, NextRun
    <3> QED
      BY <1>3, <2>1, <3>1
  <2> QED
    BY <1>1, <2>2, <2>3, <2>4
<1>7. CASE fail(g)
  <2>1. Return(g, "error") /\ row'[Run(g)].status = "FAILED"
    BY <1>1, <1>7 DEF fail, Rows
  <2> QED
    BY <1>3, <2>1
<1> QED
  BY <1>4, <1>5, <1>6, <1>7 DEF Step

LEMMA AnswersNext == IInv /\ Answers /\ [Next]_vars => Answers'
<1> SUFFICES ASSUME IInv, Answers, [Next]_vars PROVE Answers'
  OBVIOUS
<1>1. ASSUME UNCHANGED <<row, call, answer, faults>> PROVE Answers'
  BY <1>1 DEF Answers, AnswerOK, Good, LastIsBad, Run, Kind, HasImage
<1>2. ASSUME NEW g \in Generations, Step(g) PROVE Answers'
  <2>1. /\ UNCHANGED faults /\ Run(g) = <<g, call[g].n>>
        /\ \A r \in Runs \ {Run(g)} : row'[r] = row[r]
        /\ \A q \in Generations \ {g} : call'[q] = call[q]
        /\ UNCHANGED answer \/ \E what : Return(g, what)
    BY <1>2, OwnRun, Current
  <2>2. AnswerOK(g)' /\ answer' \in [Generations -> {"none", "ok", "error"}]
    BY <1>2, OwnAnswer DEF Answers
  <2>3. ASSUME NEW q \in Generations \ {g} PROVE AnswerOK(q)'
    <3>1. AnswerOK(q) /\ call'[q] = call[q] /\ answer'[q] = answer[q]
      BY <2>1 DEF Answers, Return
    <3>2. ASSUME NEW m \in 1..Len(Plan[q]) PROVE row'[<<q, m>>] = row[<<q, m>>]
      BY <2>1, PlanOf
    <3>3. /\ call[q].n \in 1..Len(Plan[q]) /\ Run(q) = <<q, call[q].n>>
          /\ Len(Plan[q]) \in Nat /\ Run(q)' = Run(q) /\ Kind(q)' = Kind(q)
      BY <3>1, Current, PlanOf DEF Run, Kind
    <3>4. row'[Run(q)] = row[Run(q)]
      BY <3>2, <3>3
    <3>5. LastIsBad(q) => LastIsBad(q)'
      BY <3>3, <3>4 DEF LastIsBad, HasImage
    <3>6. \A m \in 1..Len(Plan[q]) : Good(q, m) => Good(q, m)'
      BY <3>2 DEF Good, HasImage
    <3>7. ASSUME NEW m \in 1..(call[q].n - 1) PROVE m \in 1..Len(Plan[q])
      BY <3>3
    <3>8. ASSUME NEW m \in 2..Len(Plan[q])
          PROVE  m \in 1..Len(Plan[q]) /\ m - 1 \in 1..Len(Plan[q])
      BY <3>3
    <3> QED
      BY <2>1, <3>1, <3>2, <3>5, <3>6, <3>7, <3>8 DEF AnswerOK
  <2> QED
    BY <2>1, <2>2, <2>3 DEF Answers
<1>3. ASSUME NEW r \in Runs, Take(r) \/ Finish(r) PROVE Answers'
  BY <1>1, <1>3 DEF Take, Finish
<1>4. ASSUME Fault, UNCHANGED row, answer' \in [Generations -> {"none", "ok", "error"}],
             \A g \in Generations :
               \/ call'[g] = call[g] /\ answer'[g] = answer[g]
               \/ call[g].op # "end" /\ call'[g].op = "end" /\ answer'[g] = "error"
               \/ call[g].op # "end" /\ call'[g].op = "stopped" /\ answer'[g] = answer[g]
               \/ /\ call[g].op \notin {"end", "stopped"} /\ call'[g].op = "fail"
                  /\ call'[g].n = call[g].n /\ answer'[g] = answer[g]
      PROVE  Answers'
  <2>1. faults' \in Nat /\ faults' # 0
    BY <1>4 DEF Answers, Fault
  <2>2. ASSUME NEW g \in Generations PROVE AnswerOK(g)'
    <3>1. AnswerOK(g)
      BY DEF Answers
    <3>2. \A m : Good(g, m)' = Good(g, m)
      BY <1>4 DEF Good, HasImage
    <3> QED
      BY <1>4, <2>1, <3>1, <3>2 DEF AnswerOK
  <2> QED
    BY <1>4, <2>1, <2>2 DEF Answers
<1>5. ASSUME NEW g \in Generations, StepFails(g) PROVE Answers'
  <2>1. /\ Fault /\ UNCHANGED row /\ call[g] \in Calls /\ call \in [Generations -> Calls]
        /\ answer \in [Generations -> {"none", "ok", "error"}]
    BY <1>5 DEF StepFails, Answers, IInv, Types
  <2>2. CASE call[g].op \in {"start", "fail"} /\ Return(g, "error")
    <3>1. call'[g].op = "end" /\ answer'[g] = "error"
      BY <2>1, <2>2 DEF Return, Start
    <3>2. \A q \in Generations \ {g} : call'[q] = call[q] /\ answer'[q] = answer[q]
      BY <2>1, <2>2 DEF Return
    <3>3. answer' \in [Generations -> {"none", "ok", "error"}]
      BY <2>1, <2>2 DEF Return
    <3> QED
      BY <1>4, <2>1, <2>2, <3>1, <3>2, <3>3
  <2>3. CASE /\ call[g].op \in {"await", "submitted", "poll", "status", "collect",
                                "import", "postprocess", "complete"}
             /\ Goto(g, "fail") /\ UNCHANGED answer
    <3>1. /\ call'[g].op = "fail" /\ call'[g].n = call[g].n
          /\ \A q \in Generations \ {g} : call'[q] = call[q]
      BY <2>1, <2>3 DEF Goto, Calls
    <3> QED
      BY <1>4, <2>1, <2>3, <3>1
  <2> QED
    BY <1>5, <2>2, <2>3 DEF StepFails
<1>6. CASE Crash
  <2>1. /\ Fault /\ UNCHANGED <<row, answer>>
        /\ \A g \in Generations : call'[g] = IF call[g].op = "end" THEN call[g] ELSE Stopped
    BY <1>6 DEF Crash, At
  <2>2. Stopped.op = "stopped"
    BY DEF Stopped, Start
  <2>3. answer' \in [Generations -> {"none", "ok", "error"}]
    BY <2>1 DEF Answers
  <2> QED
    BY <1>4, <2>1, <2>2, <2>3
<1>7. ASSUME NEW g \in Generations, TimePasses(g) PROVE Answers'
  BY <1>1, <1>7 DEF TimePasses
<1>8. CASE UNCHANGED vars
  BY <1>1, <1>8 DEF vars
<1> QED
  BY <1>2, <1>3, <1>5, <1>6, <1>7, <1>8 DEF Next

LEMMA AnswersHold == Spec => []Answers
BY AnswersInit, AnswersNext, Invariant, PTL DEF Spec

\* What a generation answers is what its rows say, however many calls run side by side:
\* a good answer has every run COMPLETED, an error names a failure that is stored unless
\* something failed besides, and no run follows a bad one.
THEOREM AnswersAreStored == Spec => []AnswerIsStored
<1>1. Answers => AnswerIsStored
  BY DEF Answers, AnswerOK, LastIsBad, Good, AnswerIsStored
<1> QED
  BY <1>1, AnswersHold, PTL

\* A model is ordered only when the edit before it has delivered an image, which is in
\* the artifact store, whatever the edit's service makes.
THEOREM ModelsHaveReferences == Spec => []ModelFromReference
<1>1. IInv /\ Answers => ModelFromReference
  <2> SUFFICES ASSUME IInv, Answers, NEW g \in Generations, NEW n \in 2..Len(Plan[g]),
                      Plan[g][n] = "MODEL", row[<<g, n>>] # NoRun
               PROVE  HasImage(row[<<g, n - 1>>].outputs \cap artifacts)
    BY DEF ModelFromReference
  <2>1. Good(g, n - 1) /\ Plan[g][n - 1] = "EDIT"
    BY AssetAssumption DEF Answers, AnswerOK
  <2>2. n - 1 \in 1..Len(Plan[g])
    BY PlanOf
  <2>3. <<g, n - 1>> \in Runs
    BY <2>2, PlanOf
  <2>4. RowOK(row[<<g, n - 1>>], remote[<<g, n - 1>>], result[<<g, n - 1>>], artifacts)
    BY <2>3 DEF IInv, RowsOK
  <2> QED
    BY <2>1, <2>4 DEF Good, RowOK, HasImage
<1> QED
  BY <1>1, Invariant, AnswersHold, PTL
=============================================================================
