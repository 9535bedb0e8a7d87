---------------------------- MODULE WorldHistory ----------------------------
(***************************************************************************)
(* What the Core promises of the formal history of its worlds: a world's   *)
(* history only grows, by one accepted candidate at a time, and a          *)
(* candidate gets one verdict. WorldRevisions implements this              *)
(* specification.                                                          *)
(***************************************************************************)
EXTENDS Sequences

CONSTANTS Worlds, Candidates, WorldOf

VARIABLES history,  \* [Worlds -> Seq(Candidates)], oldest first
          verdict   \* [Candidates -> {"NONE", "PENDING", "ACCEPTED", "REJECTED"}]

Init ==
    /\ history = [w \in Worlds |-> <<>>]
    /\ verdict = [k \in Candidates |-> "NONE"]

Decide(k, from, to) ==
    /\ verdict[k] = from
    /\ verdict' = [verdict EXCEPT ![k] = to]

Propose(k) == Decide(k, "NONE", "PENDING") /\ UNCHANGED history

Reject(k) == Decide(k, "PENDING", "REJECTED") /\ UNCHANGED history

Accept(k) ==
    /\ Decide(k, "PENDING", "ACCEPTED")
    /\ history' = [history EXCEPT ![WorldOf[k]] = Append(@, k)]

Next == \E k \in Candidates : Propose(k) \/ Reject(k) \/ Accept(k)

Spec == Init /\ [][Next]_<<history, verdict>>
=============================================================================
