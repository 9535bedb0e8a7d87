----------------------------- MODULE RemoteWork -----------------------------
(***************************************************************************)
(* What the adapters of src/core/src/provider promise about work that a    *)
(* paid service does: it is wanted before it is ordered, ordered before it *)
(* is delivered, and a piece of work that was delivered or given up stays  *)
(* so, whatever the service does later.                                    *)
(***************************************************************************)
CONSTANT Work   \* pieces of work

VARIABLE stage  \* [Work -> {"absent", "wanted", "ordered", "delivered", "given up"}]

Init == stage = [w \in Work |-> "absent"]

Move(w, from, to) == stage[w] \in from /\ stage' = [stage EXCEPT ![w] = to]

Want(w) == Move(w, {"absent"}, "wanted")
Order(w) == Move(w, {"wanted"}, "ordered")
Deliver(w) == Move(w, {"ordered"}, "delivered")
GiveUp(w) == Move(w, {"wanted", "ordered"}, "given up")

Next == \E w \in Work : Want(w) \/ Order(w) \/ Deliver(w) \/ GiveUp(w)

Spec == Init /\ [][Next]_stage
=============================================================================
