----------------------------- MODULE EventRelay -----------------------------
(* What the outbox promises of each event, however many publishers there   *)
(* are and whatever fails: it is stored, then accepted by the queue, then   *)
(* recorded as published, in that order, and none of it is ever undone.     *)
CONSTANT Event

VARIABLE stage

Stage == {"none", "stored", "delivered", "published"}

Following(s) ==
    CASE s = "none" -> "stored"
      [] s = "stored" -> "delivered"
      [] s = "delivered" -> "published"

Init == stage = [e \in Event |-> "none"]

Advance(e) ==
    /\ stage[e] # "published"
    /\ stage' = [stage EXCEPT ![e] = Following(@)]

Next == \E e \in Event : Advance(e)

Spec == Init /\ [][Next]_stage
=============================================================================
