------------------------- MODULE MCOutboxPublisher -------------------------
(* Instances of OutboxPublisher for TLC: two events, two publishers. *)
EXTENDS OutboxPublisher

CONSTANTS e1, e2, p1, p2
=============================================================================
