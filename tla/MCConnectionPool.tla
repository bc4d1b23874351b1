-------------------------- MODULE MCConnectionPool --------------------------
(* Instances of ConnectionPool for TLC: two refunds and a bet. *)
EXTENDS ConnectionPool, TLC

CONSTANTS w1, w2, refund1, refund2, bet

MCTarget == [r \in Request |-> IF r = refund2 THEN w2 ELSE w1]
=============================================================================
