----------------------------- MODULE MCShutdown -----------------------------
(* Instances of Shutdown for TLC: two refunds by HTTP, and a bet from the   *)
(* queue that shares the wallet of the first.                              *)
EXTENDS Shutdown, TLC

CONSTANTS w1, w2, refund1, refund2, bet

MCTarget == [r \in Request |-> IF r = refund2 THEN w2 ELSE w1]
=============================================================================
