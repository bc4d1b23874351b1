----------------------------- MODULE MCWagering -----------------------------
(* Instances of Wagering for TLC: catalogues of requests on small wallets. *)
EXTENDS Wagering, TLC

CONSTANTS w1, w2, p1, p2, v1, v2,
          bet, refund, rollback, unrefund, win, loss, reuse, other, bet2

\* Two players' wallets; the amounts are cents.
MCAccount == [w \in {w1, w2} |->
    IF w = w1 THEN [player |-> "ana", currency |-> "BRL", opening |-> 10]
              ELSE [player |-> "bia", currency |-> "BRL", opening |-> 0]]

Body(k, w, n, key, ext, ref) ==
    [kind |-> k, wallet |-> w, cents |-> n, currency |-> "BRL",
     key |-> key, ext |-> ext, ref |-> ref, round |-> "r1"]

MCBody ==
    bet      :> Body("BET",      w1, 10, "k1", "b",  Null) @@
    refund   :> Body("REFUND",   w1, 10, "k2", "f",  "b")  @@
    rollback :> Body("ROLLBACK", w1, 10, "k3", "k",  "b")  @@
    unrefund :> Body("ROLLBACK", w1, 10, "k4", "u",  "f")  @@
    win      :> Body("WIN",      w1, 5,  "k5", "w",  Null) @@
    loss     :> Body("LOSS",     w1, 0,  "k6", "l",  Null) @@
    reuse    :> Body("REFUND",   w1, 5,  "k2", "f2", "b")  @@
    other    :> Body("WIN",      w2, 10, "k1", "b2", Null) @@
    bet2     :> Body("BET",      w1, 5,  "k8", "b3", Null)

Symmetry == Permutations({p1, p2})
=============================================================================
