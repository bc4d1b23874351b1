---------------------------- MODULE WagerContract ----------------------------
(***************************************************************************)
(* What the engine promises of its wallets, whatever runs beside it: a     *)
(* request takes effect in one step and once, on the balance of that       *)
(* moment; a bet or a rollback is refused for lack of funds only when they *)
(* lack; a reversal undoes one movement that was made, and no movement is  *)
(* undone twice; what is decided stays decided.  No locks, rows or retries.*)
(***************************************************************************)
EXTENDS Integers

CONSTANTS Wallet, Request, MaxCents, Null, account, body

VARIABLES open,      \* the wallets that were opened
          balance,   \* balance[w]: cents
          outcome    \* outcome[r]: what was decided of request r

promised == <<open, balance, outcome>>

Reversal == {"REFUND", "ROLLBACK"}

\* Nothing is stored yet under the request's key or its external id.
Fresh(r) ==
    \A x \in Request : outcome[x] # "ABSENT" =>
        /\ body[x].ext # body[r].ext
        /\ body[r].key # Null => body[x].key # body[r].key

Takes(r) ==
    \/ outcome[r] = "PENDING_REFERENCE"
    \/ outcome[r] = "ABSENT" /\ Fresh(r) /\ body[r].wallet \in open

Undoable(r, x) ==
    /\ outcome[x] = "PROCESSED" /\ body[x].ext = body[r].ref
    /\ body[x].wallet = body[r].wallet /\ body[x].cents = body[r].cents
    /\ body[x].kind \in (IF body[r].kind = "REFUND" THEN {"BET"}
                                                    ELSE {"BET", "WIN", "REFUND"})

Undone(r) ==
    \E x \in Request \ {r} : /\ outcome[x] = "PROCESSED" /\ body[x].kind \in Reversal
                             /\ body[x].ref = body[r].ref

\* A reversal of x moves the money x moved the other way.
Change(r, x) ==
    CASE body[r].kind = "LOSS" -> 0
      [] body[r].kind = "BET" -> - body[r].cents
      [] body[r].kind = "WIN" -> body[r].cents
      [] body[r].kind \in Reversal ->
            IF body[x].kind = "BET" THEN body[r].cents ELSE - body[r].cents

-----------------------------------------------------------------------------
Init ==
    /\ open = {}
    /\ balance = [w \in Wallet |-> 0]
    /\ outcome = [r \in Request |-> "ABSENT"]

Open(w) ==
    /\ w \notin open
    /\ account[w].opening \in 0..MaxCents
    /\ open' = open \cup {w}
    /\ balance' = [balance EXCEPT ![w] = account[w].opening]
    /\ UNCHANGED outcome

Decide(r, decision) ==
    /\ outcome' = [outcome EXCEPT ![r] = decision]
    /\ UNCHANGED open

Fulfil(r, x) ==
    /\ Takes(r)
    /\ body[r].kind \in Reversal => Undoable(r, x) /\ ~ Undone(r)
    /\ balance[body[r].wallet] + Change(r, x) \in 0..MaxCents
    /\ balance' = [balance EXCEPT ![body[r].wallet] = @ + Change(r, x)]
    /\ Decide(r, "PROCESSED")

Refuse(r) ==
    /\ Takes(r)
    /\ \/ outcome[r] = "PENDING_REFERENCE"
       \/ /\ body[r].kind \in {"BET", "ROLLBACK"}
          /\ balance[body[r].wallet] < body[r].cents
    /\ Decide(r, "REJECTED")
    /\ UNCHANGED balance

Wait(r) ==
    /\ Takes(r)
    /\ outcome[r] = "ABSENT" /\ body[r].kind \in Reversal
    /\ Decide(r, "PENDING_REFERENCE")
    /\ UNCHANGED balance

Next ==
    \/ \E w \in Wallet : Open(w)
    \/ \E r \in Request : Refuse(r) \/ Wait(r) \/ \E x \in Request : Fulfil(r, x)

Spec == Init /\ [][Next]_promised
=============================================================================
