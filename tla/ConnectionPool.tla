--------------------------- MODULE ConnectionPool ---------------------------
(***************************************************************************)
(* Who waits for whom in one replica.  A request holds a connection of the *)
(* pool for its transaction, in it the row lock of its wallet, and, when   *)
(* it is a reversal, takes a second connection for each of two queries     *)
(* that go through the pool and not through the transaction.  Nothing sets *)
(* a deadline: a request waits until it is served or its caller gives up.  *)
(***************************************************************************)
EXTENDS Integers, FiniteSets

CONSTANTS
    Request,   \* requests that may be in progress at the same time
    Reversal,  \* those that are a REFUND or a ROLLBACK
    Wallet,    \* the wallets they lock
    PoolSize,  \* MaxConns of the pool (25 in the code)
    Null,      \* no holder
    target     \* target[r]: the wallet of r

ASSUME PoolAssumption ==
    /\ IsFiniteSet(Request)
    /\ Reversal \subseteq Request
    /\ PoolSize \in Nat \ {0}
    /\ Null \notin Request
    /\ target \in [Request -> Wallet]

VARIABLES
    pc,      \* pc[r]: where request r stands
    left,    \* left[r]: queries through the pool r may still make
    holder   \* holder[w]: the request with the row lock of w, or Null

vars == <<pc, left, holder>>

\* Requests with a transaction open, and those in a second query meanwhile.
InTx == {r \in Request : pc[r] \in {"begun", "asking", "querying", "ready"}}
Querying == {r \in Request : pc[r] = "querying"}
Free == PoolSize - Cardinality(InTx) - Cardinality(Querying)

Init ==
    /\ pc = [r \in Request |-> "idle"]
    /\ left = [r \in Request |-> 0]
    /\ holder = [w \in Wallet |-> Null]

\* An HTTP request or a message arrives; pool.Begin waits for a connection.
Arrive(r) ==
    /\ pc[r] = "idle"
    /\ pc' = [pc EXCEPT ![r] = "acquiring"]
    /\ UNCHANGED <<left, holder>>

Begin(r) ==
    /\ pc[r] = "acquiring" /\ Free > 0
    /\ pc' = [pc EXCEPT ![r] = "begun"]
    /\ UNCHANGED <<left, holder>>

\* GetWalletForUpdate: the row lock, then the way a reversal or another takes.
LockWallet(r) ==
    /\ pc[r] = "begun" /\ holder[target[r]] = Null
    /\ holder' = [holder EXCEPT ![target[r]] = r]
    /\ pc' = [pc EXCEPT ![r] = IF r \in Reversal THEN "asking" ELSE "ready"]
    /\ left' = [left EXCEPT ![r] = IF r \in Reversal THEN 2 ELSE 0]

\* Mutant: a query that does not wait for a connection.
QueryAtOnce(r) ==
    /\ pc[r] = "asking"
    /\ pc' = [pc EXCEPT ![r] = "querying"]
    /\ left' = [left EXCEPT ![r] = @ - 1]
    /\ UNCHANGED holder

\* GetTransactionByExternalID, then HasSuccessfulReversal.
Query(r) ==
    /\ pc[r] = "asking" /\ Free > 0
    /\ pc' = [pc EXCEPT ![r] = "querying"]
    /\ left' = [left EXCEPT ![r] = @ - 1]
    /\ UNCHANGED holder

\* The answer gives the connection back.  A missing reference, or one that
\* does not match, ends the queries early.
Answer(r) ==
    /\ pc[r] = "querying"
    /\ \/ left[r] > 0 /\ pc' = [pc EXCEPT ![r] = "asking"]
       \/ pc' = [pc EXCEPT ![r] = "ready"]
    /\ UNCHANGED <<left, holder>>

\* Mutant: the transaction is left open on the wallet's row.
LeaveLocked(r) ==
    /\ pc' = [pc EXCEPT ![r] = "idle"]
    /\ left' = [left EXCEPT ![r] = 0]
    /\ UNCHANGED holder

Leave(r) ==
    /\ pc' = [pc EXCEPT ![r] = "idle"]
    /\ left' = [left EXCEPT ![r] = 0]
    /\ holder' = [w \in Wallet |-> IF holder[w] = r THEN Null ELSE holder[w]]

\* Commit, or rollback with an error.
End(r) == pc[r] = "ready" /\ Leave(r)

\* A repetition or a conflict is answered under the lock, before any query.
EndEarly(r) == pc[r] = "asking" /\ left[r] = 2 /\ Leave(r)

\* An error, or the caller gives up: its context is cancelled wherever it waits.
GiveUp(r) == pc[r] # "idle" /\ Leave(r)

Serve(r) == Begin(r) \/ LockWallet(r) \/ Query(r) \/ Answer(r) \/ End(r) \/ EndEarly(r)

Next == \E r \in Request : Arrive(r) \/ Serve(r) \/ GiveUp(r)

Spec == Init /\ [][Next]_vars

\* The pool and the row lock serve their waiters in order of arrival, queries
\* and commits return.  Nobody has to give up.
Fairness ==
    \A r \in Request :
        /\ SF_vars(Begin(r)) /\ SF_vars(LockWallet(r)) /\ SF_vars(Query(r))
        /\ WF_vars(Answer(r)) /\ WF_vars(End(r))

FairSpec == Spec /\ Fairness
-----------------------------------------------------------------------------
(* Properties                                                              *)

Locked(r) == pc[r] \in {"asking", "querying", "ready"}

\* The pool never lends more than it has, and a wallet's holder is the request
\* that is at work on it.
TypeOK ==
    /\ pc \in [Request -> {"idle", "acquiring", "begun", "asking", "querying", "ready"}]
    /\ left \in [Request -> 0..2]
    /\ holder \in [Wallet -> Request \cup {Null}]
    /\ Free \in 0..PoolSize
    /\ \A w \in Wallet : \A r \in Request : holder[w] = r <=> Locked(r) /\ target[r] = w

CanMove(r) ==
    \/ pc[r] = "acquiring" /\ Free > 0
    \/ pc[r] = "begun" /\ holder[target[r]] = Null
    \/ pc[r] = "asking" /\ Free > 0
    \/ pc[r] \in {"querying", "ready"}

\* Everybody waits, for one another or for a connection.
Standstill == (\E r \in Request : pc[r] # "idle") /\ ~ \E r \in Request : CanMove(r)

\* Requests wait for one another in a circle only when transactions hold all
\* connections, and each of them is a reversal that asks for one more or waits
\* for the wallet of such a reversal.
OnlyFullPoolStands ==
    Standstill =>
        /\ Cardinality(InTx) = PoolSize
        /\ \A r \in InTx : \E h \in Reversal : pc[h] = "asking" /\ target[h] = target[r]

\* A pool in which that cannot be: nobody needs a second connection, or there
\* is one more than requests in progress.
Ample == Reversal = {} \/ PoolSize > Cardinality(Request)

\* Every request that arrives is answered, unless all stand still for good.
EveryRequestEnds ==
    \A r \in Request : pc[r] = "acquiring" ~> (pc[r] = "idle" \/ []Standstill)

\* "Carteiras independentes devem avançar em paralelo": a request on a wallet
\* nobody else uses is answered, whatever the others do.
IndependentWalletsAdvance ==
    \A r \in Request :
        (\A x \in Request \ {r} : target[x] # target[r]) =>
            (pc[r] = "acquiring" ~> pc[r] = "idle")
=============================================================================
