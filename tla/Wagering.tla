------------------------------ MODULE Wagering ------------------------------
(***************************************************************************)
(* The financial core: wallets, external wager transactions, the ledger    *)
(* and the outbox rows that share each database commit.                    *)
(*                                                                         *)
(* Two kinds of agents work on the same PostgreSQL tables (READ COMMITTED):*)
(*   - a Process runs WagerService.ProcessTransactionInTx for one request: *)
(*     an HTTP handler or the SQS consumer, of any replica;                *)
(*   - a Worker runs the PendingReferenceWorker loop; every replica of the *)
(*     application starts one.                                             *)
(*                                                                         *)
(* Each statement that reads shared tables is an action of its own.  The   *)
(* writes of a database transaction become visible together and the row    *)
(* locks they take always follow the wallet's, so the writes and the       *)
(* commit are one action, guarded by the UNIQUE constraints and indexes.   *)
(*                                                                         *)
(* A row of wager_transactions is named by the request that inserted it:   *)
(* the idempotency key is unique, so a request inserts at most one.        *)
(***************************************************************************)
EXTENDS Integers, Sequences, FiniteSets

CONSTANTS
    Wallet,      \* identifiers a wallet may be opened under
    Request,     \* the distinct wager requests clients and queues may submit
    Process,     \* goroutines serving requests, over all replicas
    Worker,      \* pending-reference workers, one per replica
    BatchLimit,  \* LIMIT of the pending-reference query (10 in the code)
    MaxCents,    \* the largest amount of an int64 of cents
    Null,        \* no holder, no request, no row
    account,     \* account[w]: owner, currency and initial balance of w
    body         \* body[r]: the fields of request r (see BodyAssumption)

Kind == {"BET", "WIN", "LOSS", "REFUND", "ROLLBACK"}
Reversal == {"REFUND", "ROLLBACK"}
Agent == Process \cup Worker

\* A wallet's OPENING row bears the wallet's own id.
Row == Wallet \cup Request

\* key is the idempotency key; ext and ref are (provider, external id) pairs;
\* round stands for player and round, which are only ever compared together.
ASSUME BodyAssumption ==
    \A r \in Request :
        /\ body[r].wallet \in Wallet
        /\ body[r].kind \in Kind
        /\ body[r].cents \in Int

ASSUME AccountAssumption == \A w \in Wallet : account[w].opening \in Int

ASSUME NameAssumption ==
    /\ Wallet \cap Request = {}
    /\ Process \cap Worker = {}
    /\ Null \notin Row \cup Agent

ASSUME BoundAssumption == MaxCents \in Nat /\ BatchLimit \in Nat \ {0}

VARIABLES
    wallet,   \* wallet[w]: balance and version; version 0 before it is opened
    holder,   \* holder[w]: the agent with the row lock of w, or Null
    txn,      \* txn[x]: status, failure code, balance_after, resolved reference
    ledger,   \* ledger[w]: the ledger entries of w in commit order
    outbox,   \* outbox[x][t]: how many events of type t were stored for row x
    aged,     \* pending rows created more than a minute ago
    pc,       \* pc[a]: where agent a stands
    job,      \* job[a]: the request agent a is handling
    base,     \* base[a]: the wallet as read under the lock
    seen,     \* seen[a]: the reference row as read, with its status
    verdict,  \* verdict[v]: the failure code worker v is about to store
    batch,    \* batch[v]: pending rows worker v listed and has not handled
    overdue   \* overdue[v]: those that had aged when the list was read

tables == <<wallet, txn, ledger, outbox>>
locals == <<pc, job, base, seen, verdict>>
vars == <<tables, holder, aged, locals, batch, overdue>>

-----------------------------------------------------------------------------
(* Values                                                                  *)

NoWallet == [balance |-> 0, version |-> 0]

\* A NULL balance_after is read back as Money{}, zero of no currency, which
\* is no wallet's balance.
NoMoney == -1

NoRow == [status |-> "ABSENT", code |-> "", after |-> NoMoney, resolved |-> Null]
NoReference == [row |-> Null, status |-> "ABSENT"]

ProcessedRow(after, ref) ==
    [status |-> "PROCESSED", code |-> "", after |-> after, resolved |-> ref]

RejectedRow(code) ==
    [status |-> "REJECTED", code |-> code, after |-> NoMoney, resolved |-> Null]

PendingRow ==
    [status |-> "PENDING_REFERENCE", code |-> "", after |-> NoMoney, resolved |-> Null]

\* FAILED and PENDING are never stored.
Terminal == {"PROCESSED", "REJECTED"}

FailureCode == {"", "INSUFFICIENT_FUNDS", "ROLLBACK_INSUFFICIENT_FUNDS",
                "REFERENCE_NOT_FOUND", "REFERENCE_NOT_PROCESSED",
                "REFERENCE_MISMATCH", "REFERENCE_ALREADY_REVERSED"}

EventType == {"WagerTransactionProcessed", "WagerTransactionRejected",
              "WagerTransactionPendingReference", "WalletBalanceChanged"}

\* CreateTransaction stores a zero balance_after as NULL.
Stored(cents) == IF cents = 0 THEN NoMoney ELSE cents

\* Wallet.Credit and Wallet.Debit: the wallet after a movement, and whether
\* the movement is allowed.
Moved(b, dir, cents) ==
    [balance |-> IF dir = "CREDIT" THEN b.balance + cents ELSE b.balance - cents,
     version |-> b.version + 1]

\* Mutants: a debit without the look at the balance; one that must leave some.
CanMoveUnchecked(b, dir, cents) == dir = "CREDIT" => b.balance + cents <= MaxCents
CanMoveStrictly(b, dir, cents) ==
    IF dir = "CREDIT" THEN b.balance + cents <= MaxCents ELSE cents < b.balance

CanMove(b, dir, cents) ==
    IF dir = "CREDIT" THEN b.balance + cents <= MaxCents ELSE cents <= b.balance

Entry(x, dir, cents, b) ==
    [txn |-> x, direction |-> dir, cents |-> cents,
     before |-> b.balance, after |-> Moved(b, dir, cents).balance]

\* NewExternalTransaction: what a request must satisfy before any query.
Valid(r) ==
    \/ body[r].kind \in {"BET", "WIN"} /\ body[r].cents > 0
    \/ body[r].kind = "LOSS" /\ body[r].cents = 0
    \/ body[r].kind \in Reversal /\ body[r].cents > 0 /\ body[r].ref # Null

\* Mutant: a rollback always gives back.
DirectionOfKind(r, x) ==
    IF body[r].kind \in {"WIN", "REFUND", "ROLLBACK"} THEN "CREDIT" ELSE "DEBIT"

\* The direction request r moves its wallet, x being the row it reverses.
Direction(r, x) ==
    IF \/ body[r].kind \in {"WIN", "REFUND"}
       \/ body[r].kind = "ROLLBACK" /\ body[x].kind = "BET"
    THEN "CREDIT" ELSE "DEBIT"

UnfundedCode(r) ==
    IF body[r].kind = "BET" THEN "INSUFFICIENT_FUNDS" ELSE "ROLLBACK_INSUFFICIENT_FUNDS"

\* Mutant: the amounts are not compared.
MatchesAnyAmount(r, x) ==
    /\ body[x].kind \in (IF body[r].kind = "REFUND" THEN {"BET"}
                                                     ELSE {"BET", "WIN", "REFUND"})
    /\ body[x].wallet = body[r].wallet /\ body[x].round = body[r].round

\* The pure part of validateReversalReference and validateReferenceFields.
Matches(r, x) ==
    /\ body[x].kind \in (IF body[r].kind = "REFUND" THEN {"BET"}
                                                     ELSE {"BET", "WIN", "REFUND"})
    /\ body[x].wallet = body[r].wallet
    /\ body[x].round = body[r].round
    /\ body[x].cents = body[r].cents
    /\ body[x].currency = body[r].currency

-----------------------------------------------------------------------------
(* Queries and constraints on wager_transactions                           *)

Exists(x) == txn[x].status # "ABSENT"

\* An empty idempotency key is stored as NULL, which equals no other.
SameKey(x, r) == body[x].key = body[r].key /\ body[r].key # Null

\* Mutant: the constraints hold within a wallet only.
DuplicatesInWallet(r) ==
    {x \in Request : /\ Exists(x) /\ body[x].wallet = body[r].wallet
                     /\ SameKey(x, r) \/ body[x].ext = body[r].ext}

\* Rows that share a unique column with request r: r itself when the request
\* is a repetition, another one when a key or an external id is reused.
Duplicates(r) ==
    {x \in Request : Exists(x) /\ (SameKey(x, r) \/ body[x].ext = body[r].ext)}

\* GetTransactionByExternalID on the reference of r.
References(r) == {x \in Request : Exists(x) /\ body[x].ext = body[r].ref}

\* Mutant: a reversal of any status counts.
ReversedInAnyStatus(r) ==
    \E x \in Request : /\ Exists(x) /\ body[x].kind \in Reversal
                       /\ body[x].ref = body[r].ref

\* HasSuccessfulReversal on the reference of r.
Reversed(r) ==
    \E x \in Request :
        /\ txn[x].status = "PROCESSED"
        /\ body[x].kind \in Reversal
        /\ body[x].ref = body[r].ref

\* Mutant: no such index.
NoReversalIndex(r) == TRUE

\* uq_successful_reversal_reference allows r to become PROCESSED.
ReversalIndexFree(r) ==
    body[r].kind \in Reversal =>
        \A x \in Request \ {r} :
            ~ (/\ txn[x].status = "PROCESSED"
               /\ body[x].kind \in Reversal
               /\ body[x].ref = body[r].ref)

\* Mutant: no such index.
NoLedgerIndex(w, x) == TRUE

\* uq_ledger_wallet_transaction allows an entry of x.
LedgerIndexFree(w, x) == \A i \in DOMAIN ledger[w] : ledger[w][i].txn # x

\* Mutants: the list ignores the status; the list leaves out the old rows.
PendingInAnyStatus == {x \in Request : Exists(x) /\ body[x].kind \in Reversal}
PendingRecent == {x \in Request \ aged : txn[x].status = "PENDING_REFERENCE"}

Pending == {x \in Request : txn[x].status = "PENDING_REFERENCE"}

-----------------------------------------------------------------------------
(* Writes                                                                  *)

Store(x, row) == txn' = [txn EXCEPT ![x] = row]

\* UpdateWallet writes what the agent computed from the row it read.
Post(w, x, dir, cents, b) ==
    /\ wallet' = [wallet EXCEPT ![w] = Moved(b, dir, cents)]
    /\ ledger' = [ledger EXCEPT ![w] = Append(@, Entry(x, dir, cents, b))]

Emit(x, types) ==
    outbox' = [outbox EXCEPT ![x] =
                 [t \in EventType |-> outbox[x][t] + IF t \in types THEN 1 ELSE 0]]

\* Commit or rollback: the agent's locks go and it forgets what it read.
EndTx(a) ==
    /\ holder' = [w \in Wallet |-> IF holder[w] = a THEN Null ELSE holder[w]]
    /\ pc' = [pc EXCEPT ![a] = "idle"]
    /\ job' = [job EXCEPT ![a] = Null]
    /\ base' = [base EXCEPT ![a] = NoWallet]
    /\ seen' = [seen EXCEPT ![a] = NoReference]
    /\ verdict' = [verdict EXCEPT ![a] = ""]

\* Mutant: the row is read without FOR UPDATE.
LockShared(a, w) ==
    /\ wallet[w] # NoWallet
    /\ holder' = [holder EXCEPT ![w] = a]
    /\ base' = [base EXCEPT ![a] = wallet[w]]

Lock(a, w) ==
    /\ wallet[w] # NoWallet
    /\ holder[w] = Null
    /\ holder' = [holder EXCEPT ![w] = a]
    /\ base' = [base EXCEPT ![a] = wallet[w]]

-----------------------------------------------------------------------------
Init ==
    /\ wallet = [w \in Wallet |-> NoWallet]
    /\ holder = [w \in Wallet |-> Null]
    /\ txn = [x \in Row |-> NoRow]
    /\ ledger = [w \in Wallet |-> <<>>]
    /\ outbox = [x \in Row |-> [t \in EventType |-> 0]]
    /\ aged = {}
    /\ pc = [a \in Agent |-> "idle"]
    /\ job = [a \in Agent |-> Null]
    /\ base = [a \in Agent |-> NoWallet]
    /\ seen = [a \in Agent |-> NoReference]
    /\ verdict = [a \in Agent |-> ""]
    /\ batch = [v \in Worker |-> {}]
    /\ overdue = [v \in Worker |-> {}]

\* WalletService.CreateWallet: one transaction, OPENING row and entry included
\* when the initial balance is positive.
CreateWallet(w) ==
    LET cents == account[w].opening IN
    /\ wallet[w] = NoWallet
    /\ cents >= 0 /\ cents <= MaxCents
    /\ \A u \in Wallet \ {w} :
          wallet[u] # NoWallet =>
              <<account[u].player, account[u].currency>>
                  # <<account[w].player, account[w].currency>>
    /\ wallet' = [wallet EXCEPT ![w] = [balance |-> cents, version |-> 1]]
    /\ IF cents > 0
       THEN /\ Store(w, ProcessedRow(cents, Null))
            /\ ledger' = [ledger EXCEPT ![w] = <<Entry(w, "CREDIT", cents, NoWallet)>>]
            /\ Emit(w, {"WagerTransactionProcessed", "WalletBalanceChanged"})
       ELSE UNCHANGED <<txn, ledger, outbox>>
    /\ UNCHANGED <<holder, aged, locals, batch, overdue>>

-----------------------------------------------------------------------------
(* WagerService.ProcessTransactionInTx                                     *)

\* Hash and validation are pure; then SELECT ... FOR UPDATE on the wallet.
LockWallet(p, r) ==
    /\ pc[p] = "idle"
    /\ Valid(r)
    /\ Lock(p, body[r].wallet)
    /\ pc' = [pc EXCEPT ![p] = "locked"]
    /\ job' = [job EXCEPT ![p] = r]
    /\ UNCHANGED <<tables, aged, seen, verdict, batch, overdue>>

\* Double check under the lock, then the currency.  A duplicate is answered
\* from its row (replay) or refused (conflict); neither writes anything.
CheckIdempotency(p) ==
    LET r == job[p] IN
    /\ pc[p] = "locked"
    /\ IF Duplicates(r) = {} /\ account[body[r].wallet].currency = body[r].currency
       THEN /\ pc' = [pc EXCEPT ![p] =
                        IF body[r].kind \in Reversal THEN "checked" ELSE "cleared"]
            /\ UNCHANGED <<holder, job, base, seen, verdict>>
       ELSE EndTx(p)
    /\ UNCHANGED <<tables, aged, batch, overdue>>

\* A reversal reads its reference through the pool, outside its transaction.
\* A reference that is not PROCESSED or does not match is an error.
ReadReference(p) ==
    LET r == job[p] IN
    /\ pc[p] = "checked"
    /\ \/ /\ References(r) = {}
          /\ pc' = [pc EXCEPT ![p] = "orphan"]
          /\ UNCHANGED <<holder, job, base, seen, verdict>>
       \/ \E x \in References(r) :
             IF txn[x].status = "PROCESSED" /\ Matches(r, x)
             THEN /\ pc' = [pc EXCEPT ![p] = "matched"]
                  /\ seen' = [seen EXCEPT ![p] = [row |-> x, status |-> txn[x].status]]
                  /\ UNCHANGED <<holder, job, base, verdict>>
             ELSE EndTx(p)
    /\ UNCHANGED <<tables, aged, batch, overdue>>

\* ErrReferenceAlreadyReversed, a second query through the pool.
CheckReversal(p) ==
    /\ pc[p] = "matched"
    /\ IF Reversed(job[p])
       THEN EndTx(p)
       ELSE /\ pc' = [pc EXCEPT ![p] = "cleared"]
            /\ UNCHANGED <<holder, job, base, seen, verdict>>
    /\ UNCHANGED <<tables, aged, batch, overdue>>

\* The reference has not arrived: the reversal is stored to wait for it.
SavePending(p) ==
    LET r == job[p] IN
    /\ pc[p] = "orphan"
    /\ Duplicates(r) = {}
    /\ Store(r, PendingRow)
    /\ Emit(r, {"WagerTransactionPendingReference"})
    /\ EndTx(p)
    /\ UNCHANGED <<wallet, ledger, aged, batch, overdue>>

\* BET, WIN, REFUND and ROLLBACK that move the wallet.  The ledger's unique
\* index never refuses here: each attempt inserts under a fresh id.
Settle(p) ==
    LET r == job[p]
        dir == Direction(r, seen[p].row)
        after == Moved(base[p], dir, body[r].cents).balance
    IN
    /\ pc[p] = "cleared"
    /\ body[r].kind # "LOSS"
    /\ CanMove(base[p], dir, body[r].cents)
    /\ Duplicates(r) = {} /\ ReversalIndexFree(r)
    /\ Store(r, ProcessedRow(Stored(after), seen[p].row))
    /\ Post(body[r].wallet, r, dir, body[r].cents, base[p])
    /\ Emit(r, {"WagerTransactionProcessed", "WalletBalanceChanged"})
    /\ EndTx(p)
    /\ UNCHANGED <<aged, batch, overdue>>

\* A debit the balance does not cover: an audited refusal, with its own row.
RejectUnfunded(p) ==
    LET r == job[p] IN
    /\ pc[p] = "cleared"
    /\ body[r].kind # "LOSS"
    /\ Direction(r, seen[p].row) = "DEBIT"
    /\ ~ CanMove(base[p], "DEBIT", body[r].cents)
    /\ Duplicates(r) = {}
    /\ Store(r, RejectedRow(UnfundedCode(r)))
    /\ Emit(r, {"WagerTransactionRejected"})
    /\ EndTx(p)
    /\ UNCHANGED <<wallet, ledger, aged, batch, overdue>>

SettleLoss(p) ==
    LET r == job[p] IN
    /\ pc[p] = "cleared"
    /\ body[r].kind = "LOSS"
    /\ Duplicates(r) = {}
    /\ Store(r, ProcessedRow(Stored(base[p].balance), Null))
    /\ Emit(r, {"WagerTransactionProcessed"})
    /\ EndTx(p)
    /\ UNCHANGED <<wallet, ledger, aged, batch, overdue>>

\* Overflow, a unique violation, a lost connection, a cancelled context or a
\* crash: the database rolls everything back.
Abort(p) ==
    /\ pc[p] # "idle"
    /\ EndTx(p)
    /\ UNCHANGED <<tables, aged, batch, overdue>>

-----------------------------------------------------------------------------
(* PendingReferenceWorker                                                  *)

\* A minute passes over a row that still waits.
Age(r) ==
    /\ r \in Pending \ aged
    /\ aged' = aged \cup {r}
    /\ UNCHANGED <<tables, holder, locals, batch, overdue>>

\* A tick of the ticker: the list, then the clock.  The rows come in order of
\* creation, which their commits need not follow: any order is allowed.
ListPending(v) ==
    /\ pc[v] = "idle" /\ batch[v] = {} /\ Pending # {}
    /\ \E S \in SUBSET Pending :
          /\ Cardinality(S) <= BatchLimit
          /\ S = Pending \/ Cardinality(S) = BatchLimit
          /\ batch' = [batch EXCEPT ![v] = S]
          /\ overdue' = [overdue EXCEPT ![v] = S \cap aged]
    /\ UNCHANGED <<tables, holder, aged, locals>>

\* Mutant: an expired row is not taken off the list.
HandledAgain(v, r) ==
    /\ batch' = [batch EXCEPT ![v] = @ \ {r}]
    /\ UNCHANGED overdue

Handled(v, r) ==
    /\ batch' = [batch EXCEPT ![v] = @ \ {r}]
    /\ overdue' = [overdue EXCEPT ![v] = @ \ {r}]

\* rejectExpired: before any look at the reference, without the wallet's lock.
\* UpdateTransaction overwrites the row whatever its status is by now.
RejectExpired(v, r) ==
    /\ pc[v] = "idle" /\ r \in overdue[v]
    /\ Store(r, RejectedRow("REFERENCE_NOT_FOUND"))
    /\ Emit(r, {"WagerTransactionRejected"})
    /\ Handled(v, r)
    /\ UNCHANGED <<wallet, ledger, holder, aged, locals>>

\* A missing or unfinished reference leaves the row for the next tick.
LookReference(v, r) ==
    /\ pc[v] = "idle" /\ r \in batch[v] \ overdue[v]
    /\ Handled(v, r)
    /\ \/ /\ \A x \in References(r) : txn[x].status \notin Terminal
          /\ UNCHANGED <<pc, job, seen, verdict>>
       \/ \E x \in References(r) :
             /\ txn[x].status \in Terminal
             /\ job' = [job EXCEPT ![v] = r]
             /\ seen' = [seen EXCEPT ![v] = [row |-> x, status |-> txn[x].status]]
             /\ IF txn[x].status = "PROCESSED" /\ Matches(r, x)
                THEN /\ pc' = [pc EXCEPT ![v] = "compared"]
                     /\ UNCHANGED verdict
                ELSE /\ pc' = [pc EXCEPT ![v] = "refuse"]
                     /\ verdict' = [verdict EXCEPT ![v] =
                            IF txn[x].status # "PROCESSED" THEN "REFERENCE_NOT_PROCESSED"
                                                           ELSE "REFERENCE_MISMATCH"]
    /\ UNCHANGED <<tables, holder, aged, base>>

\* HasSuccessfulReversal, outside any transaction.  A query that fails has no
\* domain error, and pendingReferenceFailureCode makes a mismatch of it.
CheckPendingReversal(v) ==
    /\ pc[v] = "compared"
    /\ \/ /\ ~ Reversed(job[v])
          /\ pc' = [pc EXCEPT ![v] = "resolve"]
          /\ UNCHANGED verdict
       \/ /\ Reversed(job[v])
          /\ pc' = [pc EXCEPT ![v] = "refuse"]
          /\ verdict' = [verdict EXCEPT ![v] = "REFERENCE_ALREADY_REVERSED"]
       \/ /\ pc' = [pc EXCEPT ![v] = "refuse"]
          /\ verdict' = [verdict EXCEPT ![v] = "REFERENCE_MISMATCH"]
    /\ UNCHANGED <<tables, holder, aged, job, base, seen, batch, overdue>>

\* reject: like RejectExpired, with neither a lock nor a look at the status.
Refuse(v) ==
    /\ pc[v] = "refuse"
    /\ Store(job[v], RejectedRow(verdict[v]))
    /\ Emit(job[v], {"WagerTransactionRejected"})
    /\ EndTx(v)
    /\ UNCHANGED <<wallet, ledger, aged, batch, overdue>>

LockToResolve(v) ==
    /\ pc[v] = "resolve"
    /\ Lock(v, body[job[v]].wallet)
    /\ pc' = [pc EXCEPT ![v] = "resolving"]
    /\ UNCHANGED <<tables, aged, job, seen, verdict, batch, overdue>>

\* resolveTransaction: the row is not read again under the lock.
Resolve(v) ==
    LET r == job[v]
        dir == Direction(r, seen[v].row)
    IN
    /\ pc[v] = "resolving"
    /\ CanMove(base[v], dir, body[r].cents)
    /\ LedgerIndexFree(body[r].wallet, r) /\ ReversalIndexFree(r)
    /\ Post(body[r].wallet, r, dir, body[r].cents, base[v])
    /\ Store(r, ProcessedRow(Moved(base[v], dir, body[r].cents).balance, seen[v].row))
    /\ Emit(r, {"WagerTransactionProcessed", "WalletBalanceChanged"})
    /\ EndTx(v)
    /\ UNCHANGED <<aged, batch, overdue>>

\* rejectInTx, for a rollback the balance no longer covers.
RejectInTx(v) ==
    LET r == job[v] IN
    /\ pc[v] = "resolving"
    /\ Direction(r, seen[v].row) = "DEBIT"
    /\ ~ CanMove(base[v], "DEBIT", body[r].cents)
    /\ Store(r, RejectedRow("ROLLBACK_INSUFFICIENT_FUNDS"))
    /\ Emit(r, {"WagerTransactionRejected"})
    /\ EndTx(v)
    /\ UNCHANGED <<wallet, ledger, aged, batch, overdue>>

\* An error on the item at hand is logged and the loop goes on.
FailItem(v) ==
    /\ pc[v] # "idle"
    /\ EndTx(v)
    /\ UNCHANGED <<tables, aged, batch, overdue>>

\* An error before anything was done for r, logged likewise.
SkipItem(v, r) ==
    /\ pc[v] = "idle" /\ r \in batch[v]
    /\ Handled(v, r)
    /\ UNCHANGED <<tables, holder, aged, locals>>

\* The replica stops; when it runs again it starts with a new list.
Crash(v) ==
    /\ pc[v] # "idle" \/ batch[v] # {}
    /\ EndTx(v)
    /\ batch' = [batch EXCEPT ![v] = {}]
    /\ overdue' = [overdue EXCEPT ![v] = {}]
    /\ UNCHANGED <<tables, aged>>

-----------------------------------------------------------------------------
ProcessStep(p) ==
    \/ CheckIdempotency(p) \/ ReadReference(p) \/ CheckReversal(p)
    \/ SavePending(p) \/ Settle(p) \/ RejectUnfunded(p) \/ SettleLoss(p) \/ Abort(p)

ItemStep(v) ==
    \/ CheckPendingReversal(v) \/ Refuse(v) \/ Resolve(v) \/ RejectInTx(v) \/ FailItem(v)

Next ==
    \/ \E w \in Wallet : CreateWallet(w)
    \/ \E p \in Process : ProcessStep(p) \/ \E r \in Request : LockWallet(p, r)
    \/ \E r \in Request : Age(r)
    \/ \E v \in Worker :
          \/ ListPending(v) \/ LockToResolve(v) \/ ItemStep(v) \/ Crash(v)
          \/ \E r \in Request : RejectExpired(v, r) \/ LookReference(v, r) \/ SkipItem(v, r)

Spec == Init /\ [][Next]_vars

\* A goroutine goes on until its transaction ends: each query returns or fails,
\* as long as the pool has a connection for it.  Time passes.  A waiter in
\* PostgreSQL's row-lock queue gets the lock, and a worker that retries every
\* second is not refused by the database for ever.
Fairness ==
    /\ \A p \in Process : WF_vars(ProcessStep(p))
    /\ \A r \in Request : WF_vars(Age(r))
    /\ \A v \in Worker :
          /\ WF_vars(ItemStep(v)) /\ WF_vars(ListPending(v)) /\ SF_vars(LockToResolve(v))
          /\ \A r \in Request : WF_vars(LookReference(v, r)) /\ SF_vars(RejectExpired(v, r))

FairSpec == Spec /\ Fairness
-----------------------------------------------------------------------------
(* Properties                                                              *)

Cents == 0..MaxCents
WalletType == [balance : Cents, version : Nat]
RowType == [status : Terminal \cup {"ABSENT", "PENDING_REFERENCE"}, code : FailureCode,
            after : Cents \cup {NoMoney}, resolved : Request \cup {Null}]
EntryType == [txn : Row, direction : {"DEBIT", "CREDIT"}, cents : Cents \ {0},
              before : Cents, after : Cents]
ReferenceType == [row : Request \cup {Null}, status : Terminal \cup {"ABSENT"}]

\* What another replica sees has its type: balances never negative nor past
\* the range of int64, and no entry without an amount.
TablesTypeOK ==
    /\ wallet \in [Wallet -> WalletType]
    /\ txn \in [Row -> RowType]
    /\ ledger \in [Wallet -> Seq(EntryType)]
    /\ outbox \in [Row -> [EventType -> Nat]]

LocalsTypeOK ==
    /\ holder \in [Wallet -> Agent \cup {Null}]
    /\ aged \subseteq Request
    /\ pc \in [Agent -> {"idle", "locked", "checked", "orphan", "matched", "cleared",
                         "compared", "refuse", "resolve", "resolving"}]
    /\ job \in [Agent -> Request \cup {Null}]
    /\ base \in [Agent -> WalletType]
    /\ seen \in [Agent -> ReferenceType]
    /\ verdict \in [Agent -> FailureCode]
    /\ batch \in [Worker -> SUBSET Request]
    /\ overdue \in [Worker -> SUBSET Request]

\* Every variable keeps to its type.
TypeOK == TablesTypeOK /\ LocalsTypeOK

\* The ledger rebuilds the wallet: the first entry starts from zero, each one
\* starts where the previous ended and applies its amount, the last ends at the
\* stored balance, and the version counts the movements after the opening.  An
\* update lost between two agents breaks it.
LedgerRebuildsWallet ==
    \A w \in Wallet :
        LET l == ledger[w]
            movements == IF l # <<>> /\ l[1].txn = w THEN Len(l) - 1 ELSE Len(l)
        IN
        /\ \A i \in DOMAIN l :
              /\ l[i].before = IF i = 1 THEN 0 ELSE l[i - 1].after
              /\ l[i].after = IF l[i].direction = "CREDIT" THEN l[i].before + l[i].cents
                                                           ELSE l[i].before - l[i].cents
        /\ wallet[w].balance = IF l = <<>> THEN 0 ELSE l[Len(l)].after
        /\ wallet[w] # NoWallet => wallet[w].version = 1 + movements

\* No transaction moves a wallet twice, however many replicas resolve it.
OneEntryPerTransaction ==
    \A w \in Wallet : \A i, j \in DOMAIN ledger[w] :
        ledger[w][i].txn = ledger[w][j].txn => i = j

EntriesOf(w, x) == {i \in DOMAIN ledger[w] : ledger[w][i].txn = x}

\* A request is PROCESSED exactly when its amount is in the ledger of its
\* wallet, in the direction its kind and reference give (never for a LOSS), and
\* the balance a replay of it answers with is that of its entry, or NULL.
LedgerMatchesOutcome ==
    \A r \in Request :
        LET entries == EntriesOf(body[r].wallet, r) IN
        /\ entries # {} <=> txn[r].status = "PROCESSED" /\ body[r].kind # "LOSS"
        /\ \A i \in entries :
              /\ ledger[body[r].wallet][i].cents = body[r].cents
              /\ ledger[body[r].wallet][i].direction = Direction(r, txn[r].resolved)
              /\ txn[r].after \in {ledger[body[r].wallet][i].after, NoMoney}

\* One idempotency key names one operation, over all wallets: of two requests
\* racing for it the loser leaves no row.
KeyNamesOneOperation ==
    \A x, y \in Request : Exists(x) /\ Exists(y) /\ SameKey(x, y) => x = y

IsReversalOf(x, e) == x \in Request /\ body[x].kind \in Reversal /\ body[x].ref = e

\* No operation is given back twice: the ledger never holds two reversals of
\* one reference, whichever of the two paths settled them.
AtMostOneReversal ==
    \A w \in Wallet : \A i, j \in DOMAIN ledger[w] : \A r \in Request :
        /\ IsReversalOf(ledger[w][i].txn, body[r].ref)
        /\ IsReversalOf(ledger[w][j].txn, body[r].ref)
        => i = j

\* A reversal in the ledger undoes an earlier entry of its reference: same
\* wallet, same amount, opposite direction.
ReversalUndoesReference ==
    \A w \in Wallet : \A i \in DOMAIN ledger[w] :
        LET e == ledger[w][i] IN
        e.txn \in Request /\ body[e.txn].kind \in Reversal =>
            \E j \in 1..(i - 1) :
                LET u == ledger[w][j] IN
                /\ u.txn \in Request
                /\ body[u.txn].ext = body[e.txn].ref
                /\ u.cents = e.cents
                /\ u.direction # e.direction

\* The outbox tells each request's story once: one outcome event, the one of
\* its status, and a balance event exactly when the ledger moved.
EventsMatchOutcome ==
    \A r \in Request :
        LET n == outbox[r]
            one(b) == IF b THEN 1 ELSE 0
        IN
        /\ n["WagerTransactionProcessed"] = one(txn[r].status = "PROCESSED")
        /\ n["WagerTransactionRejected"] = one(txn[r].status = "REJECTED")
        /\ n["WalletBalanceChanged"] = one(EntriesOf(body[r].wallet, r) # {})
        /\ n["WagerTransactionPendingReference"] <= 1
        /\ txn[r].status = "PENDING_REFERENCE" =>
              n["WagerTransactionPendingReference"] = 1

\* A reversal refused as REFERENCE_ALREADY_REVERSED lost to another reversal
\* of the same reference, which stands.
RefusedForAnother ==
    \A r \in Request :
        txn[r].code = "REFERENCE_ALREADY_REVERSED" =>
            \E x \in Request \ {r} :
                txn[x].status = "PROCESSED" /\ IsReversalOf(x, body[r].ref)

\* A refusal for lack of funds is decided on the balance of the moment it
\* commits, never on a stale one.
UnfundedIsTrue ==
    [][\A r \in Request :
          /\ txn[r].status # "REJECTED"
          /\ txn'[r].code \in {"INSUFFICIENT_FUNDS", "ROLLBACK_INSUFFICIENT_FUNDS"}
          => wallet[body[r].wallet].balance < body[r].cents]_vars

\* "IsTerminal informa se a transacao atingiu um estado final imutavel": a
\* PROCESSED or REJECTED row never changes again.
TerminalIsFinal ==
    [][\A r \in Request : txn[r].status \in Terminal => txn'[r] = txn[r]]_vars

\* A reversal that waits for its reference is decided in the end, whether or
\* not the reference ever arrives.
PendingIsDecided ==
    \A r \in Request : txn[r].status = "PENDING_REFERENCE" ~> txn[r].status \in Terminal

Contract ==
    INSTANCE WagerContract WITH
        open <- {w \in Wallet : wallet[w] # NoWallet},
        balance <- [w \in Wallet |-> wallet[w].balance],
        outcome <- [r \in Request |-> txn[r].status]

\* Statement by statement, with locks, retries and crashes, the wallets behave
\* as if each request had been decided in one step: what ProcessTransactionInTx
\* and the worker commit is an operation of WagerContract.
ImplementsContract == Contract!Spec
=============================================================================
