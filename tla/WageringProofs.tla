--------------------------- MODULE WageringProofs ---------------------------
(***************************************************************************)
(* Theorems about Wagering, for every set of wallets, requests, processes  *)
(* and workers: every variable keeps to its type, the row lock of the      *)
(* wallet keeps the ledger whole, its entries add up to the balance, keys   *)
(* name one operation and refusals are true.  With one worker also: what   *)
(* is final stays so, every outcome has its entry and its events, a        *)
(* transaction is reversed at most once, the service implements            *)
(* WagerContract, and the outcomes alone tell every balance.               *)
(***************************************************************************)
EXTENDS Wagering, FoldTheorems, SequenceTheorems, TLAPS

-----------------------------------------------------------------------------
(* What the type invariant needs to be inductive                           *)

\* A request that may wait for its reference.
Pendable(r) == Valid(r) /\ body[r].kind \in Reversal

\* Agents at work have a valid request at hand; workers, and processes that
\* look for a reference, a reversal.
AgentsOK ==
    /\ \A a \in Agent : pc[a] # "idle" => job[a] \in Request /\ Valid(job[a])
    /\ \A v \in Worker : pc[v] # "idle" => Pendable(job[v])
    /\ \A p \in Process : pc[p] \in {"checked", "orphan", "matched"} => Pendable(job[p])

\* Only reversals ever wait, in the table and in the workers' lists.
WaitingOK ==
    /\ \A r \in Request : txn[r].status = "PENDING_REFERENCE" => Pendable(r)
    /\ \A v \in Worker : \A r \in batch[v] \cup overdue[v] : Pendable(r)

TypeInv == TablesTypeOK /\ LocalsTypeOK /\ AgentsOK /\ WaitingOK

\* A movement the wallet allows leaves it within range, and so its entry.
LEMMA MoveType ==
    ASSUME NEW b \in WalletType, NEW dir \in {"CREDIT", "DEBIT"}, NEW n \in Int,
           n > 0, CanMove(b, dir, n), NEW x \in Row
    PROVE  /\ Moved(b, dir, n) \in WalletType
           /\ Entry(x, dir, n, b) \in EntryType
  <1> USE BoundAssumption DEF WalletType, Cents
  <1>1. Moved(b, dir, n) \in WalletType
    BY DEF Moved, CanMove
  <1>2. n \in Cents \ {0}
    BY DEF CanMove
  <1> QED
    BY <1>1, <1>2 DEF Moved, Entry, EntryType

LEMMA DirectionType ==
    ASSUME NEW r, NEW x
    PROVE  Direction(r, x) \in {"CREDIT", "DEBIT"}
  BY DEF Direction

\* Writing one row, one wallet and one entry keeps the tables to their types.
LEMMA StoreType ==
    ASSUME txn \in [Row -> RowType], NEW x \in Row, NEW row \in RowType, Store(x, row)
    PROVE  txn' \in [Row -> RowType]
  BY DEF Store

LEMMA PostType ==
    ASSUME wallet \in [Wallet -> WalletType], ledger \in [Wallet -> Seq(EntryType)],
           NEW w \in Wallet, NEW x \in Row, NEW dir \in {"CREDIT", "DEBIT"},
           NEW n \in Int, n > 0, NEW b \in WalletType, CanMove(b, dir, n),
           Post(w, x, dir, n, b)
    PROVE  wallet' \in [Wallet -> WalletType] /\ ledger' \in [Wallet -> Seq(EntryType)]
  <1>1. Moved(b, dir, n) \in WalletType /\ Entry(x, dir, n, b) \in EntryType
    BY MoveType
  <1>2. Append(ledger[w], Entry(x, dir, n, b)) \in Seq(EntryType)
    BY <1>1, AppendProperties
  <1> QED
    BY <1>1, <1>2 DEF Post

LEMMA EmitType ==
    ASSUME outbox \in [Row -> [EventType -> Nat]], NEW x \in Row, NEW types,
           Emit(x, types)
    PROVE  outbox' \in [Row -> [EventType -> Nat]]
  <1>1. [t \in EventType |-> outbox[x][t] + IF t \in types THEN 1 ELSE 0]
            \in [EventType -> Nat]
    OBVIOUS
  <1> QED
    BY <1>1 DEF Emit

LEMMA EndTxType ==
    ASSUME LocalsTypeOK, NEW a \in Agent, EndTx(a)
    PROVE  /\ holder' \in [Wallet -> Agent \cup {Null}]
           /\ pc' \in [Agent -> {"idle", "locked", "checked", "orphan", "matched", "cleared",
                                 "compared", "refuse", "resolve", "resolving"}]
           /\ job' \in [Agent -> Request \cup {Null}]
           /\ base' \in [Agent -> WalletType]
           /\ seen' \in [Agent -> ReferenceType]
           /\ verdict' \in [Agent -> FailureCode]
  <1>1. NoWallet \in WalletType
    BY BoundAssumption DEF NoWallet, WalletType, Cents
  <1>2. NoReference \in ReferenceType /\ "" \in FailureCode
    BY DEF NoReference, ReferenceType, FailureCode
  <1> QED
    BY <1>1, <1>2 DEF EndTx, LocalsTypeOK

\* The rows the agents store.
LEMMA ProcessedType ==
    ASSUME NEW n \in Cents, NEW ref \in Request \cup {Null}
    PROVE  ProcessedRow(n, ref) \in RowType /\ ProcessedRow(Stored(n), ref) \in RowType
  BY DEF ProcessedRow, RowType, Stored, NoMoney, Terminal, FailureCode

LEMMA RejectedType ==
    ASSUME NEW code \in FailureCode
    PROVE  RejectedRow(code) \in RowType
  BY DEF RejectedRow, RowType, NoMoney, Terminal

LEMMA EndTxAgents ==
    ASSUME LocalsTypeOK, AgentsOK, NEW a \in Agent, EndTx(a)
    PROVE  AgentsOK'
  BY NameAssumption DEF EndTx, LocalsTypeOK, AgentsOK, Agent, Pendable, Valid

LEMMA StoreWaiting ==
    ASSUME txn \in [Row -> RowType], WaitingOK, NEW r \in Request, NEW row, Store(r, row),
           row.status = "PENDING_REFERENCE" => Pendable(r),
           \A v \in Worker : batch'[v] \subseteq batch[v] /\ overdue'[v] \subseteq overdue[v]
    PROVE  WaitingOK'
  BY DEF Store, WaitingOK, Row, Pendable, Valid

\* Values of a request that fits the tables.
LEMMA RequestType ==
    ASSUME NEW r \in Request
    PROVE  /\ r \in Row
           /\ body[r].wallet \in Wallet
           /\ body[r].cents \in Int
           /\ Pendable(r) => Valid(r) /\ body[r].kind # "LOSS"
           /\ Valid(r) /\ body[r].kind # "LOSS" => body[r].cents > 0
  BY BodyAssumption DEF Row, Valid, Pendable, Reversal

-----------------------------------------------------------------------------
(* The type invariant                                                      *)

\* The values every variable starts from.
LEMMA BlankTypes ==
    /\ NoWallet \in WalletType /\ NoRow \in RowType
    /\ NoReference \in ReferenceType /\ "" \in FailureCode
    /\ <<>> \in Seq(EntryType)
  BY BoundAssumption, EmptySeq
  DEF NoWallet, WalletType, Cents, NoRow, RowType, FailureCode, NoReference, ReferenceType

LEMMA TypeInit == Init => TypeInv
  <1> SUFFICES ASSUME Init PROVE TypeInv
    OBVIOUS
  <1>1. TablesTypeOK
    <2>1. outbox \in [Row -> [EventType -> Nat]]
      <3>1. [t \in EventType |-> 0] \in [EventType -> Nat]
        OBVIOUS
      <3> QED
        BY <3>1 DEF Init
    <2>2. ledger \in [Wallet -> Seq(EntryType)]
      BY BlankTypes DEF Init
    <2> QED
      BY <2>1, <2>2, BlankTypes DEF TablesTypeOK, Init
  <1>2. LocalsTypeOK
    BY BlankTypes DEF LocalsTypeOK, Init
  <1>3. AgentsOK
    BY DEF AgentsOK, Agent, Init
  <1>4. WaitingOK
    BY DEF WaitingOK, NoRow, Row, Init
  <1> QED
    BY <1>1, <1>2, <1>3, <1>4 DEF TypeInv

LEMMA CreateWalletType ==
    ASSUME TypeInv, NEW w \in Wallet, CreateWallet(w)
    PROVE  TypeInv'
  <1> DEFINE cents == account[w].opening
  <1>1. cents \in Cents /\ w \in Row
    BY AccountAssumption, BoundAssumption DEF CreateWallet, Cents, Row
  <1>2. TablesTypeOK'
    <2>1. wallet' \in [Wallet -> WalletType]
      BY <1>1 DEF CreateWallet, TypeInv, TablesTypeOK, WalletType
    <2>2. CASE cents > 0
      <3>1. ProcessedRow(cents, Null) \in RowType
        BY <1>1, ProcessedType
      <3>2. Entry(w, "CREDIT", cents, NoWallet) \in EntryType
        BY <1>1, <2>2, BoundAssumption DEF Entry, Moved, NoWallet, EntryType, Cents
      <3>3. <<Entry(w, "CREDIT", cents, NoWallet)>> \in Seq(EntryType)
        BY <3>2
      <3>4. txn' \in [Row -> RowType]
        BY <1>1, <2>2, <3>1, StoreType DEF CreateWallet, TypeInv, TablesTypeOK
      <3>5. outbox' \in [Row -> [EventType -> Nat]]
        BY <1>1, <2>2, EmitType DEF CreateWallet, TypeInv, TablesTypeOK
      <3> QED
        BY <2>1, <2>2, <3>3, <3>4, <3>5 DEF CreateWallet, TypeInv, TablesTypeOK
    <2>3. CASE ~ cents > 0
      BY <2>1, <2>3 DEF CreateWallet, TypeInv, TablesTypeOK
    <2> QED
      BY <2>2, <2>3
  <1>3. LocalsTypeOK'
    BY DEF CreateWallet, TypeInv, LocalsTypeOK, locals
  <1>4. AgentsOK'
    BY DEF CreateWallet, TypeInv, AgentsOK, locals, Pendable, Valid
  <1>5. WaitingOK'
    <2>1. \A r \in Request : txn'[r] = txn[r]
      BY NameAssumption DEF CreateWallet, Store, TypeInv, TablesTypeOK, Row
    <2> QED
      BY <2>1 DEF CreateWallet, TypeInv, WaitingOK, Pendable, Valid
  <1> QED
    BY <1>2, <1>3, <1>4, <1>5 DEF TypeInv

\* An agent that gives up, its tables untouched.
LEMMA QuietEndType ==
    ASSUME TypeInv, NEW a \in Agent, EndTx(a),
           UNCHANGED <<tables, aged, batch, overdue>>
    PROVE  TypeInv'
  <1>1. TablesTypeOK'
    BY DEF TypeInv, TablesTypeOK, tables
  <1>2. LocalsTypeOK'
    BY EndTxType DEF TypeInv, LocalsTypeOK
  <1>3. AgentsOK'
    BY EndTxAgents DEF TypeInv
  <1>4. WaitingOK'
    BY DEF TypeInv, WaitingOK, tables, Pendable, Valid
  <1> QED
    BY <1>1, <1>2, <1>3, <1>4 DEF TypeInv

\* An agent that commits an outcome of r.
LEMMA OutcomeType ==
    ASSUME TypeInv, NEW a \in Agent, NEW r \in Request, NEW row \in RowType, NEW types,
           row.status = "PENDING_REFERENCE" => Pendable(r),
           Store(r, row), Emit(r, types), EndTx(a),
           wallet' \in [Wallet -> WalletType], ledger' \in [Wallet -> Seq(EntryType)],
           UNCHANGED <<aged, batch, overdue>>
    PROVE  TypeInv'
  <1>1. r \in Row
    BY RequestType
  <1>2. TablesTypeOK'
    BY <1>1, StoreType, EmitType DEF TypeInv, TablesTypeOK
  <1>3. LocalsTypeOK'
    BY EndTxType DEF TypeInv, LocalsTypeOK
  <1>4. AgentsOK'
    BY EndTxAgents DEF TypeInv
  <1>5. WaitingOK'
    BY StoreWaiting DEF TypeInv, TablesTypeOK
  <1> QED
    BY <1>2, <1>3, <1>4, <1>5 DEF TypeInv

-----------------------------------------------------------------------------
(* The steps of a process                                                  *)

LEMMA LockWalletType ==
    ASSUME TypeInv, NEW p \in Process, NEW r \in Request, LockWallet(p, r)
    PROVE  TypeInv'
  <1> USE DEF TypeInv, LockWallet, Lock
  <1>1. TablesTypeOK'
    BY DEF TablesTypeOK, tables
  <1>2. LocalsTypeOK'
    BY RequestType DEF LocalsTypeOK, TablesTypeOK, Agent
  <1>3. AgentsOK'
    BY NameAssumption DEF AgentsOK, LocalsTypeOK, Agent, Pendable, Valid
  <1>4. WaitingOK'
    BY DEF WaitingOK, tables, Pendable, Valid
  <1> QED
    BY <1>1, <1>2, <1>3, <1>4

\* A process at work has a valid request, and a reversal while it reads the
\* reference.
LEMMA ProcessJob ==
    ASSUME TypeInv, NEW p \in Process, pc[p] # "idle"
    PROVE  /\ p \in Agent /\ job[p] \in Request /\ Valid(job[p])
           /\ base[p] \in WalletType /\ base[p].balance \in Cents
           /\ seen[p].row \in Request \cup {Null}
           /\ pc[p] \in {"checked", "orphan", "matched"} => Pendable(job[p])
  BY DEF TypeInv, AgentsOK, LocalsTypeOK, Agent, WalletType, ReferenceType

LEMMA CheckIdempotencyType ==
    ASSUME TypeInv, NEW p \in Process, CheckIdempotency(p)
    PROVE  TypeInv'
  <1>1. p \in Agent /\ pc[p] = "locked" /\ job[p] \in Request /\ Valid(job[p])
    BY ProcessJob DEF CheckIdempotency
  <1>2. CASE EndTx(p)
    BY <1>1, <1>2, QuietEndType DEF CheckIdempotency
  <1>3. CASE ~ EndTx(p)
    <2>1. /\ pc' = [pc EXCEPT ![p] =
                       IF body[job[p]].kind \in Reversal THEN "checked" ELSE "cleared"]
          /\ UNCHANGED <<tables, holder, aged, job, base, seen, verdict, batch, overdue>>
      BY <1>3 DEF CheckIdempotency
    <2>2. TablesTypeOK' /\ WaitingOK'
      BY <2>1 DEF TypeInv, TablesTypeOK, WaitingOK, tables, Pendable, Valid
    <2>3. LocalsTypeOK'
      BY <1>1, <2>1 DEF TypeInv, LocalsTypeOK
    <2>4. AgentsOK'
      BY <1>1, <2>1, NameAssumption
      DEF TypeInv, LocalsTypeOK, AgentsOK, Agent, Pendable, Valid
    <2> QED
      BY <2>2, <2>3, <2>4 DEF TypeInv
  <1> QED
    BY <1>2, <1>3

LEMMA ReadReferenceType ==
    ASSUME TypeInv, NEW p \in Process, ReadReference(p)
    PROVE  TypeInv'
  <1>1. p \in Agent /\ pc[p] = "checked" /\ Pendable(job[p]) /\ job[p] \in Request
    BY ProcessJob DEF ReadReference
  <1>2. CASE EndTx(p)
    BY <1>1, <1>2, QuietEndType DEF ReadReference
  <1>3. CASE ~ EndTx(p)
    <2>1. /\ \E s \in {"orphan", "matched"} : pc' = [pc EXCEPT ![p] = s]
          /\ \/ seen' = seen
             \/ \E x \in Request : txn[x].status = "PROCESSED" /\
                   seen' = [seen EXCEPT ![p] = [row |-> x, status |-> txn[x].status]]
          /\ UNCHANGED <<tables, holder, aged, job, base, verdict, batch, overdue>>
      BY <1>3 DEF ReadReference, References
    <2>2. TablesTypeOK' /\ WaitingOK'
      BY <2>1 DEF TypeInv, TablesTypeOK, WaitingOK, tables, Pendable, Valid
    <2>3. LocalsTypeOK'
      BY <1>1, <2>1 DEF TypeInv, LocalsTypeOK, ReferenceType, Terminal
    <2>4. AgentsOK'
      BY <1>1, <2>1, NameAssumption
      DEF TypeInv, LocalsTypeOK, AgentsOK, Agent, Pendable, Valid
    <2> QED
      BY <2>2, <2>3, <2>4 DEF TypeInv
  <1> QED
    BY <1>2, <1>3

LEMMA CheckReversalType ==
    ASSUME TypeInv, NEW p \in Process, CheckReversal(p)
    PROVE  TypeInv'
  <1>1. p \in Agent /\ pc[p] = "matched" /\ Pendable(job[p]) /\ job[p] \in Request
    BY ProcessJob DEF CheckReversal
  <1>2. CASE EndTx(p)
    BY <1>1, <1>2, QuietEndType DEF CheckReversal
  <1>3. CASE ~ EndTx(p)
    <2>1. /\ pc' = [pc EXCEPT ![p] = "cleared"]
          /\ UNCHANGED <<tables, holder, aged, job, base, seen, verdict, batch, overdue>>
      BY <1>3 DEF CheckReversal
    <2>2. TablesTypeOK' /\ WaitingOK'
      BY <2>1 DEF TypeInv, TablesTypeOK, WaitingOK, tables, Pendable, Valid
    <2>3. LocalsTypeOK'
      BY <1>1, <2>1 DEF TypeInv, LocalsTypeOK
    <2>4. AgentsOK'
      BY <1>1, <2>1, NameAssumption
      DEF TypeInv, LocalsTypeOK, AgentsOK, Agent, Pendable, Valid
    <2> QED
      BY <2>2, <2>3, <2>4 DEF TypeInv
  <1> QED
    BY <1>2, <1>3

LEMMA SavePendingType ==
    ASSUME TypeInv, NEW p \in Process, SavePending(p)
    PROVE  TypeInv'
  <1>1. p \in Agent /\ job[p] \in Request /\ Pendable(job[p]) /\ base[p].balance \in Cents
    BY ProcessJob DEF SavePending
  <1>2. PendingRow \in RowType
    BY DEF PendingRow, RowType, FailureCode
  <1>3. wallet' \in [Wallet -> WalletType] /\ ledger' \in [Wallet -> Seq(EntryType)]
    BY DEF SavePending, TypeInv, TablesTypeOK
  <1> QED
    BY <1>1, <1>2, <1>3, OutcomeType DEF SavePending

LEMMA SettleType ==
    ASSUME TypeInv, NEW p \in Process, Settle(p)
    PROVE  TypeInv'
  <1> DEFINE r == job[p]
             dir == Direction(r, seen[p].row)
             after == Moved(base[p], dir, body[r].cents).balance
  <1>1. /\ p \in Agent /\ r \in Request /\ Valid(r) /\ base[p] \in WalletType
        /\ seen[p].row \in Request \cup {Null}
    BY ProcessJob DEF Settle
  <1>2. r \in Row /\ body[r].wallet \in Wallet /\ body[r].cents \in Int /\ body[r].cents > 0
    BY <1>1, RequestType DEF Settle
  <1>3. dir \in {"CREDIT", "DEBIT"} /\ CanMove(base[p], dir, body[r].cents)
    BY DirectionType DEF Settle
  <1>4. after \in Cents
    BY <1>1, <1>2, <1>3, MoveType DEF WalletType
  <1>5. ProcessedRow(Stored(after), seen[p].row) \in RowType
    BY <1>1, <1>4, ProcessedType
  <1>6. wallet' \in [Wallet -> WalletType] /\ ledger' \in [Wallet -> Seq(EntryType)]
    BY <1>1, <1>2, <1>3, PostType DEF Settle, TypeInv, TablesTypeOK
  <1>8. ProcessedRow(Stored(after), seen[p].row).status # "PENDING_REFERENCE"
    BY DEF ProcessedRow
  <1>9. /\ Store(r, ProcessedRow(Stored(after), seen[p].row))
        /\ Emit(r, {"WagerTransactionProcessed", "WalletBalanceChanged"})
        /\ EndTx(p) /\ UNCHANGED <<aged, batch, overdue>>
    BY DEF Settle
  <1> HIDE DEF after, r
  <1> QED
    BY <1>1, <1>5, <1>6, <1>8, <1>9, OutcomeType

LEMMA RejectUnfundedType ==
    ASSUME TypeInv, NEW p \in Process, RejectUnfunded(p)
    PROVE  TypeInv'
  <1>1. p \in Agent /\ job[p] \in Request /\ base[p].balance \in Cents
    BY ProcessJob DEF RejectUnfunded
  <1>2. RejectedRow(UnfundedCode(job[p])) \in RowType
    BY DEF RejectedRow, RowType, FailureCode, UnfundedCode, Terminal
  <1>3. RejectedRow(UnfundedCode(job[p])).status # "PENDING_REFERENCE"
    BY DEF RejectedRow
  <1>4. wallet' \in [Wallet -> WalletType] /\ ledger' \in [Wallet -> Seq(EntryType)]
    BY DEF RejectUnfunded, TypeInv, TablesTypeOK
  <1> QED
    BY <1>1, <1>2, <1>3, <1>4, OutcomeType DEF RejectUnfunded

LEMMA SettleLossType ==
    ASSUME TypeInv, NEW p \in Process, SettleLoss(p)
    PROVE  TypeInv'
  <1>1. p \in Agent /\ job[p] \in Request /\ base[p].balance \in Cents
    BY ProcessJob DEF SettleLoss
  <1> DEFINE row == ProcessedRow(Stored(base[p].balance), Null)
  <1>2. row \in RowType /\ row.status # "PENDING_REFERENCE"
    BY <1>1 DEF ProcessedRow, RowType, FailureCode, Terminal, Stored
  <1>3. wallet' \in [Wallet -> WalletType] /\ ledger' \in [Wallet -> Seq(EntryType)]
    BY DEF SettleLoss, TypeInv, TablesTypeOK
  <1> QED
    BY <1>1, <1>2, <1>3, OutcomeType DEF SettleLoss

LEMMA ProcessStepType ==
    ASSUME TypeInv, NEW p \in Process, ProcessStep(p)
    PROVE  TypeInv'
  <1>1. CASE Abort(p)
    BY <1>1, QuietEndType DEF Abort, Agent
  <1> QED
    BY <1>1, CheckIdempotencyType, ReadReferenceType, CheckReversalType, SavePendingType,
       SettleType, RejectUnfundedType, SettleLossType
    DEF ProcessStep

-----------------------------------------------------------------------------
(* The steps of a worker                                                   *)

\* A worker at work has a reversal at hand.
LEMMA WorkerJob ==
    ASSUME TypeInv, NEW v \in Worker, pc[v] # "idle"
    PROVE  /\ v \in Agent /\ job[v] \in Request /\ Pendable(job[v])
           /\ base[v] \in WalletType
           /\ seen[v].row \in Request \cup {Null}
           /\ verdict[v] \in FailureCode
           /\ body[job[v]].wallet \in Wallet
           /\ body[job[v]].cents \in Int /\ body[job[v]].cents > 0
  <1>1. v \in Agent /\ job[v] \in Request /\ Pendable(job[v])
    BY DEF TypeInv, AgentsOK, Agent
  <1> QED
    BY <1>1, RequestType DEF TypeInv, LocalsTypeOK, ReferenceType

\* What a worker takes off its list was on it.
LEMMA HandledType ==
    ASSUME LocalsTypeOK, NEW v \in Worker, NEW r, Handled(v, r)
    PROVE  /\ batch' \in [Worker -> SUBSET Request] /\ overdue' \in [Worker -> SUBSET Request]
           /\ \A u \in Worker : batch'[u] \subseteq batch[u] /\ overdue'[u] \subseteq overdue[u]
  BY DEF Handled, LocalsTypeOK

LEMMA AgeType ==
    ASSUME TypeInv, NEW r \in Request, Age(r)
    PROVE  TypeInv'
  <1> USE DEF TypeInv, Age, locals, tables
  <1>1. TablesTypeOK' /\ LocalsTypeOK'
    BY DEF TablesTypeOK, LocalsTypeOK
  <1>2. AgentsOK' /\ WaitingOK'
    BY DEF AgentsOK, WaitingOK, Pendable, Valid
  <1> QED
    BY <1>1, <1>2

LEMMA ListPendingType ==
    ASSUME TypeInv, NEW v \in Worker, ListPending(v)
    PROVE  TypeInv'
  <1> USE DEF TypeInv, locals, tables
  <1>1. PICK S \in SUBSET Pending : /\ batch' = [batch EXCEPT ![v] = S]
                                    /\ overdue' = [overdue EXCEPT ![v] = S \cap aged]
    BY DEF ListPending
  <1>2. UNCHANGED <<tables, holder, aged, locals>>
    BY DEF ListPending
  <1>3. TablesTypeOK' /\ AgentsOK'
    BY <1>2 DEF TablesTypeOK, AgentsOK, Pendable, Valid
  <1>4. LocalsTypeOK'
    BY <1>1, <1>2 DEF LocalsTypeOK, Pending
  <1>5. WaitingOK'
    BY <1>1, <1>2 DEF WaitingOK, LocalsTypeOK, Pending, Pendable, Valid
  <1> QED
    BY <1>3, <1>4, <1>5

LEMMA RejectExpiredType ==
    ASSUME TypeInv, NEW v \in Worker, NEW r \in Request, RejectExpired(v, r)
    PROVE  TypeInv'
  <1> DEFINE row == RejectedRow("REFERENCE_NOT_FOUND")
  <1>1. r \in Row
    BY RequestType
  <1>2. row \in RowType /\ row.status # "PENDING_REFERENCE"
    BY RejectedType DEF FailureCode, RejectedRow
  <1>3. /\ batch' \in [Worker -> SUBSET Request] /\ overdue' \in [Worker -> SUBSET Request]
        /\ \A u \in Worker : batch'[u] \subseteq batch[u] /\ overdue'[u] \subseteq overdue[u]
    BY HandledType DEF TypeInv, RejectExpired
  <1>4. TablesTypeOK'
    BY <1>1, <1>2, StoreType, EmitType DEF TypeInv, TablesTypeOK, RejectExpired
  <1>5. LocalsTypeOK' /\ AgentsOK'
    BY <1>3 DEF TypeInv, LocalsTypeOK, AgentsOK, RejectExpired, locals, Pendable, Valid
  <1>6. WaitingOK'
    <2> HIDE DEF row
    <2> QED
      BY <1>2, <1>3, StoreWaiting DEF TypeInv, TablesTypeOK, RejectExpired, row
  <1> QED
    BY <1>4, <1>5, <1>6 DEF TypeInv

LEMMA LookReferenceType ==
    ASSUME TypeInv, NEW v \in Worker, NEW r \in Request, LookReference(v, r)
    PROVE  TypeInv'
  <1>1. /\ batch' \in [Worker -> SUBSET Request] /\ overdue' \in [Worker -> SUBSET Request]
        /\ \A u \in Worker : batch'[u] \subseteq batch[u] /\ overdue'[u] \subseteq overdue[u]
    BY HandledType DEF TypeInv, LookReference
  <1>2. UNCHANGED <<tables, holder, aged, base>> /\ v \in Agent /\ r \in batch[v]
    BY DEF LookReference, Agent
  <1>3. \/ UNCHANGED <<pc, job, seen, verdict>>
        \/ /\ \E s \in {"compared", "refuse"} : pc' = [pc EXCEPT ![v] = s]
           /\ job' = [job EXCEPT ![v] = r]
           /\ \E x \in Request : txn[x].status \in Terminal /\
                 seen' = [seen EXCEPT ![v] = [row |-> x, status |-> txn[x].status]]
           /\ \/ verdict' = verdict
              \/ \E c \in FailureCode : verdict' = [verdict EXCEPT ![v] = c]
    BY DEF LookReference, References, FailureCode
  <1>4. TablesTypeOK' /\ WaitingOK'
    BY <1>1, <1>2 DEF TypeInv, TablesTypeOK, WaitingOK, tables, Pendable, Valid
  <1>5. LocalsTypeOK'
    <2> USE DEF TypeInv, LocalsTypeOK
    <2>1. /\ seen' \in [Agent -> ReferenceType]
          /\ job' \in [Agent -> Request \cup {Null}]
      <3>1. \A x \in Request : txn[x].status \in Terminal =>
              [row |-> x, status |-> txn[x].status] \in ReferenceType
        BY DEF ReferenceType
      <3> QED
        BY <1>3, <3>1
    <2>2. verdict' \in [Agent -> FailureCode]
      BY <1>3
    <2>3. pc' \in [Agent -> {"idle", "locked", "checked", "orphan", "matched", "cleared",
                             "compared", "refuse", "resolve", "resolving"}]
      BY <1>3
    <2> QED
      BY <1>1, <1>2, <2>1, <2>2, <2>3
  <1>6. Pendable(r)
    BY <1>2 DEF TypeInv, WaitingOK
  <1>7. AgentsOK'
    BY <1>2, <1>3, <1>6, NameAssumption
    DEF TypeInv, LocalsTypeOK, AgentsOK, Agent, Pendable, Valid
  <1> QED
    BY <1>4, <1>5, <1>7 DEF TypeInv

LEMMA CheckPendingReversalType ==
    ASSUME TypeInv, NEW v \in Worker, CheckPendingReversal(v)
    PROVE  TypeInv'
  <1>1. v \in Agent /\ pc[v] # "idle" /\ job[v] \in Request /\ Pendable(job[v])
    BY WorkerJob DEF CheckPendingReversal
  <1>2. /\ \E s \in {"refuse", "resolve"} : pc' = [pc EXCEPT ![v] = s]
        /\ \/ verdict' = verdict
           \/ \E c \in FailureCode : verdict' = [verdict EXCEPT ![v] = c]
        /\ UNCHANGED <<tables, holder, aged, job, base, seen, batch, overdue>>
    BY DEF CheckPendingReversal, FailureCode
  <1>3. TablesTypeOK' /\ WaitingOK'
    BY <1>2 DEF TypeInv, TablesTypeOK, WaitingOK, tables, Pendable, Valid
  <1>4. LocalsTypeOK'
    BY <1>2 DEF TypeInv, LocalsTypeOK
  <1>5. AgentsOK'
    BY <1>1, <1>2, NameAssumption
    DEF TypeInv, LocalsTypeOK, AgentsOK, Agent, Pendable, Valid
  <1> QED
    BY <1>3, <1>4, <1>5 DEF TypeInv

LEMMA LockToResolveType ==
    ASSUME TypeInv, NEW v \in Worker, LockToResolve(v)
    PROVE  TypeInv'
  <1>1. v \in Agent /\ pc[v] # "idle" /\ job[v] \in Request /\ Pendable(job[v])
        /\ body[job[v]].wallet \in Wallet
    BY WorkerJob DEF LockToResolve
  <1> USE DEF TypeInv, LockToResolve, Lock
  <1>2. TablesTypeOK' /\ WaitingOK'
    BY DEF TablesTypeOK, WaitingOK, tables, Pendable, Valid
  <1>3. LocalsTypeOK'
    BY <1>1 DEF LocalsTypeOK, TablesTypeOK
  <1>4. AgentsOK'
    BY <1>1, NameAssumption DEF AgentsOK, LocalsTypeOK, Agent, Pendable, Valid
  <1> QED
    BY <1>2, <1>3, <1>4

LEMMA RefuseType ==
    ASSUME TypeInv, NEW v \in Worker, Refuse(v) \/ RejectInTx(v)
    PROVE  TypeInv'
  <1> DEFINE code == IF Refuse(v) THEN verdict[v] ELSE "ROLLBACK_INSUFFICIENT_FUNDS"
  <1>1. v \in Agent /\ job[v] \in Request /\ verdict[v] \in FailureCode
    BY WorkerJob DEF Refuse, RejectInTx
  <1>2. code \in FailureCode
    BY <1>1 DEF FailureCode
  <1>3. RejectedRow(code) \in RowType /\ RejectedRow(code).status # "PENDING_REFERENCE"
    BY <1>2, RejectedType DEF RejectedRow
  <1>4. /\ Store(job[v], RejectedRow(code))
        /\ Emit(job[v], {"WagerTransactionRejected"})
        /\ EndTx(v) /\ UNCHANGED <<wallet, ledger, aged, batch, overdue>>
    BY DEF Refuse, RejectInTx
  <1>5. wallet' \in [Wallet -> WalletType] /\ ledger' \in [Wallet -> Seq(EntryType)]
    BY <1>4 DEF TypeInv, TablesTypeOK
  <1> HIDE DEF code
  <1> QED
    BY <1>1, <1>3, <1>4, <1>5, OutcomeType

LEMMA ResolveType ==
    ASSUME TypeInv, NEW v \in Worker, Resolve(v)
    PROVE  TypeInv'
  <1> DEFINE r == job[v]
             dir == Direction(r, seen[v].row)
             row == ProcessedRow(Moved(base[v], dir, body[r].cents).balance, seen[v].row)
  <1>1. /\ v \in Agent /\ r \in Request /\ base[v] \in WalletType
        /\ seen[v].row \in Request \cup {Null} /\ body[r].wallet \in Wallet
        /\ body[r].cents \in Int /\ body[r].cents > 0
    BY WorkerJob DEF Resolve
  <1>2. r \in Row
    BY <1>1, RequestType
  <1>3. dir \in {"CREDIT", "DEBIT"} /\ CanMove(base[v], dir, body[r].cents)
    BY DirectionType DEF Resolve
  <1>4. Moved(base[v], dir, body[r].cents).balance \in Cents
    BY <1>1, <1>2, <1>3, MoveType DEF WalletType
  <1>5. row \in RowType
    BY <1>1, <1>4, ProcessedType
  <1>6. row.status # "PENDING_REFERENCE"
    BY DEF ProcessedRow
  <1>7. wallet' \in [Wallet -> WalletType] /\ ledger' \in [Wallet -> Seq(EntryType)]
    BY <1>1, <1>2, <1>3, PostType DEF Resolve, TypeInv, TablesTypeOK
  <1>8. /\ Store(r, row) /\ Emit(r, {"WagerTransactionProcessed", "WalletBalanceChanged"})
        /\ EndTx(v) /\ UNCHANGED <<aged, batch, overdue>>
    BY DEF Resolve
  <1> HIDE DEF r, row
  <1> QED
    BY <1>1, <1>5, <1>6, <1>7, <1>8, OutcomeType

LEMMA SkipItemType ==
    ASSUME TypeInv, NEW v \in Worker, NEW r \in Request, SkipItem(v, r)
    PROVE  TypeInv'
  <1>1. /\ batch' \in [Worker -> SUBSET Request] /\ overdue' \in [Worker -> SUBSET Request]
        /\ \A u \in Worker : batch'[u] \subseteq batch[u] /\ overdue'[u] \subseteq overdue[u]
    BY HandledType DEF TypeInv, SkipItem
  <1> USE DEF TypeInv, SkipItem, locals, tables
  <1>2. TablesTypeOK' /\ LocalsTypeOK'
    BY <1>1 DEF TablesTypeOK, LocalsTypeOK
  <1>3. AgentsOK' /\ WaitingOK'
    BY <1>1 DEF AgentsOK, WaitingOK, Pendable, Valid
  <1> QED
    BY <1>2, <1>3

LEMMA CrashType ==
    ASSUME TypeInv, NEW v \in Worker, Crash(v)
    PROVE  TypeInv'
  <1>1. v \in Agent /\ EndTx(v) /\ UNCHANGED <<tables, aged>>
    BY DEF Crash, Agent
  <1>2. /\ batch' \in [Worker -> SUBSET Request] /\ overdue' \in [Worker -> SUBSET Request]
        /\ \A u \in Worker : batch'[u] \subseteq batch[u] /\ overdue'[u] \subseteq overdue[u]
    BY DEF Crash, TypeInv, LocalsTypeOK
  <1>3. TablesTypeOK' /\ WaitingOK'
    BY <1>1, <1>2 DEF TypeInv, TablesTypeOK, WaitingOK, tables, Pendable, Valid
  <1>4. LocalsTypeOK'
    BY <1>1, <1>2, EndTxType DEF TypeInv, LocalsTypeOK
  <1>5. AgentsOK'
    BY <1>1, EndTxAgents DEF TypeInv
  <1> QED
    BY <1>3, <1>4, <1>5 DEF TypeInv

-----------------------------------------------------------------------------
LEMMA TypeStep == TypeInv /\ [Next]_vars => TypeInv'
  <1> SUFFICES ASSUME TypeInv, [Next]_vars PROVE TypeInv'
    OBVIOUS
  <1>1. CASE \E w \in Wallet : CreateWallet(w)
    BY <1>1, CreateWalletType
  <1>2. CASE \E p \in Process : ProcessStep(p) \/ \E r \in Request : LockWallet(p, r)
    BY <1>2, ProcessStepType, LockWalletType
  <1>3. CASE \E r \in Request : Age(r)
    BY <1>3, AgeType
  <1>4. ASSUME NEW v \in Worker, ListPending(v) \/ LockToResolve(v) \/ ItemStep(v) \/ Crash(v)
        PROVE  TypeInv'
    <2>1. CASE FailItem(v)
      BY <2>1, QuietEndType DEF FailItem, Agent
    <2> QED
      BY <1>4, <2>1, ListPendingType, LockToResolveType, CheckPendingReversalType, RefuseType,
         ResolveType, CrashType
      DEF ItemStep
  <1>5. ASSUME NEW v \in Worker, NEW r \in Request,
               RejectExpired(v, r) \/ LookReference(v, r) \/ SkipItem(v, r)
        PROVE  TypeInv'
    BY <1>5, RejectExpiredType, LookReferenceType, SkipItemType
  <1>6. CASE UNCHANGED vars
    BY <1>6 DEF vars, tables, locals, TypeInv, TablesTypeOK, LocalsTypeOK, AgentsOK, WaitingOK,
                Pendable, Valid
  <1> QED
    BY <1>1, <1>2, <1>3, <1>4, <1>5, <1>6 DEF Next

\* Every variable keeps to its type, whatever the number of wallets, requests,
\* processes and workers: no balance goes below zero or past MaxCents, and no
\* entry is empty.
THEOREM TypeCorrect == Spec => []TypeOK
  <1>1. TypeInv => TypeOK
    BY DEF TypeInv, TypeOK
  <1> QED
    BY <1>1, TypeInit, TypeStep, PTL DEF Spec

-----------------------------------------------------------------------------
(* The inductive invariant                                                 *)

\* Agent a is between SELECT ... FOR UPDATE and the end of its transaction.
Holding(a) == pc[a] \in {"locked", "checked", "orphan", "matched", "cleared", "resolving"}

Held(a) == body[job[a]].wallet

\* What the lock gives: nobody else holds the wallet, and what its holder read
\* is what the table still says.
LockOK ==
    \A a \in Agent : Holding(a) =>
        /\ holder[Held(a)] = a
        /\ base[a] = wallet[Held(a)]
        /\ base[a] # NoWallet

\* LedgerRebuildsWallet, for one wallet w with ledger l and row b.
Chained(l) ==
    \A i \in DOMAIN l :
        /\ l[i].before = IF i = 1 THEN 0 ELSE l[i - 1].after
        /\ l[i].after = IF l[i].direction = "CREDIT" THEN l[i].before + l[i].cents
                                                     ELSE l[i].before - l[i].cents

Movements(l, w) == IF l # <<>> /\ l[1].txn = w THEN Len(l) - 1 ELSE Len(l)

Rebuilds(l, b, w) ==
    /\ Chained(l)
    /\ b.balance = IF l = <<>> THEN 0 ELSE l[Len(l)].after
    /\ b # NoWallet => b.version = 1 + Movements(l, w)
    /\ b = NoWallet => l = <<>>

\* The requests that have a row.
StoredRequest == {x \in Request : Exists(x)}

\* An entry is the wallet's opening or belongs to a request of X for it.
Owned(l, w, X) ==
    \A i \in DOMAIN l : \/ l[i].txn = w
                        \/ l[i].txn \in X /\ body[l[i].txn].wallet = w

Single(l) == \A i, j \in DOMAIN l : l[i].txn = l[j].txn => i = j

LedgerOK ==
    \A w \in Wallet :
        /\ Rebuilds(ledger[w], wallet[w], w)
        /\ Owned(ledger[w], w, StoredRequest)
        /\ Single(ledger[w])

LedgerInv == TypeInv /\ LockOK /\ LedgerOK

-----------------------------------------------------------------------------
(* One more entry                                                          *)

\* An entry computed from the wallet's present row continues its ledger.
LEMMA AppendRebuilds ==
    ASSUME NEW w \in Wallet, NEW l \in Seq(EntryType), NEW b \in WalletType, b # NoWallet,
           NEW x \in Request, NEW dir \in {"CREDIT", "DEBIT"}, NEW n \in Int,
           Rebuilds(l, b, w)
    PROVE  Rebuilds(Append(l, Entry(x, dir, n, b)), Moved(b, dir, n), w)
  <1> DEFINE e == Entry(x, dir, n, b)
             m == Append(l, e)
             c == Moved(b, dir, n)
  <1>1. /\ Len(l) \in Nat /\ DOMAIN l = 1..Len(l) /\ Len(m) = Len(l) + 1
        /\ DOMAIN m = 1..(Len(l) + 1) /\ m # <<>> /\ m[Len(l) + 1] = e
        /\ \A i \in 1..Len(l) : m[i] = l[i]
    BY AppendProperties, LenProperties, EmptySeq
  <1>2. l = <<>> <=> Len(l) = 0
    BY EmptySeq
  <1>3. /\ e.txn = x /\ e.direction = dir /\ e.cents = n
        /\ e.before = b.balance /\ e.after = c.balance
    BY DEF Entry
  <1>4. c.version = b.version + 1 /\ b.version \in Nat /\ b.balance \in Int
        /\ c.balance = IF dir = "CREDIT" THEN b.balance + n ELSE b.balance - n
    BY DEF Moved, WalletType, Cents
  <1>5. x # w
    BY NameAssumption
  <1> HIDE DEF e, m, c
  <1>6. Chained(m)
    <2>1. ASSUME NEW i \in 1..Len(l)
          PROVE  /\ m[i].before = IF i = 1 THEN 0 ELSE m[i - 1].after
                 /\ m[i].after = IF m[i].direction = "CREDIT" THEN m[i].before + m[i].cents
                                                              ELSE m[i].before - m[i].cents
      <3>1. i # 1 => i - 1 \in 1..Len(l)
        BY <1>1
      <3> QED
        BY <1>1, <3>1 DEF Rebuilds, Chained
    <2>2. b.balance = IF Len(l) + 1 = 1 THEN 0 ELSE m[Len(l)].after
      BY <1>1, <1>2 DEF Rebuilds
    <2>3. /\ e.before = IF Len(l) + 1 = 1 THEN 0 ELSE m[Len(l) + 1 - 1].after
          /\ e.after = IF e.direction = "CREDIT" THEN e.before + e.cents
                                                 ELSE e.before - e.cents
      BY <1>1, <1>3, <1>4, <2>2
    <2> QED
      BY <1>1, <2>1, <2>3 DEF Chained
  <1>7. Movements(m, w) = Movements(l, w) + 1
    <2>1. CASE l = <<>>
      BY <1>1, <1>2, <1>3, <1>5, <2>1 DEF Movements
    <2>2. CASE l # <<>>
      BY <1>1, <1>2, <2>2 DEF Movements
    <2> QED
      BY <2>1, <2>2
  <1>8. c # NoWallet
    BY <1>4 DEF NoWallet
  <1>9. Movements(l, w) \in Int
    BY <1>1 DEF Movements
  <1> QED
    BY <1>1, <1>3, <1>4, <1>6, <1>7, <1>8, <1>9 DEF Rebuilds, e, m, c

\* It may be the first entry of its request, which the wallet then owns.
LEMMA AppendOwned ==
    ASSUME NEW w, NEW l \in Seq(EntryType), NEW X, NEW Y, X \subseteq Y,
           NEW e \in EntryType, e.txn \in Y, body[e.txn].wallet = w,
           \A i \in DOMAIN l : l[i].txn # e.txn, Owned(l, w, X), Single(l)
    PROVE  Owned(Append(l, e), w, Y) /\ Single(Append(l, e))
  <1> DEFINE m == Append(l, e)
  <1>1. /\ Len(l) \in Nat /\ DOMAIN l = 1..Len(l) /\ DOMAIN m = 1..(Len(l) + 1)
        /\ m[Len(l) + 1] = e /\ \A i \in 1..Len(l) : m[i] = l[i]
    BY AppendProperties, LenProperties
  <1> HIDE DEF m
  <1>2. \A i \in DOMAIN m : i = Len(l) + 1 \/ i \in 1..Len(l)
    BY <1>1
  <1>3. Owned(m, w, Y)
    BY <1>1, <1>2 DEF Owned
  <1>4. Single(m)
    BY <1>1, <1>2 DEF Single
  <1> QED
    BY <1>3, <1>4 DEF m

\* No row ever disappears.
LEMMA StoreExists ==
    ASSUME txn \in [Row -> RowType], NEW r \in Row, NEW row, row.status # "ABSENT",
           Store(r, row)
    PROVE  StoredRequest \subseteq StoredRequest' /\ (r \in Request => r \in StoredRequest')
  BY DEF Store, Exists, Row, StoredRequest

\* A step that touches no wallet keeps the ledgers, as long as no row goes.
LEMMA StillLedgers ==
    ASSUME LedgerOK, UNCHANGED <<wallet, ledger>>, StoredRequest \subseteq StoredRequest'
    PROVE  LedgerOK'
  <1>1. ASSUME NEW w \in Wallet PROVE Owned(ledger[w], w, StoredRequest)'
    BY DEF LedgerOK, Owned
  <1>2. ASSUME NEW w \in Wallet
        PROVE  Rebuilds(ledger[w], wallet[w], w)' /\ Single(ledger[w])'
    BY DEF LedgerOK, Rebuilds, Single, Chained, Movements
  <1> QED
    BY <1>1, <1>2 DEF LedgerOK

\* A step that touches one wallet only.
LEMMA OneLedger ==
    ASSUME LedgerOK, StoredRequest \subseteq StoredRequest', NEW w \in Wallet,
           \A u \in Wallet \ {w} : ledger'[u] = ledger[u] /\ wallet'[u] = wallet[u],
           NEW Y, Y = StoredRequest',
           Rebuilds(ledger'[w], wallet'[w], w), Owned(ledger'[w], w, Y), Single(ledger'[w])
    PROVE  LedgerOK'
  <1>1. PICK X : X = StoredRequest
    OBVIOUS
  <1>2. ASSUME NEW u \in Wallet \ {w}
        PROVE  Rebuilds(ledger'[u], wallet'[u], u) /\ Single(ledger'[u]) /\ Owned(ledger'[u], u, Y)
    BY <1>1, <1>2 DEF LedgerOK, Owned
  <1> SUFFICES ASSUME NEW u \in Wallet
               PROVE  (/\ Rebuilds(ledger[u], wallet[u], u)
                       /\ Owned(ledger[u], u, StoredRequest)
                       /\ Single(ledger[u]))'
    BY DEF LedgerOK
  <1>3. Rebuilds(ledger'[u], wallet'[u], u) /\ Single(ledger'[u]) /\ Owned(ledger'[u], u, Y)
    BY <1>2
  <1>4. Rebuilds(ledger[u], wallet[u], u)' /\ Single(ledger[u])'
    BY <1>3 DEF Rebuilds, Chained, Movements, Single
  <1>5. Owned(ledger[u], u, StoredRequest)'
    BY <1>3 DEF Owned
  <1> QED
    BY <1>4, <1>5

\* The holder of a wallet moves it for a request that never moved it before.
LEMMA PostLedgers ==
    ASSUME TypeInv, LedgerOK, NEW r \in Request, NEW b, NEW dir \in {"CREDIT", "DEBIT"},
           b = wallet[body[r].wallet], b # NoWallet, body[r].cents > 0,
           CanMove(b, dir, body[r].cents),
           LedgerIndexFree(body[r].wallet, r),
           Post(body[r].wallet, r, dir, body[r].cents, b),
           StoredRequest \subseteq StoredRequest', r \in StoredRequest'
    PROVE  LedgerOK'
  <1>1. PICK w \in Wallet : w = body[r].wallet
    BY BodyAssumption
  <1>2. PICK X : X = StoredRequest
    OBVIOUS
  <1>3. PICK Y : Y = StoredRequest'
    OBVIOUS
  <1>4. PICK e : e = Entry(r, dir, body[r].cents, b)
    OBVIOUS
  <1>5. /\ ledger[w] \in Seq(EntryType) /\ b \in WalletType /\ body[r].cents \in Int
        /\ r \in Row
    BY <1>1, RequestType DEF TypeInv, TablesTypeOK
  <1>6. e \in EntryType /\ e.txn = r
    BY <1>4, <1>5, MoveType DEF Entry
  <1>7. /\ ledger' = [ledger EXCEPT ![w] = Append(ledger[w], e)]
        /\ wallet' = [wallet EXCEPT ![w] = Moved(b, dir, body[r].cents)]
    BY <1>1, <1>4 DEF Post
  <1>8. ledger'[w] = Append(ledger[w], e) /\ wallet'[w] = Moved(b, dir, body[r].cents)
    BY <1>7 DEF TypeInv, TablesTypeOK
  <1>9. \A u \in Wallet \ {w} : ledger'[u] = ledger[u] /\ wallet'[u] = wallet[u]
    BY <1>7 DEF TypeInv, TablesTypeOK
  <1>10. Rebuilds(ledger'[w], wallet'[w], w)
    BY <1>1, <1>4, <1>5, <1>8, AppendRebuilds DEF LedgerOK
  <1>11. Owned(ledger'[w], w, Y) /\ Single(ledger'[w])
    <2>1. \A i \in DOMAIN ledger[w] : ledger[w][i].txn # e.txn
      BY <1>1, <1>6 DEF LedgerIndexFree
    <2>2. Owned(ledger[w], w, X) /\ Single(ledger[w]) /\ X \subseteq Y /\ e.txn \in Y
      BY <1>2, <1>3, <1>6 DEF LedgerOK
    <2>3. body[e.txn].wallet = w /\ ledger[w] \in Seq(EntryType) /\ e \in EntryType
      BY <1>1, <1>5, <1>6
    <2>4. Owned(Append(ledger[w], e), w, Y) /\ Single(Append(ledger[w], e))
      BY <2>1, <2>2, <2>3, AppendOwned
    <2> QED
      BY <1>8, <2>4
  <1> QED
    BY <1>3, <1>9, <1>10, <1>11, OneLedger

-----------------------------------------------------------------------------
(* The locks                                                               *)

\* Ending a transaction, whose only writes are to wallets it holds.
LEMMA EndTxLocks ==
    ASSUME TypeInv, LockOK, NEW a \in Agent, EndTx(a),
           \A w \in Wallet : holder[w] # a => wallet'[w] = wallet[w]
    PROVE  LockOK'
  <1> SUFFICES ASSUME NEW c \in Agent, Holding(c)'
               PROVE  (/\ holder[Held(c)] = c
                       /\ base[c] = wallet[Held(c)]
                       /\ base[c] # NoWallet)'
    BY DEF LockOK
  <1>1. c # a /\ Holding(c) /\ Held(c)' = Held(c) /\ base'[c] = base[c]
    BY DEF EndTx, Holding, Held, TypeInv, LocalsTypeOK
  <1>2. Held(c) \in Wallet
    BY <1>1, RequestType DEF Holding, Held, TypeInv, AgentsOK
  <1> QED
    BY <1>1, <1>2, NameAssumption DEF LockOK, EndTx

\* Taking the lock of the wallet of the request at hand.
LEMMA LockLocks ==
    ASSUME TypeInv, LockOK, NEW a \in Agent, NEW r \in Request, NEW s,
           Lock(a, body[r].wallet), job' = [job EXCEPT ![a] = r],
           pc' = [pc EXCEPT ![a] = s], wallet' = wallet
    PROVE  LockOK'
  <1> SUFFICES ASSUME NEW c \in Agent, Holding(c)'
               PROVE  (/\ holder[Held(c)] = c
                       /\ base[c] = wallet[Held(c)]
                       /\ base[c] # NoWallet)'
    BY DEF LockOK
  <1>1. CASE c = a
    BY <1>1, RequestType DEF Lock, Held, TypeInv, LocalsTypeOK
  <1>2. CASE c # a
    <2>1. Holding(c) /\ Held(c)' = Held(c) /\ base'[c] = base[c]
      BY <1>2 DEF Lock, Holding, Held, TypeInv, LocalsTypeOK
    <2>2. holder[Held(c)] = c /\ base[c] = wallet[Held(c)] /\ base[c] # NoWallet
      BY <2>1 DEF LockOK
    <2>3. Held(c) \in Wallet /\ c # Null
      BY <2>1, RequestType, NameAssumption DEF Holding, Held, TypeInv, AgentsOK
    <2>4. holder'[Held(c)] = c
      BY <2>2, <2>3 DEF Lock, TypeInv, LocalsTypeOK
    <2> QED
      BY <2>1, <2>2, <2>4
  <1> QED
    BY <1>1, <1>2

\* A step that leaves locks, jobs and wallets alone and begins no transaction.
LEMMA StillLocks ==
    ASSUME LockOK, UNCHANGED <<holder, base, job, wallet>>,
           \A a \in Agent : Holding(a)' => Holding(a)
    PROVE  LockOK'
  BY DEF LockOK, Held

-----------------------------------------------------------------------------
(* The invariant is inductive                                              *)

LEMMA LedgerInit == Init => LedgerInv
  <1> SUFFICES ASSUME Init PROVE LedgerInv
    OBVIOUS
  <1>1. LockOK
    BY DEF Init, LockOK, Holding
  <1>2. LedgerOK
    <2> SUFFICES ASSUME NEW w \in Wallet
                 PROVE  /\ Rebuilds(<<>>, NoWallet, w)
                        /\ Owned(<<>>, w, StoredRequest) /\ Single(<<>>)
      BY DEF Init, LedgerOK
    <2>1. DOMAIN <<>> = {}
      BY EmptySeq
    <2>2. NoWallet.balance = 0
      BY DEF NoWallet
    <2> QED
      BY <2>1, <2>2 DEF Rebuilds, Chained, Owned, Single
  <1> QED
    BY <1>1, <1>2, TypeInit DEF LedgerInv

\* A step that writes to no table and ends no transaction.
LEMMA QuietStep ==
    ASSUME LedgerInv, UNCHANGED <<tables, holder, base, job>>,
           \A a \in Agent : Holding(a)' => Holding(a)
    PROVE  LockOK' /\ LedgerOK'
  <1>1. StoredRequest \subseteq StoredRequest'
    BY DEF tables, StoredRequest, Exists
  <1> QED
    BY <1>1, StillLocks, StillLedgers DEF LedgerInv, tables

\* A transaction that ends with no movement, an outcome stored or not.
LEMMA EndStep ==
    ASSUME LedgerInv, NEW a \in Agent, EndTx(a), UNCHANGED <<wallet, ledger>>,
           \/ txn' = txn
           \/ \E r \in Request : \E row : row.status # "ABSENT" /\ Store(r, row)
    PROVE  LockOK' /\ LedgerOK'
  <1>1. StoredRequest \subseteq StoredRequest'
    BY StoreExists, RequestType DEF StoredRequest, Exists, LedgerInv, TypeInv, TablesTypeOK
  <1> QED
    BY <1>1, EndTxLocks, StillLedgers DEF LedgerInv

\* A transaction that ends with a movement of the wallet it holds, for a
\* request with no entry there.
LEMMA MoveStep ==
    ASSUME LedgerInv, NEW a \in Agent, Holding(a), EndTx(a),
           NEW dir \in {"CREDIT", "DEBIT"}, NEW row, row.status # "ABSENT",
           job[a] \in Request, body[job[a]].cents > 0,
           CanMove(base[a], dir, body[job[a]].cents),
           LedgerIndexFree(Held(a), job[a]),
           Store(job[a], row),
           Post(Held(a), job[a], dir, body[job[a]].cents, base[a])
    PROVE  LockOK' /\ LedgerOK'
  <1>1. /\ holder[Held(a)] = a /\ base[a] = wallet[Held(a)] /\ base[a] # NoWallet
        /\ Held(a) \in Wallet
    BY RequestType DEF LedgerInv, LockOK, Held
  <1>2. StoredRequest \subseteq StoredRequest' /\ job[a] \in StoredRequest'
    BY StoreExists, RequestType DEF LedgerInv, TypeInv, TablesTypeOK
  <1>3. LedgerOK'
    BY <1>1, <1>2, PostLedgers DEF LedgerInv, Held
  <1>4. \A w \in Wallet : holder[w] # a => wallet'[w] = wallet[w]
    BY <1>1 DEF Post, LedgerInv, TypeInv, TablesTypeOK
  <1> QED
    BY <1>3, <1>4, EndTxLocks DEF LedgerInv

LEMMA CreateStep ==
    ASSUME LedgerInv, NEW w \in Wallet, CreateWallet(w)
    PROVE  LockOK' /\ LedgerOK'
  <1> DEFINE cents == account[w].opening
             e == Entry(w, "CREDIT", cents, NoWallet)
             new == [balance |-> cents, version |-> 1]
  <1>1. /\ wallet[w] = NoWallet /\ cents \in Nat /\ wallet' = [wallet EXCEPT ![w] = new]
        /\ UNCHANGED <<holder, base, job, pc>>
    BY AccountAssumption DEF CreateWallet, locals
  <1>2. LockOK'
    <2> SUFFICES ASSUME NEW a \in Agent, Holding(a)'
                 PROVE  (holder[Held(a)] = a /\ base[a] = wallet[Held(a)] /\ base[a] # NoWallet)'
      BY DEF LockOK
    <2>1. /\ holder[Held(a)] = a /\ base[a] = wallet[Held(a)] /\ base[a] # NoWallet
          /\ Held(a)' = Held(a)
      BY <1>1 DEF Holding, LedgerInv, LockOK, Held
    <2>2. wallet'[Held(a)] = wallet[Held(a)]
      BY <1>1, <2>1 DEF LedgerInv, TypeInv, TablesTypeOK
    <2> QED
      BY <1>1, <2>1, <2>2
  <1>3. StoredRequest' = StoredRequest
    BY NameAssumption
    DEF CreateWallet, Store, StoredRequest, Exists, LedgerInv, TypeInv, TablesTypeOK, Row
  <1>4. ledger[w] = <<>>
    BY <1>1 DEF LedgerInv, LedgerOK, Rebuilds
  <1>5. /\ ledger' = [ledger EXCEPT ![w] = IF cents > 0 THEN <<e>> ELSE <<>>]
        /\ ledger \in [Wallet -> Seq(EntryType)] /\ wallet \in [Wallet -> WalletType]
    BY <1>1, <1>4 DEF CreateWallet, LedgerInv, TypeInv, TablesTypeOK
  <1>6. new.balance = cents /\ new.version = 1 /\ new # NoWallet
    BY DEF NoWallet
  <1>7. /\ e.txn = w /\ e.direction = "CREDIT" /\ e.cents = cents /\ e.before = 0
        /\ e.after = cents
    BY <1>1 DEF Entry, NoWallet, Moved
  <1> HIDE DEF e, new, cents
  <1>8. Rebuilds(<<e>>, new, w) /\ Owned(<<e>>, w, StoredRequest) /\ Single(<<e>>)
    BY <1>1, <1>6, <1>7 DEF Rebuilds, Chained, Movements, Owned, Single
  <1>9. cents = 0 =>
          Rebuilds(<<>>, new, w) /\ Owned(<<>>, w, StoredRequest) /\ Single(<<>>)
    BY <1>6, EmptySeq DEF Rebuilds, Chained, Movements, Owned, Single
  <1>10. /\ ledger'[w] = IF cents > 0 THEN <<e>> ELSE <<>>
         /\ wallet'[w] = new
         /\ \A u \in Wallet \ {w} : ledger'[u] = ledger[u] /\ wallet'[u] = wallet[u]
    BY <1>1, <1>5
  <1>11. Rebuilds(ledger'[w], wallet'[w], w) /\ Single(ledger'[w])
    BY <1>1, <1>8, <1>9, <1>10
  <1>12. PICK Y : Y = StoredRequest'
    OBVIOUS
  <1>13. Owned(ledger'[w], w, Y)
    BY <1>1, <1>3, <1>8, <1>9, <1>10, <1>12
  <1>14. LedgerOK'
    BY <1>3, <1>10, <1>11, <1>12, <1>13, OneLedger DEF LedgerInv
  <1> QED
    BY <1>2, <1>14

\* A request without a row has no entry: its first settlement needs no guard.
LEMMA FreshEntry ==
    ASSUME LedgerInv, NEW r \in Request, Duplicates(r) = {}
    PROVE  LedgerIndexFree(body[r].wallet, r)
  <1>1. r \notin StoredRequest
    BY DEF Duplicates, StoredRequest
  <1>2. body[r].wallet \in Wallet /\ body[r].wallet # r
    BY RequestType, NameAssumption
  <1> QED
    BY <1>1, <1>2 DEF LedgerInv, LedgerOK, Owned, LedgerIndexFree

LEMMA SettleStep ==
    ASSUME LedgerInv, NEW p \in Process, Settle(p)
    PROVE  LockOK' /\ LedgerOK'
  <1> DEFINE r == job[p]
             dir == Direction(r, seen[p].row)
             row == ProcessedRow(Stored(Moved(base[p], dir, body[r].cents).balance), seen[p].row)
  <1>1. p \in Agent /\ Holding(p) /\ r \in Request /\ Valid(r)
    BY ProcessJob DEF Settle, LedgerInv, Holding
  <1>2. body[r].cents > 0
    BY <1>1, RequestType DEF Settle
  <1>3. /\ CanMove(base[p], dir, body[r].cents) /\ Store(r, row) /\ EndTx(p)
        /\ Post(Held(p), r, dir, body[r].cents, base[p]) /\ Duplicates(r) = {}
    BY DEF Settle, Held
  <1>4. LedgerIndexFree(Held(p), r)
    BY <1>1, <1>3, FreshEntry DEF Held
  <1>5. row.status # "ABSENT" /\ dir \in {"CREDIT", "DEBIT"}
    BY DirectionType DEF ProcessedRow
  <1> HIDE DEF dir, row
  <1> QED
    BY <1>1, <1>2, <1>3, <1>4, <1>5, MoveStep

LEMMA ResolveStep ==
    ASSUME LedgerInv, NEW v \in Worker, Resolve(v)
    PROVE  LockOK' /\ LedgerOK'
  <1> DEFINE r == job[v]
             dir == Direction(r, seen[v].row)
             row == ProcessedRow(Moved(base[v], dir, body[r].cents).balance, seen[v].row)
  <1>1. v \in Agent /\ Holding(v) /\ r \in Request /\ body[r].cents > 0
    BY WorkerJob DEF Resolve, LedgerInv, Holding
  <1>2. /\ CanMove(base[v], dir, body[r].cents) /\ Store(r, row) /\ EndTx(v)
        /\ Post(Held(v), r, dir, body[r].cents, base[v]) /\ LedgerIndexFree(Held(v), r)
    BY DEF Resolve, Held
  <1>3. row.status # "ABSENT" /\ dir \in {"CREDIT", "DEBIT"}
    BY DirectionType DEF ProcessedRow
  <1> HIDE DEF dir, row
  <1> QED
    BY <1>1, <1>2, <1>3, MoveStep

LEMMA ProcessLedger ==
    ASSUME LedgerInv, NEW p \in Process, ProcessStep(p)
    PROVE  LockOK' /\ LedgerOK'
  <1>1. p \in Agent
    BY DEF Agent
  <1>2. CASE SavePending(p) \/ RejectUnfunded(p) \/ SettleLoss(p)
    <2>1. job[p] \in Request /\ EndTx(p) /\ UNCHANGED <<wallet, ledger>>
      BY <1>2, ProcessJob DEF SavePending, RejectUnfunded, SettleLoss, LedgerInv
    <2>2. \E row : row.status # "ABSENT" /\ Store(job[p], row)
      BY <1>2 DEF SavePending, RejectUnfunded, SettleLoss, PendingRow, RejectedRow, ProcessedRow
    <2> QED
      BY <1>1, <2>1, <2>2, EndStep
  <1>3. CASE CheckIdempotency(p) \/ ReadReference(p) \/ CheckReversal(p) \/ Abort(p)
    <2>1. UNCHANGED tables
      BY <1>3 DEF CheckIdempotency, ReadReference, CheckReversal, Abort
    <2>2. CASE EndTx(p)
      BY <1>1, <2>1, <2>2, EndStep DEF tables
    <2>3. CASE ~ EndTx(p)
      <3>1. UNCHANGED <<holder, base, job>> /\ Holding(p)
            /\ \E s : pc' = [pc EXCEPT ![p] = s]
        BY <1>3, <2>3 DEF CheckIdempotency, ReadReference, CheckReversal, Abort, Holding
      <3>2. \A a \in Agent : Holding(a)' => Holding(a)
        BY <3>1 DEF Holding, LedgerInv, TypeInv, LocalsTypeOK
      <3> QED
        BY <2>1, <3>1, <3>2, QuietStep
    <2> QED
      BY <2>2, <2>3
  <1> QED
    BY <1>2, <1>3, SettleStep DEF ProcessStep

LEMMA WorkerLedger ==
    ASSUME LedgerInv, NEW v \in Worker,
           ListPending(v) \/ LockToResolve(v) \/ ItemStep(v) \/ Crash(v)
    PROVE  LockOK' /\ LedgerOK'
  <1>1. v \in Agent
    BY DEF Agent
  <1>2. CASE ListPending(v)
    <2>1. UNCHANGED <<tables, holder, base, job, pc>>
      BY <1>2 DEF ListPending, locals
    <2> QED
      BY <2>1, QuietStep DEF Holding
  <1>3. CASE LockToResolve(v)
    <2>1. job[v] \in Request /\ job' = [job EXCEPT ![v] = job[v]]
      BY <1>3, WorkerJob DEF LockToResolve, LedgerInv, TypeInv, LocalsTypeOK
    <2>2. LockOK'
      BY <1>1, <1>3, <2>1, LockLocks DEF LockToResolve, LedgerInv, tables
    <2>3. LedgerOK'
      BY <1>3, StillLedgers DEF LockToResolve, tables, LedgerInv, StoredRequest, Exists
    <2> QED
      BY <2>2, <2>3
  <1>4. CASE CheckPendingReversal(v)
    <2>1. UNCHANGED <<tables, holder, base, job>>
          /\ \E s \in {"refuse", "resolve"} : pc' = [pc EXCEPT ![v] = s]
      BY <1>4 DEF CheckPendingReversal
    <2>2. \A a \in Agent : Holding(a)' => Holding(a)
      BY <2>1 DEF Holding, LedgerInv, TypeInv, LocalsTypeOK
    <2> QED
      BY <2>1, <2>2, QuietStep
  <1>5. CASE Refuse(v) \/ RejectInTx(v)
    <2>1. job[v] \in Request /\ EndTx(v) /\ UNCHANGED <<wallet, ledger>>
      BY <1>5, WorkerJob DEF Refuse, RejectInTx, LedgerInv
    <2>2. \E row : row.status # "ABSENT" /\ Store(job[v], row)
      BY <1>5 DEF Refuse, RejectInTx, RejectedRow
    <2> QED
      BY <1>1, <2>1, <2>2, EndStep
  <1>6. CASE FailItem(v) \/ Crash(v)
    <2>1. EndTx(v) /\ UNCHANGED tables
      BY <1>6 DEF FailItem, Crash
    <2> QED
      BY <1>1, <2>1, EndStep DEF tables
  <1> QED
    BY <1>2, <1>3, <1>4, <1>5, <1>6, ResolveStep DEF ItemStep

LEMMA ItemLedger ==
    ASSUME LedgerInv, NEW v \in Worker, NEW r \in Request,
           RejectExpired(v, r) \/ LookReference(v, r) \/ SkipItem(v, r)
    PROVE  LockOK' /\ LedgerOK'
  <1>1. CASE RejectExpired(v, r)
    <2>1. UNCHANGED <<holder, base, job, pc, wallet, ledger>>
      BY <1>1 DEF RejectExpired, locals
    <2>2. LockOK'
      BY <2>1, StillLocks DEF Holding, LedgerInv
    <2>3. \E row : row.status # "ABSENT" /\ Store(r, row)
      BY <1>1 DEF RejectExpired, RejectedRow
    <2>4. StoredRequest \subseteq StoredRequest'
      BY <2>3, StoreExists, RequestType DEF LedgerInv, TypeInv, TablesTypeOK
    <2> QED
      BY <2>1, <2>2, <2>4, StillLedgers DEF LedgerInv
  <1>2. CASE LookReference(v, r)
    <2>1. UNCHANGED <<tables, holder, base>> /\ pc[v] = "idle"
          /\ \/ UNCHANGED <<pc, job>>
             \/ /\ \E s \in {"compared", "refuse"} : pc' = [pc EXCEPT ![v] = s]
                /\ job' = [job EXCEPT ![v] = r]
      BY <1>2 DEF LookReference
    <2>2. \A a \in Agent : Holding(a)' => Holding(a) /\ job'[a] = job[a]
      BY <2>1 DEF Holding, LedgerInv, TypeInv, LocalsTypeOK
    <2>3. LockOK'
      BY <2>1, <2>2 DEF LedgerInv, LockOK, Held, tables
    <2>4. LedgerOK'
      BY <2>1, StillLedgers DEF tables, LedgerInv, StoredRequest, Exists
    <2> QED
      BY <2>3, <2>4
  <1>3. CASE SkipItem(v, r)
    <2>1. UNCHANGED <<tables, holder, base, job, pc>>
      BY <1>3 DEF SkipItem, locals
    <2> QED
      BY <2>1, QuietStep DEF Holding
  <1> QED
    BY <1>1, <1>2, <1>3

LEMMA LedgerStep == LedgerInv /\ [Next]_vars => LedgerInv'
  <1> SUFFICES ASSUME LedgerInv, [Next]_vars PROVE LockOK' /\ LedgerOK'
    BY TypeStep DEF LedgerInv
  <1>1. CASE \E w \in Wallet : CreateWallet(w)
    BY <1>1, CreateStep
  <1>2. ASSUME NEW p \in Process, NEW r \in Request, LockWallet(p, r)
        PROVE  LockOK' /\ LedgerOK'
    <2>1. LockOK'
      BY <1>2, LockLocks DEF LockWallet, LedgerInv, Agent, tables
    <2>2. LedgerOK'
      BY <1>2, StillLedgers DEF LockWallet, tables, LedgerInv, StoredRequest, Exists
    <2> QED
      BY <2>1, <2>2
  <1>3. ASSUME NEW r \in Request, Age(r)
        PROVE  LockOK' /\ LedgerOK'
    <2>1. UNCHANGED <<tables, holder, base, job, pc>>
      BY <1>3 DEF Age, locals
    <2> QED
      BY <2>1, QuietStep DEF Holding
  <1>4. CASE UNCHANGED vars
    <2>1. UNCHANGED <<tables, holder, base, job, pc>>
      BY <1>4 DEF vars, locals
    <2> QED
      BY <2>1, QuietStep DEF Holding
  <1> QED
    BY <1>1, <1>2, <1>3, <1>4, ProcessLedger, WorkerLedger, ItemLedger DEF Next

-----------------------------------------------------------------------------
\* SELECT ... FOR UPDATE on the wallet is enough for the ledger to rebuild it,
\* however many processes and workers move it at once.
THEOREM LedgerIsWhole == Spec => []LedgerRebuildsWallet
  <1>1. LedgerInv => LedgerRebuildsWallet
    BY DEF LedgerInv, LedgerOK, Rebuilds, Chained, Movements, LedgerRebuildsWallet
  <1> QED
    BY <1>1, LedgerInit, LedgerStep, PTL DEF Spec

\* The lock, the idempotency key and the ledger's unique index together let no
\* transaction move its wallet twice, though several workers resolve it.
THEOREM NoDoubleMovement == Spec => []OneEntryPerTransaction
  <1>1. LedgerInv => OneEntryPerTransaction
    BY DEF LedgerInv, LedgerOK, Single, OneEntryPerTransaction
  <1> QED
    BY <1>1, LedgerInit, LedgerStep, PTL DEF Spec

-----------------------------------------------------------------------------
(* What the reconciliation adds up                                         *)

\* The places of the entries of one direction, and SUM(CASE WHEN direction).
Places(l, d) == {i \in DOMAIN l : l[i].direction = d}
Total(l, d) == MapThenSumSet(LAMBDA i : l[i].cents, Places(l, d))

\* The fold of the definition is a sum.
LEMMA TotalSummed ==
  ASSUME NEW l, NEW d, IsFiniteSet(DOMAIN l), \A i \in DOMAIN l : l[i].cents \in Int
  PROVE  Summed(Total(l, d), [i \in Places(l, d) |-> l[i].cents], Places(l, d))
<1> DEFINE P == Places(l, d)
           f == [i \in P |-> l[i].cents]
           H(g) == [s \in SUBSET P |-> IF s = {} THEN 0 ELSE
                      l[CHOOSE x \in s : TRUE].cents + g[s \ {CHOOSE x \in s : TRUE}]]
           h == CHOOSE g : g = H(g)
<1>1. IsFiniteSet(P) /\ f \in [P -> Int]
  BY FS_Subset DEF Places
<1>2. PICK g : Adds(g, f, P)
  <2> HIDE DEF P, f
  <2>1. QED
    BY <1>1, SumExists
<1>3. \A s \in SUBSET P : s # {} =>
         f[CHOOSE x \in s : TRUE] = l[CHOOSE x \in s : TRUE].cents
  OBVIOUS
<1>4. \A g_1 : Adds(g_1, f, P) <=> g_1 = H(g_1)
  <2> HIDE DEF f, P
  <2>1. QED
    BY <1>3 DEF Adds
<1>5. h = H(h)
  <2> HIDE DEF H
  <2>1. QED
    BY <1>2, <1>4, Zenon
<1>6. Total(l, d) = h[P]
  BY Zenon DEF Total, MapThenSumSet, MapThenFoldSet
<1>7. Summed(Total(l, d), f, P)
  <2> HIDE DEF h, H, f, P
  <2>1. QED
    BY <1>4, <1>5, <1>6, Zenon DEF Summed
<1>8. QED
  BY <1>7

\* One sum over all places holds that of a direction as one of its parts.
LEMMA TotalIsPart ==
  ASSUME NEW l, NEW d, IsFiniteSet(DOMAIN l), NEW f, f = [i \in DOMAIN l |-> l[i].cents],
         f \in [DOMAIN l -> Int], NEW g, Adds(g, f, DOMAIN l)
  PROVE  Total(l, d) = g[Places(l, d)]
<1>1. PICK P, k : P = Places(l, d) /\ k = [i \in P |-> l[i].cents]
  OBVIOUS
<1>2. P \subseteq DOMAIN l /\ IsFiniteSet(P) /\ P \in SUBSET (DOMAIN l \cap P)
  BY <1>1, FS_Subset DEF Places
<1>3. \A i \in DOMAIN l : l[i].cents \in Int
  OBVIOUS
<1>4. Summed(Total(l, d), k, P)
  BY <1>1, <1>3, TotalSummed
<1>5. PICK h : Adds(h, k, P) /\ Total(l, d) = h[P]
  BY <1>4 DEF Summed
<1>6. \A i \in DOMAIN l \cap P : f[i] = k[i]
  BY <1>1, <1>2
<1>7. \A s \in SUBSET (DOMAIN l \cap P) : g[s] = h[s]
  BY <1>2, <1>5, <1>6, SumAgrees
<1>8. QED
  BY <1>1, <1>2, <1>5, <1>7

\* Entries that follow one another add up to the balance after the last.
LEMMA ChainAddsUp ==
  ASSUME NEW l, l \in Seq(EntryType), Chained(l)
  PROVE  Total(l, "CREDIT") - Total(l, "DEBIT") = IF l = <<>> THEN 0 ELSE l[Len(l)].after
<1>1. /\ Len(l) \in Nat /\ DOMAIN l = 1..Len(l) /\ IsFiniteSet(DOMAIN l)
      /\ l = <<>> <=> Len(l) = 0
  BY FS_Interval, EmptySeq
<1>2. \A i \in DOMAIN l : l[i].cents \in Int /\ l[i].after \in Int
                          /\ l[i].direction \in {"CREDIT", "DEBIT"}
  <2>1. \A e \in EntryType : e.cents \in Int /\ e.after \in Int
                             /\ e.direction \in {"CREDIT", "DEBIT"}
    BY BoundAssumption DEF EntryType, Cents
  <2>2. QED
    BY <2>1
<1>3. PICK k : k = [i \in DOMAIN l |-> l[i].cents]
  OBVIOUS
<1>4. k \in [DOMAIN l -> Int]
  BY <1>2, <1>3
<1>5. PICK h : Adds(h, k, DOMAIN l)
  BY <1>1, <1>4, SumExists
<1>6. /\ h \in [SUBSET (DOMAIN l) -> Int]
      /\ \A s \in SUBSET (DOMAIN l) : \A x \in DOMAIN l \ s : h[s \cup {x}] = k[x] + h[s]
  <2>1. PICK P : P = DOMAIN l
    OBVIOUS
  <2>2. IsFiniteSet(P) /\ k \in [P -> Int] /\ Adds(h, k, P)
    BY <1>1, <1>4, <1>5, <2>1
  <2>3. Additive(h, k, P)
    BY ONLY <2>2, SumOfOneMore, Zenon
  <2>4. QED
    BY <2>1, <2>3, Zenon DEF Additive
<1>7. h[{}] = 0
  BY <1>5 DEF Adds
<1> DEFINE C(n) == {i \in 1..n : l[i].direction = "CREDIT"}
           D(n) == {i \in 1..n : l[i].direction = "DEBIT"}
           T == {n \in Nat : n <= Len(l) =>
                   h[C(n)] - h[D(n)] = IF n = 0 THEN 0 ELSE l[n].after}
<1>8. C(0) = {} /\ D(0) = {}
  OBVIOUS
<1>9. 0 \in T
  BY <1>7, <1>8
<1>10. ASSUME NEW n \in Nat, n \in T PROVE n + 1 \in T
  <2> SUFFICES ASSUME n + 1 <= Len(l)
               PROVE  h[C(n + 1)] - h[D(n + 1)] = l[n + 1].after
    OBVIOUS
  <2>1. n + 1 \in DOMAIN l /\ C(n) \in SUBSET (DOMAIN l) /\ D(n) \in SUBSET (DOMAIN l)
        /\ n + 1 \notin C(n) /\ n + 1 \notin D(n) /\ n <= Len(l)
    BY <1>1
  <2>2. h[C(n)] \in Int /\ h[D(n)] \in Int
    BY <1>6, <2>1
  <2>3. h[C(n)] - h[D(n)] = IF n = 0 THEN 0 ELSE l[n].after
    BY <1>10, <2>1
  <2>4. l[n + 1].before = IF n = 0 THEN 0 ELSE l[n].after
    BY <2>1 DEF Chained
  <2>5. k[n + 1] = l[n + 1].cents /\ l[n + 1].cents \in Int
    BY <1>2, <1>3, <2>1
  <2>6. CASE l[n + 1].direction = "CREDIT"
    <3>1. C(n + 1) = C(n) \cup {n + 1} /\ D(n + 1) = D(n)
      BY <2>6
    <3>2. h[C(n + 1)] = l[n + 1].cents + h[C(n)]
      BY <1>6, <2>1, <2>5, <3>1
    <3>3. l[n + 1].after = l[n + 1].before + l[n + 1].cents
      BY <2>1, <2>6 DEF Chained
    <3> HIDE DEF C, D
    <3>4. QED
      BY <2>2, <2>3, <2>4, <2>5, <3>1, <3>2, <3>3
  <2>7. CASE l[n + 1].direction = "DEBIT"
    <3>1. D(n + 1) = D(n) \cup {n + 1} /\ C(n + 1) = C(n)
      BY <2>7
    <3>2. h[D(n + 1)] = l[n + 1].cents + h[D(n)]
      BY <1>6, <2>1, <2>5, <3>1
    <3>3. l[n + 1].after = l[n + 1].before - l[n + 1].cents
      BY <2>1, <2>7 DEF Chained
    <3> HIDE DEF C, D
    <3>4. QED
      BY <2>2, <2>3, <2>4, <2>5, <3>1, <3>2, <3>3
  <2>8. QED
    BY <1>2, <2>1, <2>6, <2>7
<1>11. Len(l) \in T
  <2> HIDE DEF T
  <2>1. QED
    BY <1>1, <1>9, <1>10, AllNumbers
<1>12. C(Len(l)) = Places(l, "CREDIT") /\ D(Len(l)) = Places(l, "DEBIT")
  BY <1>1 DEF Places
<1>13. /\ Total(l, "CREDIT") = h[Places(l, "CREDIT")]
       /\ Total(l, "DEBIT") = h[Places(l, "DEBIT")]
  BY <1>1, <1>3, <1>4, <1>5, TotalIsPart
<1>14. h[C(Len(l))] - h[D(Len(l))] = IF Len(l) = 0 THEN 0 ELSE l[Len(l)].after
  BY <1>1, <1>11
<1>15. QED
  <2> HIDE DEF C, D, T
  <2>1. QED
    BY <1>1, <1>12, <1>13, <1>14

\* Read in one snapshot, a wallet and its ledger always reconcile: the credits
\* less the debits are the balance, whatever any number of processes and workers do.
THEOREM LedgerAddsUp ==
  Spec => [](\A w \in Wallet :
                wallet[w].balance = Total(ledger[w], "CREDIT") - Total(ledger[w], "DEBIT"))
<1>1. ASSUME LedgerInv, NEW w \in Wallet
      PROVE  wallet[w].balance = Total(ledger[w], "CREDIT") - Total(ledger[w], "DEBIT")
  <2>1. ledger[w] \in Seq(EntryType)
    BY <1>1 DEF LedgerInv, TypeInv, TablesTypeOK
  <2>2. Rebuilds(ledger[w], wallet[w], w)
    BY <1>1 DEF LedgerInv, LedgerOK
  <2>3. QED
    BY <2>1, <2>2, ChainAddsUp DEF Rebuilds
<1>2. LedgerInv => \A w \in Wallet :
         wallet[w].balance = Total(ledger[w], "CREDIT") - Total(ledger[w], "DEBIT")
  BY <1>1
<1>3. QED
  BY <1>2, LedgerInit, LedgerStep, PTL DEF Spec

-----------------------------------------------------------------------------
(* What a commit writes                                                    *)

Unfunded == {"INSUFFICIENT_FUNDS", "ROLLBACK_INSUFFICIENT_FUNDS"}

\* The row of r is new, or one a worker took from its list.
Listed(r) == \E v \in Worker : r \in overdue[v] \/ (pc[v] # "idle" /\ job[v] = r)

Due(r) == Duplicates(r) = {} \/ Listed(r)

\* Every step leaves the tables alone, opens a wallet, or is one of these.
Quiet == UNCHANGED <<wallet, txn, ledger, outbox>>

Opened(r) == wallet[body[r].wallet] # NoWallet

Lacks(r) ==
    /\ body[r].kind \in {"BET", "ROLLBACK"} /\ Opened(r)
    /\ wallet[body[r].wallet].balance < body[r].cents

Waits(r) ==
    /\ body[r].kind \in Reversal /\ Opened(r)
    /\ Duplicates(r) = {} /\ Store(r, PendingRow)
    /\ Emit(r, {"WagerTransactionPendingReference"}) /\ UNCHANGED <<wallet, ledger>>

Rejects(r, code) ==
    /\ Due(r) /\ Store(r, RejectedRow(code))
    /\ Emit(r, {"WagerTransactionRejected"}) /\ UNCHANGED <<wallet, ledger>>
    /\ IF code \in Unfunded THEN Lacks(r) ELSE Listed(r)
    /\ code = "REFERENCE_ALREADY_REVERSED" =>
          \E v \in Worker : pc[v] = "refuse" /\ job[v] = r /\ verdict[v] = code

Loses(r, n) ==
    /\ body[r].kind = "LOSS" /\ Opened(r)
    /\ Duplicates(r) = {} /\ Store(r, ProcessedRow(n, Null))
    /\ Emit(r, {"WagerTransactionProcessed"}) /\ UNCHANGED <<wallet, ledger>>

Moves(a, e, n) ==
    LET r == job[a]
        w == body[r].wallet
    IN
    /\ body[r].kind # "LOSS" /\ pc[a] \in {"cleared", "resolving"} /\ Due(r) /\ Opened(r)
    /\ ReversalIndexFree(r)
    /\ e \in EntryType /\ e.txn = r /\ e.cents = body[r].cents
    /\ e.direction = Direction(r, seen[a].row) /\ n \in {e.after, NoMoney}
    /\ Store(r, ProcessedRow(n, seen[a].row))
    /\ Emit(r, {"WagerTransactionProcessed", "WalletBalanceChanged"})
    /\ CanMove(wallet[w], e.direction, e.cents)
    /\ wallet' = [wallet EXCEPT ![w] = Moved(@, e.direction, e.cents)]
    /\ ledger' = [ledger EXCEPT ![w] = Append(@, e)]

CommitShape ==
    \/ Quiet
    \/ \E w \in Wallet : CreateWallet(w)
    \/ \E r \in Request : Waits(r)
    \/ \E r \in Request, code \in FailureCode : Rejects(r, code)
    \/ \E r \in Request, n \in Cents \cup {NoMoney} : Loses(r, n)
    \/ \E a \in Agent, e \in EntryType, n \in Cents \cup {NoMoney} :
          job[a] \in Request /\ Moves(a, e, n)

\* No worker stores a refusal for lack of funds it has decided on before.
VerdictsOK == \A v \in Worker : verdict[v] \notin Unfunded

\* A movement of the wallet the agent holds.
LEMMA MoveShape ==
    ASSUME LedgerInv, NEW a \in Agent, pc[a] \in {"cleared", "resolving"},
           body[job[a]].kind # "LOSS", Due(job[a]), ReversalIndexFree(job[a]),
           NEW dir, dir = Direction(job[a], seen[a].row),
           CanMove(base[a], dir, body[job[a]].cents),
           NEW n, n = Moved(base[a], dir, body[job[a]].cents).balance,
           NEW m \in {n, Stored(n)},
           Store(job[a], ProcessedRow(m, seen[a].row)),
           Emit(job[a], {"WagerTransactionProcessed", "WalletBalanceChanged"}),
           Post(body[job[a]].wallet, job[a], dir, body[job[a]].cents, base[a])
    PROVE  CommitShape
  <1> DEFINE r == job[a]
             e == Entry(r, dir, body[r].cents, base[a])
  <1>1. /\ r \in Request /\ Valid(r) /\ base[a] \in WalletType
    BY DEF LedgerInv, TypeInv, AgentsOK, LocalsTypeOK
  <1>2. r \in Row /\ body[r].cents \in Int /\ body[r].cents > 0 /\ dir \in {"CREDIT", "DEBIT"}
    BY <1>1, RequestType, DirectionType
  <1>3. e \in EntryType /\ n \in Cents
    BY <1>1, <1>2, MoveType DEF WalletType
  <1>4. e.txn = r /\ e.cents = body[r].cents /\ e.direction = dir /\ e.after = n
    BY DEF Entry
  <1>5. m \in {e.after, NoMoney} /\ m \in Cents \cup {NoMoney}
    BY <1>3, <1>4 DEF Stored
  <1>6. /\ ledger' = [ledger EXCEPT ![body[r].wallet] = Append(@, e)]
        /\ wallet' = [wallet EXCEPT ![body[r].wallet] = Moved(base[a], dir, body[r].cents)]
    BY DEF Post
  <1>7. base[a] = wallet[body[r].wallet] /\ Opened(r)
    BY DEF LedgerInv, LockOK, Holding, Held, Opened
  <1>8. wallet' = [wallet EXCEPT ![body[r].wallet] = Moved(@, dir, body[r].cents)]
    BY <1>6, <1>7
  <1>9. Moves(a, e, m)
    <2> HIDE DEF e
    <2> QED
      BY <1>3, <1>4, <1>5, <1>6, <1>7, <1>8 DEF Moves
  <1> HIDE DEF e
  <1> QED
    BY <1>1, <1>3, <1>5, <1>9 DEF CommitShape

\* An agent in its transaction knows the balance of the moment.
LEMMA TrueRefusal ==
    ASSUME LedgerInv, NEW a \in Agent, Holding(a),
           Direction(job[a], seen[a].row) = "DEBIT", body[job[a]].kind # "LOSS",
           ~ CanMove(base[a], "DEBIT", body[job[a]].cents)
    PROVE  Lacks(job[a])
  <1>1. base[a] = wallet[body[job[a]].wallet] /\ base[a] \in WalletType /\ Opened(job[a])
    BY DEF LedgerInv, LockOK, Held, TypeInv, LocalsTypeOK, Opened
  <1>2. job[a] \in Request /\ body[job[a]].cents \in Int
    BY RequestType DEF LedgerInv, TypeInv, AgentsOK, Holding
  <1>3. body[job[a]].kind \in {"BET", "ROLLBACK"}
    BY <1>2, BodyAssumption DEF Direction, Kind
  <1> QED
    BY <1>1, <1>2, <1>3, BoundAssumption DEF CanMove, WalletType, Cents, Lacks

LEMMA ProcessShape ==
    ASSUME LedgerInv, NEW p \in Process, ProcessStep(p)
    PROVE  CommitShape
  <1>1. CASE CheckIdempotency(p) \/ ReadReference(p) \/ CheckReversal(p) \/ Abort(p)
    BY <1>1 DEF CheckIdempotency, ReadReference, CheckReversal, Abort, tables, CommitShape, Quiet
  <1>2. CASE SavePending(p)
    <2>1. p \in Agent /\ Holding(p) /\ job[p] \in Request /\ body[job[p]].kind \in Reversal
      BY <1>2, ProcessJob DEF SavePending, Holding, LedgerInv, Pendable
    <2>2. Opened(job[p])
      BY <2>1 DEF LedgerInv, LockOK, Held, Opened
    <2> QED
      BY <1>2, <2>1, <2>2 DEF SavePending, CommitShape, Waits
  <1>3. CASE RejectUnfunded(p)
    <2>1. p \in Agent /\ Holding(p) /\ job[p] \in Request
      BY <1>3, ProcessJob DEF RejectUnfunded, Holding, LedgerInv
    <2>2. Lacks(job[p])
      BY <1>3, <2>1, TrueRefusal DEF RejectUnfunded
    <2>3. UnfundedCode(job[p]) \in FailureCode
          /\ UnfundedCode(job[p]) # "REFERENCE_ALREADY_REVERSED"
          /\ UnfundedCode(job[p]) \in Unfunded
      BY DEF UnfundedCode, FailureCode, Unfunded
    <2>4. Rejects(job[p], UnfundedCode(job[p]))
      BY <1>3, <2>2, <2>3 DEF RejectUnfunded, Rejects, Due
    <2> QED
      BY <2>1, <2>3, <2>4 DEF CommitShape
  <1>4. CASE SettleLoss(p)
    <2>1. job[p] \in Request /\ base[p].balance \in Cents /\ p \in Agent /\ Holding(p)
      BY <1>4, ProcessJob DEF SettleLoss, LedgerInv, Holding
    <2>2. Loses(job[p], Stored(base[p].balance))
      BY <1>4, <2>1 DEF SettleLoss, Loses, LedgerInv, LockOK, Held, Opened
    <2>3. Stored(base[p].balance) \in Cents \cup {NoMoney}
      BY <2>1 DEF Stored
    <2> QED
      BY <2>1, <2>2, <2>3 DEF CommitShape
  <1>5. CASE Settle(p)
    BY <1>5, MoveShape DEF Settle, Agent, Due
  <1> QED
    BY <1>1, <1>2, <1>3, <1>4, <1>5 DEF ProcessStep

LEMMA WorkerShape ==
    ASSUME LedgerInv, VerdictsOK, NEW v \in Worker,
           \/ ListPending(v) \/ LockToResolve(v) \/ ItemStep(v) \/ Crash(v)
           \/ \E r \in Request : RejectExpired(v, r) \/ LookReference(v, r) \/ SkipItem(v, r)
    PROVE  CommitShape
  <1>1. CASE \/ ListPending(v) \/ LockToResolve(v) \/ CheckPendingReversal(v) \/ FailItem(v)
             \/ Crash(v) \/ \E r \in Request : LookReference(v, r) \/ SkipItem(v, r)
    BY <1>1 DEF ListPending, LockToResolve, CheckPendingReversal, FailItem, Crash,
                LookReference, SkipItem, tables, CommitShape, Quiet
  <1>2. ASSUME NEW r \in Request, RejectExpired(v, r) PROVE CommitShape
    <2>1. Rejects(r, "REFERENCE_NOT_FOUND")
      BY <1>2 DEF RejectExpired, Rejects, Due, Listed, Unfunded
    <2> QED
      BY <2>1 DEF CommitShape, FailureCode
  <1>3. CASE Refuse(v)
    <2>1. job[v] \in Request /\ verdict[v] \in FailureCode /\ verdict[v] \notin Unfunded
      BY <1>3, WorkerJob DEF Refuse, LedgerInv, VerdictsOK
    <2>2. Rejects(job[v], verdict[v])
      BY <1>3, <2>1 DEF Refuse, Rejects, Due, Listed
    <2> QED
      BY <2>1, <2>2 DEF CommitShape
  <1>4. CASE RejectInTx(v)
    <2>1. /\ v \in Agent /\ Holding(v) /\ job[v] \in Request
          /\ body[job[v]].kind # "LOSS" /\ pc[v] # "idle"
      BY <1>4, WorkerJob, RequestType DEF RejectInTx, Holding, LedgerInv
    <2>2. Lacks(job[v])
      BY <1>4, <2>1, TrueRefusal DEF RejectInTx
    <2>3. Rejects(job[v], "ROLLBACK_INSUFFICIENT_FUNDS")
      BY <1>4, <2>1, <2>2 DEF RejectInTx, Rejects, Due, Listed, Unfunded
    <2> QED
      BY <2>1, <2>3 DEF CommitShape, FailureCode
  <1>5. CASE Resolve(v)
    <2>1. body[job[v]].kind # "LOSS" /\ v \in Agent /\ Due(job[v])
      BY <1>5, WorkerJob, RequestType DEF Resolve, LedgerInv, Due, Listed
    <2> QED
      BY <1>5, <2>1, MoveShape DEF Resolve
  <1> QED
    BY <1>1, <1>2, <1>3, <1>4, <1>5 DEF ItemStep

\* Every step is one of the commits, or leaves the rows alone.
LEMMA StepShape ==
    ASSUME LedgerInv, VerdictsOK, [Next]_vars
    PROVE  CommitShape
  <1>1. CASE \/ UNCHANGED vars \/ \E r \in Request : Age(r)
             \/ \E p \in Process, r \in Request : LockWallet(p, r)
    BY <1>1 DEF vars, tables, Age, LockWallet, CommitShape, Quiet
  <1>2. CASE \E w \in Wallet : CreateWallet(w)
    BY <1>2 DEF CommitShape
  <1> QED
    BY <1>1, <1>2, ProcessShape, WorkerShape DEF Next

-----------------------------------------------------------------------------
(* One key, one row; and refusals for lack of funds                        *)

\* What workers have on their lists or at hand is in the table.
ItemsExist ==
    \A v \in Worker :
        /\ \A r \in batch[v] \cup overdue[v] : Exists(r)
        /\ pc[v] # "idle" => Exists(job[v])

\* Such a code stands in a refused row only.
CodesOK == \A r \in Request : txn[r].code \in Unfunded => txn[r].status = "REJECTED"

RowInv == LedgerInv /\ VerdictsOK /\ ItemsExist /\ CodesOK /\ KeyNamesOneOperation

\* Where a worker's list, job and verdict come from, step by step.
WorkerSource(v) ==
    /\ batch'[v] \cup overdue'[v] \subseteq batch[v] \cup overdue[v] \cup Pending
    /\ \/ pc'[v] = "idle"
       \/ pc[v] # "idle" /\ job'[v] = job[v]
       \/ job'[v] \in batch[v]
    /\ \/ verdict'[v] = verdict[v]
       \/ verdict'[v] \in {"", "REFERENCE_NOT_PROCESSED", "REFERENCE_MISMATCH",
                           "REFERENCE_ALREADY_REVERSED"}

LEMMA WorkerSources ==
    ASSUME TypeInv, [Next]_vars, NEW v \in Worker
    PROVE  WorkerSource(v)
  <1> USE DEF TypeInv, LocalsTypeOK, WorkerSource
  <1>1. CASE UNCHANGED <<pc, job, verdict, batch, overdue>>
    BY <1>1
  <1>2. ASSUME NEW p \in Process, ProcessStep(p) \/ \E r \in Request : LockWallet(p, r)
        PROVE  WorkerSource(v)
    <2>1. UNCHANGED <<batch, overdue>>
      BY <1>2 DEF ProcessStep, CheckIdempotency, ReadReference, CheckReversal, SavePending,
                  Settle, RejectUnfunded, SettleLoss, Abort, LockWallet
    <2>2. p # v /\ p \in Agent /\ v \in Agent
      BY NameAssumption DEF Agent
    <2>3. pc'[v] = pc[v] /\ job'[v] = job[v] /\ verdict'[v] = verdict[v]
      BY <1>2, <2>2 DEF ProcessStep, CheckIdempotency, ReadReference, CheckReversal,
                  SavePending, Settle, RejectUnfunded, SettleLoss, Abort, LockWallet, EndTx
    <2> QED
      BY <2>1, <2>3
  <1>3. ASSUME NEW u \in Worker, EndTx(u), UNCHANGED <<batch, overdue>> PROVE WorkerSource(v)
    BY <1>3 DEF EndTx, Agent
  <1>4. ASSUME NEW u \in Worker, Crash(u) PROVE WorkerSource(v)
    BY <1>4 DEF Crash, EndTx, Agent
  <1>5. ASSUME NEW u \in Worker, ListPending(u) PROVE WorkerSource(v)
    BY <1>5 DEF ListPending, locals
  <1>6. ASSUME NEW u \in Worker, LockToResolve(u) \/ CheckPendingReversal(u)
        PROVE  WorkerSource(v)
    BY <1>6 DEF LockToResolve, CheckPendingReversal, Agent
  <1>7. ASSUME NEW u \in Worker, NEW r \in Request, RejectExpired(u, r) \/ SkipItem(u, r)
        PROVE  WorkerSource(v)
    BY <1>7 DEF RejectExpired, SkipItem, Handled, locals
  <1>8. ASSUME NEW u \in Worker, NEW r \in Request, LookReference(u, r)
        PROVE  WorkerSource(v)
    <2>1. batch'[v] \subseteq batch[v] /\ overdue'[v] \subseteq overdue[v]
      BY <1>8 DEF LookReference, Handled
    <2>2. \/ UNCHANGED <<pc, job, verdict>>
          \/ /\ \E t : pc' = [pc EXCEPT ![u] = t]
             /\ job' = [job EXCEPT ![u] = r] /\ r \in batch[u]
             /\ \/ verdict' = verdict
                \/ \E c \in {"REFERENCE_NOT_PROCESSED", "REFERENCE_MISMATCH"} :
                      verdict' = [verdict EXCEPT ![u] = c]
      BY <1>8 DEF LookReference
    <2> QED
      BY <2>1, <2>2 DEF Agent
  <1>9. ASSUME NEW u \in Worker, ItemStep(u) PROVE WorkerSource(v)
    <2>1. CASE Refuse(u) \/ Resolve(u) \/ RejectInTx(u) \/ FailItem(u)
      <3>1. EndTx(u) /\ UNCHANGED <<batch, overdue>>
        BY <2>1 DEF Refuse, Resolve, RejectInTx, FailItem
      <3> QED
        BY <1>3, <3>1
    <2> QED
      BY <1>6, <1>9, <2>1 DEF ItemStep
  <1>10. CASE \/ UNCHANGED vars \/ \E w \in Wallet : CreateWallet(w)
              \/ \E r \in Request : Age(r)
    BY <1>1, <1>10 DEF vars, locals, CreateWallet, Age
  <1> HIDE DEF TypeInv, LocalsTypeOK, WorkerSource
  <1> QED
    BY <1>2, <1>4, <1>5, <1>6, <1>7, <1>8, <1>9, <1>10 DEF Next

\* Rows without a failure code.
LEMMA PlainCodes ==
    /\ "" \notin Unfunded /\ NoRow.code = "" /\ NoRow.status = "ABSENT"
    /\ PendingRow.code = "" /\ PendingRow.status = "PENDING_REFERENCE"
    /\ \A n, x : ProcessedRow(n, x).code = "" /\ ProcessedRow(n, x).status = "PROCESSED"
  <1>1. "" \notin Unfunded
    BY DEF Unfunded
  <1>2. NoRow.code = "" /\ NoRow.status = "ABSENT"
    BY DEF NoRow
  <1>3. PendingRow.code = "" /\ PendingRow.status = "PENDING_REFERENCE"
    BY DEF PendingRow
  <1> QED
    BY <1>1, <1>2, <1>3 DEF ProcessedRow

\* The row of a request after a commit, and the others.
LEMMA StoredRow ==
    ASSUME TypeInv, NEW r \in Request, NEW row, Store(r, row)
    PROVE  txn'[r] = row /\ \A x \in Request \ {r} : txn'[x] = txn[x]
  BY RequestType DEF Store, TypeInv, TablesTypeOK

\* An opening is no request's row.
LEMMA OpeningRow ==
    ASSUME TypeInv, NEW w \in Wallet, CreateWallet(w)
    PROVE  \A x \in Request : txn'[x] = txn[x] /\ outbox'[x] = outbox[x]
  BY NameAssumption DEF CreateWallet, Store, Emit, TypeInv, TablesTypeOK, Row

\* At most one request's row changes, to one that exists; its code is one of
\* lack of funds only in a refusal that is true.
LEMMA OneRow ==
    ASSUME TypeInv, CommitShape
    PROVE  \/ \A x \in Request : txn'[x] = txn[x]
           \/ \E r \in Request :
                 /\ Due(r)
                 /\ \A x \in Request \ {r} : txn'[x] = txn[x]
                 /\ txn'[r].status # "ABSENT"
                 /\ txn'[r].code \in Unfunded =>
                       /\ txn'[r].status = "REJECTED"
                       /\ wallet[body[r].wallet].balance < body[r].cents
  <1>1. CASE Quiet \/ \E w \in Wallet : CreateWallet(w)
    BY <1>1, OpeningRow DEF Quiet
  <1>2. CASE \E r \in Request : Waits(r)
    <2>1. PICK r \in Request : Waits(r)
      BY <1>2
    <2>2. txn'[r] = PendingRow /\ \A x \in Request \ {r} : txn'[x] = txn[x]
      BY <2>1, StoredRow DEF Waits
    <2>3. txn'[r].status # "ABSENT" /\ txn'[r].code \notin Unfunded
      BY <2>2, PlainCodes
    <2>4. Due(r)
      BY <2>1 DEF Waits, Due
    <2> QED
      BY <2>2, <2>3, <2>4
  <1>3. CASE \E r \in Request, code \in FailureCode : Rejects(r, code)
    BY <1>3, StoredRow DEF Rejects, RejectedRow, Lacks
  <1>4. CASE \E r \in Request, n \in Cents \cup {NoMoney} : Loses(r, n)
    <2>1. PICK r \in Request, n \in Cents \cup {NoMoney} : Loses(r, n)
      BY <1>4
    <2>2. txn'[r] = ProcessedRow(n, Null) /\ \A x \in Request \ {r} : txn'[x] = txn[x]
      BY <2>1, StoredRow DEF Loses
    <2>3. txn'[r].status # "ABSENT" /\ txn'[r].code \notin Unfunded
      BY <2>2, PlainCodes
    <2>4. Due(r)
      BY <2>1 DEF Loses, Due
    <2> QED
      BY <2>2, <2>3, <2>4
  <1>5. CASE \E a \in Agent, e \in EntryType, n \in Cents \cup {NoMoney} :
                job[a] \in Request /\ Moves(a, e, n)
    <2>1. PICK a \in Agent, e \in EntryType, n \in Cents \cup {NoMoney} :
             job[a] \in Request /\ Moves(a, e, n)
      BY <1>5
    <2>2. /\ txn'[job[a]] = ProcessedRow(n, seen[a].row)
          /\ \A x \in Request \ {job[a]} : txn'[x] = txn[x]
      BY <2>1, StoredRow DEF Moves
    <2>3. txn'[job[a]].status # "ABSENT" /\ txn'[job[a]].code \notin Unfunded
      <3>1. /\ ProcessedRow(n, seen[a].row).code = ""
            /\ ProcessedRow(n, seen[a].row).status = "PROCESSED"
        BY PlainCodes
      <3> QED
        BY <2>2, <3>1, PlainCodes
    <2>4. Due(job[a]) /\ job[a] \in Request
      BY <2>1 DEF Moves
    <2> QED
      BY <2>2, <2>3, <2>4
  <1> QED
    BY <1>1, <1>2, <1>3, <1>4, <1>5 DEF CommitShape

LEMMA RowInit == Init => RowInv
  <1> SUFFICES ASSUME Init PROVE RowInv
    OBVIOUS
  <1>1. \A r \in Request : txn[r] = NoRow
    BY DEF Init, Row
  <1>2. VerdictsOK /\ ItemsExist
    BY PlainCodes DEF Init, VerdictsOK, ItemsExist, Agent
  <1>3. CodesOK
    BY <1>1, PlainCodes DEF CodesOK
  <1>4. KeyNamesOneOperation
    BY <1>1, PlainCodes DEF KeyNamesOneOperation, Exists
  <1> QED
    BY <1>2, <1>3, <1>4, LedgerInit DEF RowInv

LEMMA RowStep == RowInv /\ [Next]_vars => RowInv'
  <1> SUFFICES ASSUME RowInv, [Next]_vars PROVE RowInv'
    OBVIOUS
  <1>1. TypeInv /\ LedgerInv' /\ CommitShape /\ \A v \in Worker : WorkerSource(v)
    BY LedgerStep, StepShape, WorkerSources DEF RowInv, LedgerInv
  <1>2. \/ \A x \in Request : txn'[x] = txn[x]
        \/ \E r \in Request :
              /\ Due(r)
              /\ \A x \in Request \ {r} : txn'[x] = txn[x]
              /\ txn'[r].status # "ABSENT"
              /\ txn'[r].code \in Unfunded => txn'[r].status = "REJECTED"
    BY <1>1, OneRow
  <1>3. VerdictsOK'
    BY <1>1 DEF RowInv, VerdictsOK, WorkerSource, Unfunded
  <1>4. \A x \in Request : Exists(x) => Exists(x)'
    BY <1>2 DEF Exists
  <1>5. ItemsExist'
    <2>1. \A v \in Worker : /\ batch[v] \cup overdue[v] \subseteq Request
                            /\ pc[v] # "idle" => job[v] \in Request
      BY WorkerJob, <1>1 DEF TypeInv, LocalsTypeOK
    <2>2. \A x \in Pending : x \in Request /\ Exists(x)
      BY DEF Pending, Exists
    <2> QED
      BY <1>1, <1>4, <2>1, <2>2 DEF RowInv, ItemsExist, WorkerSource
  <1>6. CodesOK'
    BY <1>2 DEF RowInv, CodesOK
  <1>7. KeyNamesOneOperation'
    <2>1. \A r \in Request : Due(r) => Duplicates(r) = {} \/ Exists(r)
      BY DEF RowInv, ItemsExist, Due, Listed
    <2>2. \A r, x \in Request : Duplicates(r) = {} /\ Exists(x) => ~ SameKey(x, r)
      BY DEF Duplicates
    <2>3. \A x, y \in Request : SameKey(x, y)' <=> SameKey(x, y)
      BY DEF SameKey
    <2>4. \A x, y \in Request : SameKey(x, y) => SameKey(y, x)
      BY DEF SameKey
    <2> QED
      BY <1>2, <2>1, <2>2, <2>3, <2>4 DEF RowInv, KeyNamesOneOperation, Exists
  <1> QED
    BY <1>1, <1>3, <1>5, <1>6, <1>7 DEF RowInv

\* The unique key makes one request of those that share it, whichever wallets
\* they name and however many replicas serve them at once.
THEOREM KeysAreUnique == Spec => []KeyNamesOneOperation
  <1>1. RowInv => KeyNamesOneOperation
    BY DEF RowInv
  <1> QED
    BY <1>1, RowInit, RowStep, PTL DEF Spec

\* The lock makes a refusal for lack of funds true when it commits, on either
\* path, however many agents move the wallet.
THEOREM RefusalsAreTrue == Spec => UnfundedIsTrue
  <1> DEFINE Step == \A r \in Request :
                /\ txn[r].status # "REJECTED"
                /\ txn'[r].code \in {"INSUFFICIENT_FUNDS", "ROLLBACK_INSUFFICIENT_FUNDS"}
                => wallet[body[r].wallet].balance < body[r].cents
  <1>1. RowInv /\ [Next]_vars => [Step]_vars
    <2> SUFFICES ASSUME RowInv, [Next]_vars, NEW r \in Request, txn[r].status # "REJECTED",
                        txn'[r].code \in Unfunded
                 PROVE  wallet[body[r].wallet].balance < body[r].cents
      BY DEF Unfunded
    <2>1. CommitShape /\ TypeInv
      BY StepShape DEF RowInv, LedgerInv
    <2>2. txn'[r] # txn[r]
      BY DEF RowInv, CodesOK
    <2> QED
      BY <2>1, <2>2, OneRow
  <1> QED
    BY <1>1, RowInit, RowStep, PTL DEF Spec, UnfundedIsTrue

-----------------------------------------------------------------------------
(* One worker: an outcome is final                                         *)

\* The replicas that are run together have one pending-reference worker.
OneWorker == \A u, v \in Worker : u = v

\* What the worker has on its list or at hand still waits.
PendingOK ==
    \A v \in Worker :
        /\ overdue[v] \subseteq batch[v]
        /\ \A r \in batch[v] : txn[r].status = "PENDING_REFERENCE"
        /\ pc[v] # "idle" => /\ txn[job[v]].status = "PENDING_REFERENCE"
                             /\ job[v] \notin batch[v]

FinalInv == RowInv /\ PendingOK

\* The rows a step may write: those of new requests and waiting ones.
LEMMA DueUndecided ==
    ASSUME PendingOK, NEW r \in Request, Due(r)
    PROVE  txn[r].status \in {"ABSENT", "PENDING_REFERENCE"}
  <1>1. CASE Duplicates(r) = {}
    BY <1>1 DEF Duplicates, Exists
  <1>2. CASE \E v \in Worker : r \in overdue[v] \/ (pc[v] # "idle" /\ job[v] = r)
    BY <1>2 DEF PendingOK
  <1> QED
    BY <1>1, <1>2 DEF Due, Listed

\* A process leaves the worker's variables alone, and the rows that are there.
LEMMA ProcessLeaves ==
    ASSUME RowInv, NEW p \in Process, ProcessStep(p) \/ \E r \in Request : LockWallet(p, r)
    PROVE  /\ UNCHANGED <<batch, overdue>>
           /\ \A v \in Worker : pc'[v] = pc[v] /\ job'[v] = job[v]
           /\ \A x \in Request : Exists(x) => txn'[x] = txn[x]
  <1> USE DEF RowInv, LedgerInv, TypeInv
  <1>1. UNCHANGED <<batch, overdue>>
    BY DEF ProcessStep, CheckIdempotency, ReadReference, CheckReversal, SavePending,
           Settle, RejectUnfunded, SettleLoss, Abort, LockWallet
  <1>2. \A v \in Worker : p # v /\ p \in Agent /\ v \in Agent
    BY NameAssumption DEF Agent
  <1>3. \A v \in Worker : pc'[v] = pc[v] /\ job'[v] = job[v]
    BY <1>2 DEF ProcessStep, CheckIdempotency, ReadReference, CheckReversal, LocalsTypeOK,
                SavePending, Settle, RejectUnfunded, SettleLoss, Abort, LockWallet, EndTx
  <1>4. \A x \in Request : Exists(x) => txn'[x] = txn[x]
    <2>1. \A r \in Request : Duplicates(r) = {} => ~ Exists(r)
      BY DEF Duplicates
    <2>2. \/ txn' = txn
          \/ \E row : job[p] \in Request /\ Store(job[p], row) /\ Duplicates(job[p]) = {}
      BY ProcessJob
      DEF ProcessStep, CheckIdempotency, ReadReference, CheckReversal, SavePending,
          Settle, RejectUnfunded, SettleLoss, Abort, LockWallet, tables
    <2> QED
      BY <2>1, <2>2, StoredRow
  <1> QED
    BY <1>1, <1>3, <1>4

LEMMA FinalInit == Init => FinalInv
  BY RowInit DEF FinalInv, PendingOK, Init, Agent

LEMMA WorkerPending ==
    ASSUME OneWorker, FinalInv, NEW v \in Worker,
           \/ ListPending(v) \/ LockToResolve(v) \/ ItemStep(v) \/ Crash(v)
           \/ \E r \in Request : RejectExpired(v, r) \/ LookReference(v, r) \/ SkipItem(v, r)
    PROVE  PendingOK'
  <1> SUFFICES /\ overdue'[v] \subseteq batch'[v]
               /\ \A r \in batch'[v] : txn'[r].status = "PENDING_REFERENCE"
               /\ pc'[v] # "idle" => /\ txn'[job'[v]].status = "PENDING_REFERENCE"
                                     /\ job'[v] \notin batch'[v]
    BY DEF OneWorker, PendingOK
  <1>1. /\ overdue[v] \subseteq batch[v] /\ batch[v] \subseteq Request /\ v \in Agent
        /\ \A r \in batch[v] : txn[r].status = "PENDING_REFERENCE"
        /\ pc[v] # "idle" => /\ txn[job[v]].status = "PENDING_REFERENCE"
                             /\ job[v] \notin batch[v] /\ job[v] \in Request
    BY WorkerJob DEF FinalInv, RowInv, LedgerInv, TypeInv, LocalsTypeOK, PendingOK, Agent
  <1>2. /\ batch \in [Worker -> SUBSET Request] /\ overdue \in [Worker -> SUBSET Request]
        /\ \A t : pc' = [pc EXCEPT ![v] = t] => pc'[v] = t
        /\ \A t : job' = [job EXCEPT ![v] = t] => job'[v] = t
        /\ \A r \in Request : \A row : Store(r, row) =>
              \A x \in Request \ {r} : txn'[x] = txn[x]
    BY <1>1, StoredRow DEF FinalInv, RowInv, LedgerInv, TypeInv, LocalsTypeOK
  <1>3. CASE ListPending(v)
    <2>1. UNCHANGED <<txn, pc, job>> /\ pc[v] = "idle" /\ overdue'[v] \subseteq batch'[v]
          /\ batch'[v] \subseteq Pending
      BY <1>2, <1>3 DEF ListPending, tables, locals
    <2> QED
      BY <2>1 DEF Pending
  <1>4. CASE LockToResolve(v) \/ CheckPendingReversal(v)
    BY <1>1, <1>4 DEF LockToResolve, CheckPendingReversal, tables
  <1>5. CASE Refuse(v) \/ RejectInTx(v) \/ Resolve(v)
    <2>1. /\ pc'[v] = "idle" /\ UNCHANGED <<batch, overdue>> /\ pc[v] # "idle"
          /\ \E row : Store(job[v], row)
      BY <1>2, <1>5 DEF Refuse, RejectInTx, Resolve, EndTx
    <2> QED
      BY <1>1, <1>2, <2>1
  <1>6. CASE FailItem(v) \/ Crash(v)
    <2>1. /\ pc'[v] = "idle" /\ txn' = txn
          /\ batch'[v] \in {batch[v], {}} /\ overdue'[v] \in {overdue[v], {}}
          /\ batch'[v] = {} => overdue'[v] = {}
      BY <1>1, <1>2, <1>6 DEF FailItem, Crash, EndTx, tables
    <2> QED
      BY <1>1, <2>1
  <1>7. ASSUME NEW r \in Request, RejectExpired(v, r) \/ LookReference(v, r) \/ SkipItem(v, r)
        PROVE  /\ overdue'[v] \subseteq batch'[v]
               /\ \A x \in batch'[v] : txn'[x].status = "PENDING_REFERENCE"
               /\ pc'[v] # "idle" => /\ txn'[job'[v]].status = "PENDING_REFERENCE"
                                     /\ job'[v] \notin batch'[v]
    <2>1. /\ batch'[v] = batch[v] \ {r} /\ overdue'[v] = overdue[v] \ {r} /\ r \in batch[v]
          /\ pc[v] = "idle"
      BY <1>1, <1>2, <1>7 DEF RejectExpired, LookReference, SkipItem, Handled
    <2>2. \/ UNCHANGED <<pc, job>> /\ (txn' = txn \/ \E row : Store(r, row))
          \/ txn' = txn /\ job'[v] = r
      BY <1>2, <1>7 DEF RejectExpired, LookReference, SkipItem, tables, locals
    <2> QED
      BY <1>1, <1>2, <2>1, <2>2
  <1> QED
    BY <1>3, <1>4, <1>5, <1>6, <1>7 DEF ItemStep

\* A step of somebody else.
LEMMA LeavesPending ==
    ASSUME FinalInv, UNCHANGED <<batch, overdue>>,
           \A v \in Worker : pc'[v] = pc[v] /\ job'[v] = job[v],
           \A x \in Request : Exists(x) => txn'[x] = txn[x]
    PROVE  PendingOK'
  <1> SUFFICES ASSUME NEW v \in Worker
               PROVE  /\ overdue[v] \subseteq batch[v]
                      /\ \A r \in batch[v] : txn'[r].status = "PENDING_REFERENCE"
                      /\ pc[v] # "idle" => /\ txn'[job[v]].status = "PENDING_REFERENCE"
                                           /\ job[v] \notin batch[v]
    BY DEF PendingOK
  <1>1. batch[v] \subseteq Request /\ (pc[v] # "idle" => job[v] \in Request)
    BY WorkerJob DEF FinalInv, RowInv, LedgerInv, TypeInv, LocalsTypeOK
  <1>2. \A x \in Request : txn[x].status = "PENDING_REFERENCE" => txn'[x] = txn[x]
    BY DEF Exists
  <1> QED
    BY <1>1, <1>2 DEF FinalInv, PendingOK

LEMMA FinalStep ==
    ASSUME OneWorker, FinalInv, [Next]_vars
    PROVE  FinalInv'
  <1>1. RowInv'
    BY RowStep DEF FinalInv
  <1>2. /\ UNCHANGED <<batch, overdue>>
        /\ \A v \in Worker : pc'[v] = pc[v] /\ job'[v] = job[v]
        /\ \A x \in Request : Exists(x) => txn'[x] = txn[x]
        => PendingOK'
    BY LeavesPending
  <1>3. CASE \E p \in Process : ProcessStep(p) \/ \E r \in Request : LockWallet(p, r)
    <2>1. PICK p \in Process : ProcessStep(p) \/ \E r \in Request : LockWallet(p, r)
      BY <1>3
    <2> QED
      BY <1>1, <1>2, <2>1, ProcessLeaves DEF FinalInv
  <1>4. CASE \E w \in Wallet : CreateWallet(w)
    <2>1. PICK w \in Wallet : CreateWallet(w)
      BY <1>4
    <2>2. UNCHANGED <<batch, overdue, pc, job>>
      BY <2>1 DEF CreateWallet, locals
    <2>3. \A x \in Request : Exists(x) => txn'[x] = txn[x]
      BY <2>1, OpeningRow DEF FinalInv, RowInv, LedgerInv
    <2> QED
      BY <1>1, <1>2, <2>2, <2>3 DEF FinalInv
  <1>5. CASE UNCHANGED vars \/ \E r \in Request : Age(r)
    <2>1. UNCHANGED <<batch, overdue, pc, job, txn>>
      BY <1>5 DEF vars, Age, locals, tables
    <2> QED
      BY <1>1, <1>2, <2>1 DEF FinalInv
  <1>6. CASE \E v \in Worker :
               \/ ListPending(v) \/ LockToResolve(v) \/ ItemStep(v) \/ Crash(v)
               \/ \E r \in Request : RejectExpired(v, r) \/ LookReference(v, r) \/ SkipItem(v, r)
    BY <1>1, <1>6, WorkerPending DEF FinalInv
  <1> QED
    BY <1>3, <1>4, <1>5, <1>6 DEF Next

\* With one worker an outcome, once stored, never changes.
LEMMA OutcomeStays ==
    ASSUME FinalInv, [Next]_vars, NEW r \in Request, txn[r].status \in Terminal
    PROVE  txn'[r] = txn[r]
  <1>1. CommitShape /\ TypeInv
    BY StepShape DEF FinalInv, RowInv, LedgerInv
  <1>2. \A x \in Request : Due(x) => x # r
    BY DueUndecided DEF FinalInv, Terminal
  <1> QED
    BY <1>1, <1>2, OneRow

\* One worker in all, and no decided transaction is decided again: the requests
\* only insert, and the worker's list is stale to nobody but another worker.
THEOREM FinalWithOneWorker == OneWorker /\ Spec => TerminalIsFinal
  <1> SUFFICES ASSUME OneWorker PROVE Spec => TerminalIsFinal
    OBVIOUS
  <1>1. FinalInv /\ [Next]_vars =>
          [\A r \in Request : txn[r].status \in Terminal => txn'[r] = txn[r]]_vars
    BY OutcomeStays
  <1>2. FinalInv /\ [Next]_vars => FinalInv'
    BY FinalStep
  <1> QED
    BY <1>1, <1>2, FinalInit, PTL DEF Spec, TerminalIsFinal


-----------------------------------------------------------------------------
(* With one worker, what the tables say of one request agrees              *)

\* The entries of x are the same before and after.
SameEntries(x) ==
    LET w == body[x].wallet IN
    /\ EntriesOf(w, x)' = EntriesOf(w, x)
    /\ \A i \in EntriesOf(w, x) : ledger'[w][i] = ledger[w][i]

\* An entry at the end of a ledger is one more of its request's.
LEMMA AppendEntries ==
    ASSUME NEW w \in Wallet, NEW e \in EntryType, ledger \in [Wallet -> Seq(EntryType)],
           ledger' = [ledger EXCEPT ![w] = Append(@, e)]
    PROVE  /\ \A u \in Wallet \ {w} : ledger'[u] = ledger[u]
           /\ Len(ledger[w]) \in Nat
           /\ DOMAIN ledger[w] = 1..Len(ledger[w])
           /\ DOMAIN ledger'[w] = 1..(Len(ledger[w]) + 1)
           /\ ledger'[w][Len(ledger[w]) + 1] = e
           /\ \A i \in DOMAIN ledger[w] : ledger'[w][i] = ledger[w][i]
  <1>1. PICK l \in Seq(EntryType) : l = ledger[w]
    OBVIOUS
  <1>2. ledger'[w] = Append(l, e) /\ \A u \in Wallet \ {w} : ledger'[u] = ledger[u]
    BY <1>1
  <1>3. /\ Len(l) \in Nat /\ DOMAIN l = 1..Len(l) /\ DOMAIN Append(l, e) = 1..(Len(l) + 1)
        /\ Append(l, e)[Len(l) + 1] = e /\ \A i \in 1..Len(l) : Append(l, e)[i] = l[i]
    BY AppendProperties, LenProperties
  <1> QED
    BY <1>1, <1>2, <1>3

\* The entries after a movement of the request r.
LEMMA MovedEntries ==
    ASSUME TypeInv, NEW r \in Request, NEW e \in EntryType, e.txn = r,
           ledger' = [ledger EXCEPT ![body[r].wallet] = Append(@, e)]
    PROVE  LET w == body[r].wallet
               last == Len(ledger[w]) + 1
           IN  /\ EntriesOf(w, r)' = EntriesOf(w, r) \cup {last}
               /\ ledger'[w][last] = e
               /\ \A i \in EntriesOf(w, r) : ledger'[w][i] = ledger[w][i]
               /\ \A x \in Request \ {r} : SameEntries(x)
  <1>1. PICK w \in Wallet : w = body[r].wallet
    BY BodyAssumption
  <1>2. PICK n \in Nat : n = Len(ledger[w]) + 1
    BY <1>1, LenProperties DEF TypeInv, TablesTypeOK
  <1>3. /\ \A u \in Wallet \ {w} : ledger'[u] = ledger[u]
        /\ Len(ledger[w]) \in Nat
        /\ DOMAIN ledger[w] = 1..Len(ledger[w]) /\ DOMAIN ledger'[w] = 1..n
        /\ ledger'[w][n] = e
        /\ \A i \in DOMAIN ledger[w] : ledger'[w][i] = ledger[w][i]
    BY <1>1, <1>2, AppendEntries DEF TypeInv, TablesTypeOK
  <1>4. DOMAIN ledger'[w] = DOMAIN ledger[w] \cup {n}
    BY <1>2, <1>3
  <1>5. EntriesOf(w, r)' = EntriesOf(w, r) \cup {n}
    BY <1>3, <1>4 DEF EntriesOf
  <1>6. ASSUME NEW x \in Request \ {r} PROVE SameEntries(x)
    <2>1. body[x].wallet \in Wallet
      BY BodyAssumption
    <2>2. CASE body[x].wallet # w
      BY <1>3, <2>1, <2>2 DEF SameEntries, EntriesOf
    <2>3. CASE body[x].wallet = w
      BY <1>3, <1>4, <2>3 DEF SameEntries, EntriesOf
    <2> QED
      BY <2>2, <2>3
  <1> QED
    BY <1>1, <1>2, <1>3, <1>5, <1>6 DEF EntriesOf

\* The entries after an opening: requests have the ones they had.
LEMMA OpenedEntries ==
    ASSUME LedgerInv, NEW w \in Wallet, CreateWallet(w)
    PROVE  \A x \in Request : SameEntries(x)
  <1>1. ledger[w] = <<>> /\ ledger \in [Wallet -> Seq(EntryType)]
    BY DEF CreateWallet, LedgerInv, LedgerOK, Rebuilds, TypeInv, TablesTypeOK
  <1>2. \A u \in Wallet \ {w} : ledger'[u] = ledger[u]
    BY <1>1 DEF CreateWallet
  <1>3. ledger'[w] = ledger[w] \/ \E e : ledger'[w] = <<e>> /\ e.txn = w
    BY <1>1 DEF CreateWallet, Entry
  <1>4. w \notin Request
    BY NameAssumption
  <1> SUFFICES ASSUME NEW x \in Request PROVE SameEntries(x)
    OBVIOUS
  <1>5. CASE body[x].wallet # w
    <2>1. ledger'[body[x].wallet] = ledger[body[x].wallet]
      BY <1>2, <1>5, BodyAssumption
    <2> QED
      BY <2>1 DEF SameEntries, EntriesOf
  <1>6. CASE body[x].wallet = w
    <2>1. EntriesOf(w, x) = {}
      BY <1>1 DEF EntriesOf
    <2>2. EntriesOf(w, x)' = {}
      BY <1>1, <1>3, <1>4 DEF EntriesOf
    <2> QED
      BY <1>6, <2>1, <2>2 DEF SameEntries
  <1> QED
    BY <1>5, <1>6

\* LedgerMatchesOutcome, for one request.
Settled(r) ==
    LET w == body[r].wallet IN
    /\ EntriesOf(w, r) # {} <=> txn[r].status = "PROCESSED" /\ body[r].kind # "LOSS"
    /\ \A i \in EntriesOf(w, r) :
          /\ ledger[w][i].cents = body[r].cents
          /\ ledger[w][i].direction = Direction(r, txn[r].resolved)
          /\ txn[r].after \in {ledger[w][i].after, NoMoney}

\* A request keeps agreeing with its entries while neither changes, and while
\* a row without entries is written that is to have none.
LEMMA SettledStays ==
    ASSUME NEW r \in Request, Settled(r), SameEntries(r),
           \/ txn'[r] = txn[r]
           \/ /\ txn[r].status # "PROCESSED"
              /\ txn'[r].status # "PROCESSED" \/ body[r].kind = "LOSS"
    PROVE  Settled(r)'
  <1>1. CASE txn'[r] = txn[r]
    BY <1>1 DEF Settled, SameEntries, Direction
  <1>2. CASE /\ txn[r].status # "PROCESSED"
             /\ txn'[r].status # "PROCESSED" \/ body[r].kind = "LOSS"
    <2>1. EntriesOf(body[r].wallet, r) = {} /\ EntriesOf(body[r].wallet, r)' = {}
      BY <1>2 DEF Settled, SameEntries
    <2> QED
      BY <1>2, <2>1 DEF Settled
  <1> QED
    BY <1>1, <1>2

LEMMA ProcessedFields ==
    \A n, x : /\ ProcessedRow(n, x).status = "PROCESSED"
              /\ ProcessedRow(n, x).after = n /\ ProcessedRow(n, x).resolved = x
  BY DEF ProcessedRow

\* The movement of a request that had no entry.
LEMMA SettledMove ==
    ASSUME TypeInv, PendingOK, NEW a \in Agent, NEW e \in EntryType,
           NEW n \in Cents \cup {NoMoney}, NEW r \in Request, r = job[a], Moves(a, e, n),
           Settled(r)
    PROVE  Settled(r)'
  <1>1. PICK w \in Wallet : w = body[r].wallet
    BY BodyAssumption
  <1>2. txn[r].status # "PROCESSED" /\ body[r].kind # "LOSS"
    BY DueUndecided DEF Moves
  <1>3. EntriesOf(w, r) = {}
    BY <1>1, <1>2 DEF Settled
  <1>4. PICK last : EntriesOf(w, r)' = {last} /\ ledger'[w][last] = e
    <2>1. ledger' = [ledger EXCEPT ![body[r].wallet] = Append(@, e)] /\ e.txn = r
      BY DEF Moves
    <2>2. LET v == body[r].wallet
              n1 == Len(ledger[v]) + 1
          IN  EntriesOf(v, r)' = EntriesOf(v, r) \cup {n1} /\ ledger'[v][n1] = e
      BY <2>1, MovedEntries
    <2> QED
      BY <1>1, <1>3, <2>2
  <1>5. txn'[r] = ProcessedRow(n, seen[a].row)
    BY StoredRow DEF Moves
  <1>6. /\ e.cents = body[r].cents /\ e.direction = Direction(r, seen[a].row)
        /\ n \in {e.after, NoMoney}
    BY DEF Moves
  <1>7. /\ txn'[r].status = "PROCESSED" /\ txn'[r].resolved = seen[a].row
        /\ txn'[r].after = n
    BY <1>5, ProcessedFields
  <1> QED
    BY <1>1, <1>2, <1>4, <1>6, <1>7 DEF Settled, Direction

LEMMA SettledStep ==
    ASSUME FinalInv, [Next]_vars, LedgerMatchesOutcome
    PROVE  LedgerMatchesOutcome'
  <1>1. CommitShape /\ TypeInv /\ LedgerInv /\ PendingOK
    BY StepShape DEF FinalInv, RowInv, LedgerInv
  <1>2. \A r \in Request : Settled(r)
    BY DEF LedgerMatchesOutcome, Settled
  <1>3. ledger' = ledger => \A r \in Request : SameEntries(r)
    BY DEF SameEntries, EntriesOf
  <1>4. \A r \in Request : Due(r) => txn[r].status # "PROCESSED"
    BY <1>1, DueUndecided
  <1>5. CASE Quiet \/ \E w \in Wallet : CreateWallet(w)
    <2>1. \A r \in Request : txn'[r] = txn[r] /\ SameEntries(r)
      BY <1>1, <1>3, <1>5, OpeningRow, OpenedEntries DEF Quiet
    <2>2. \A r \in Request : Settled(r)'
      BY <1>2, <2>1, SettledStays
    <2> QED
      BY <2>2 DEF LedgerMatchesOutcome, Settled
  <1>6. ASSUME NEW r \in Request, NEW row, Store(r, row), ledger' = ledger, Due(r),
               row.status # "PROCESSED" \/ body[r].kind = "LOSS"
        PROVE  LedgerMatchesOutcome'
    <2>1. txn'[r] = row /\ \A x \in Request \ {r} : txn'[x] = txn[x]
      BY <1>1, <1>6, StoredRow
    <2>2. \A x \in Request : Settled(x)'
      BY <1>2, <1>3, <1>4, <1>6, <2>1, SettledStays
    <2> QED
      BY <2>2 DEF LedgerMatchesOutcome, Settled
  <1>7. CASE \E r \in Request : Waits(r)
    BY <1>6, <1>7, PlainCodes DEF Waits, Due
  <1>8. CASE \E r \in Request, code \in FailureCode : Rejects(r, code)
    <2>1. \A code : RejectedRow(code).status # "PROCESSED"
      BY DEF RejectedRow
    <2> QED
      BY <1>6, <1>8, <2>1 DEF Rejects
  <1>9. CASE \E r \in Request, n \in Cents \cup {NoMoney} : Loses(r, n)
    BY <1>6, <1>9 DEF Loses, Due
  <1>10. ASSUME NEW a \in Agent, NEW e \in EntryType, NEW n \in Cents \cup {NoMoney},
                job[a] \in Request, Moves(a, e, n)
         PROVE  LedgerMatchesOutcome'
    <2>1. PICK r \in Request : r = job[a]
      BY <1>10
    <2>2. \A x \in Request \ {r} : SameEntries(x) /\ txn'[x] = txn[x]
      <3>1. /\ ledger' = [ledger EXCEPT ![body[job[a]].wallet] = Append(@, e)]
            /\ e.txn = job[a] /\ Store(job[a], ProcessedRow(n, seen[a].row))
        BY <1>10 DEF Moves
      <3>2. \A x \in Request \ {r} : SameEntries(x)
        BY <1>1, <2>1, <3>1, MovedEntries
      <3> QED
        BY <1>1, <2>1, <3>1, <3>2, StoredRow
    <2>3. Settled(r)'
      BY <1>1, <1>2, <1>10, <2>1, SettledMove
    <2>4. \A x \in Request \ {r} : Settled(x)'
      BY <1>2, <2>2, SettledStays
    <2> QED
      BY <2>3, <2>4 DEF LedgerMatchesOutcome, Settled
  <1> QED
    BY <1>1, <1>5, <1>7, <1>8, <1>9, <1>10 DEF CommitShape

\* Two successful reversals of one reference are the same.
OneReversal ==
    \A x, y \in Request :
        /\ txn[x].status = "PROCESSED" /\ txn[y].status = "PROCESSED"
        /\ body[x].kind \in Reversal /\ IsReversalOf(y, body[x].ref)
        => x = y

\* A row that becomes PROCESSED for a reversal passed the partial index.
LEMMA ProcessedSource ==
    ASSUME TypeInv, CommitShape
    PROVE  \/ \A x \in Request : txn'[x].status = "PROCESSED" /\ body[x].kind \in Reversal =>
                                     txn[x].status = "PROCESSED"
           \/ \E r \in Request : /\ ReversalIndexFree(r)
                                 /\ \A x \in Request \ {r} : txn'[x] = txn[x]
  <1>1. CASE Quiet \/ \E w \in Wallet : CreateWallet(w)
    BY <1>1, OpeningRow DEF Quiet
  <1>2. ASSUME NEW r \in Request, NEW row, Store(r, row),
               row.status # "PROCESSED" \/ body[r].kind = "LOSS"
        PROVE  \A x \in Request : txn'[x].status = "PROCESSED" /\ body[x].kind \in Reversal =>
                                      txn[x].status = "PROCESSED"
    BY <1>2, StoredRow DEF Reversal
  <1>3. CASE \E r \in Request : Waits(r)
    BY <1>2, <1>3, PlainCodes DEF Waits
  <1>4. CASE \E r \in Request, code \in FailureCode : Rejects(r, code)
    <2>1. \A code : RejectedRow(code).status # "PROCESSED"
      BY DEF RejectedRow
    <2> QED
      BY <1>2, <1>4, <2>1 DEF Rejects
  <1>5. CASE \E r \in Request, n \in Cents \cup {NoMoney} : Loses(r, n)
    BY <1>2, <1>5 DEF Loses
  <1>6. ASSUME NEW a \in Agent, NEW e \in EntryType, NEW n \in Cents \cup {NoMoney},
               job[a] \in Request, Moves(a, e, n)
        PROVE  \E r \in Request : /\ ReversalIndexFree(r)
                                  /\ \A x \in Request \ {r} : txn'[x] = txn[x]
    BY <1>6, StoredRow DEF Moves
  <1> QED
    BY <1>1, <1>3, <1>4, <1>5, <1>6 DEF CommitShape

LEMMA OneReversalStep ==
    ASSUME TypeInv, CommitShape, OneReversal
    PROVE  OneReversal'
  <1> SUFFICES ASSUME NEW x \in Request, NEW y \in Request,
                      txn'[x].status = "PROCESSED", txn'[y].status = "PROCESSED",
                      body[x].kind \in Reversal, IsReversalOf(y, body[x].ref)
               PROVE  x = y
    BY DEF OneReversal, IsReversalOf
  <1>1. CASE \A z \in Request : txn'[z].status = "PROCESSED" /\ body[z].kind \in Reversal =>
                                    txn[z].status = "PROCESSED"
    BY <1>1 DEF OneReversal, IsReversalOf
  <1>2. ASSUME NEW r \in Request, ReversalIndexFree(r),
               \A z \in Request \ {r} : txn'[z] = txn[z]
        PROVE  x = y
    BY <1>2 DEF OneReversal, IsReversalOf, ReversalIndexFree
  <1> QED
    BY <1>1, <1>2, ProcessedSource

\* What the outbox holds for a request follows from its row.
EventsOK ==
    \A r \in Request :
        LET n == outbox[r]
            one(b) == IF b THEN 1 ELSE 0
        IN
        /\ n["WagerTransactionProcessed"] = one(txn[r].status = "PROCESSED")
        /\ n["WagerTransactionRejected"] = one(txn[r].status = "REJECTED")
        /\ n["WalletBalanceChanged"] =
              one(txn[r].status = "PROCESSED" /\ body[r].kind # "LOSS")
        /\ n["WagerTransactionPendingReference"] <= 1
        /\ txn[r].status = "ABSENT" => n["WagerTransactionPendingReference"] = 0
        /\ txn[r].status = "PENDING_REFERENCE" =>
              n["WagerTransactionPendingReference"] = 1

\* The counts of a request's events after a commit.
LEMMA Emitted ==
    ASSUME TypeInv, NEW r \in Request, NEW types, Emit(r, types)
    PROVE  /\ \A t \in EventType :
                 outbox'[r][t] = outbox[r][t] + IF t \in types THEN 1 ELSE 0
           /\ \A x \in Request \ {r} : outbox'[x] = outbox[x]
           /\ \A t \in EventType : outbox[r][t] \in Nat
  BY RequestType DEF Emit, TypeInv, TablesTypeOK

LEMMA EventsStep ==
    ASSUME TypeInv, PendingOK, CommitShape, EventsOK
    PROVE  EventsOK'
  <1>1. CASE Quiet \/ \E w \in Wallet : CreateWallet(w)
    BY <1>1, OpeningRow DEF Quiet, EventsOK
  <1>2. CASE \E r \in Request : Waits(r)
    <2>1. PICK r \in Request : Waits(r)
      BY <1>2
    <2>2. txn[r].status = "ABSENT"
      BY <2>1 DEF Waits, Duplicates, Exists
    <2>3. txn'[r].status = "PENDING_REFERENCE" /\ \A x \in Request \ {r} : txn'[x] = txn[x]
      BY <2>1, StoredRow, PlainCodes DEF Waits
    <2> QED
      BY <2>1, <2>2, <2>3, Emitted DEF Waits, EventsOK, EventType
  <1>3. CASE \E r \in Request, code \in FailureCode : Rejects(r, code)
    <2>1. PICK r \in Request, code \in FailureCode : Rejects(r, code)
      BY <1>3
    <2>2. txn[r].status \in {"ABSENT", "PENDING_REFERENCE"}
      BY <2>1, DueUndecided DEF Rejects
    <2>3. RejectedRow(code).status = "REJECTED"
      BY DEF RejectedRow
    <2>4. txn'[r].status = "REJECTED" /\ \A x \in Request \ {r} : txn'[x] = txn[x]
      BY <2>1, <2>3, StoredRow DEF Rejects
    <2> QED
      BY <2>1, <2>2, <2>4, Emitted DEF Rejects, EventsOK, EventType
  <1>4. CASE \E r \in Request, n \in Cents \cup {NoMoney} : Loses(r, n)
    <2>1. PICK r \in Request, n \in Cents \cup {NoMoney} : Loses(r, n)
      BY <1>4
    <2>2. txn[r].status = "ABSENT"
      BY <2>1 DEF Loses, Duplicates, Exists
    <2>3. txn'[r].status = "PROCESSED" /\ \A x \in Request \ {r} : txn'[x] = txn[x]
      BY <2>1, StoredRow, ProcessedFields DEF Loses
    <2> QED
      BY <2>1, <2>2, <2>3, Emitted DEF Loses, EventsOK, EventType
  <1>5. CASE \E a \in Agent, e \in EntryType, n \in Cents \cup {NoMoney} :
                job[a] \in Request /\ Moves(a, e, n)
    <2>1. PICK a \in Agent, e \in EntryType, n \in Cents \cup {NoMoney} :
              job[a] \in Request /\ Moves(a, e, n)
      BY <1>5
    <2>2. PICK r \in Request : r = job[a]
      BY <2>1
    <2>3. txn[r].status \in {"ABSENT", "PENDING_REFERENCE"} /\ body[r].kind # "LOSS"
      BY <2>1, <2>2, DueUndecided DEF Moves
    <2>4. txn'[r].status = "PROCESSED" /\ \A x \in Request \ {r} : txn'[x] = txn[x]
      BY <2>1, <2>2, StoredRow, ProcessedFields DEF Moves
    <2>5. Emit(r, {"WagerTransactionProcessed", "WalletBalanceChanged"})
      BY <2>1, <2>2 DEF Moves
    <2> QED
      BY <2>3, <2>4, <2>5, Emitted DEF EventsOK, EventType
  <1> QED
    BY <1>1, <1>2, <1>3, <1>4, <1>5 DEF CommitShape

-----------------------------------------------------------------------------
(* What an agent saw of the reference still stands when it acts on it      *)

\* x may be the reference of r: it is PROCESSED and agrees with r.
Sighted(r, x) ==
    /\ x \in Request /\ txn[x].status = "PROCESSED"
    /\ Matches(r, x) /\ body[x].ext = body[r].ref

\* Agent a goes by the reference it saw.
Sees(a) ==
    \/ pc[a] \in {"matched", "compared", "resolve", "resolving"}
    \/ pc[a] = "cleared" /\ body[job[a]].kind \in Reversal

SightOK == \A a \in Agent : Sees(a) => Sighted(job[a], seen[a].row)

\* A worker refuses a reversal as the second one for a first one's sake.
Second(v) == pc[v] = "refuse" /\ verdict[v] = "REFERENCE_ALREADY_REVERSED"

VerdictTrue == \A v \in Worker : Second(v) => Reversed(job[v])

\* An agent that goes by a reference did so before, or has just read it; a
\* worker that refuses a second reversal did so before, or has just read the
\* first one.
Source(a) ==
    /\ Sees(a)' => \/ Sees(a) /\ job'[a] = job[a] /\ seen'[a] = seen[a]
                   \/ Sighted(job'[a], seen'[a].row) /\ txn' = txn
    /\ Second(a)' => \/ Second(a) /\ job'[a] = job[a]
                     \/ Reversed(job'[a]) /\ txn' = txn

LEMMA IdleSource ==
    ASSUME TypeInv, NEW a \in Agent, pc'[a] = "idle"
    PROVE  Source(a)
  BY DEF Source, Sees, Second

LEMMA StillSource ==
    ASSUME NEW a \in Agent, pc'[a] = pc[a], job'[a] = job[a], seen'[a] = seen[a],
           verdict'[a] = verdict[a]
    PROVE  Source(a)
  BY DEF Source, Sees, Second

\* The others are left alone by a process.
LEMMA ProcessSource ==
    ASSUME TypeInv, NEW p \in Process, ProcessStep(p) \/ \E r \in Request : LockWallet(p, r)
    PROVE  \A a \in Agent : Source(a)
  <1> USE DEF TypeInv, LocalsTypeOK
  <1>1. p \in Agent /\ p \notin Worker
    BY NameAssumption DEF Agent
  <1>2. ASSUME NEW a \in Agent \ {p} PROVE Source(a)
    <2>1. /\ pc'[a] = pc[a] /\ job'[a] = job[a] /\ seen'[a] = seen[a]
          /\ verdict'[a] = verdict[a]
      BY <1>1 DEF ProcessStep, CheckIdempotency, ReadReference, CheckReversal, SavePending,
                  Settle, RejectUnfunded, SettleLoss, Abort, LockWallet, EndTx
    <2> QED
      BY <2>1, StillSource
  <1>3. Source(p)
    <2>1. CASE SavePending(p) \/ Settle(p) \/ RejectUnfunded(p) \/ SettleLoss(p) \/ Abort(p)
      <3>1. pc'[p] = "idle"
        BY <1>1, <2>1 DEF SavePending, Settle, RejectUnfunded, SettleLoss, Abort, EndTx
      <3> QED
        BY <1>1, <3>1, IdleSource
    <2>2. CASE \E r \in Request : LockWallet(p, r)
      BY <1>1, <2>2 DEF LockWallet, Source, Sees, Second
    <2>3. CASE CheckIdempotency(p)
      BY <1>1, <2>3 DEF CheckIdempotency, Source, Sees, Second, EndTx
    <2>4. CASE CheckReversal(p)
      BY <1>1, <2>4 DEF CheckReversal, Source, Sees, Second, EndTx
    <2>5. CASE ReadReference(p)
      <3>1. \/ pc'[p] \in {"idle", "orphan"}
            \/ \E x \in References(job[p]) :
                  /\ txn[x].status = "PROCESSED" /\ Matches(job[p], x)
                  /\ pc'[p] = "matched" /\ job' = job /\ txn' = txn
                  /\ seen'[p].row = x
        <4>1. CASE References(job[p]) = {} /\ pc' = [pc EXCEPT ![p] = "orphan"]
          BY <1>1, <4>1
        <4>2. ASSUME NEW x \in References(job[p]),
                     txn[x].status = "PROCESSED" /\ Matches(job[p], x),
                     pc' = [pc EXCEPT ![p] = "matched"], job' = job, txn' = txn,
                     seen' = [seen EXCEPT ![p] = [row |-> x, status |-> txn[x].status]]
              PROVE  pc'[p] = "matched" /\ seen'[p].row = x
          BY <1>1, <4>2
        <4>3. EndTx(p) => pc'[p] = "idle"
          BY <1>1 DEF EndTx
        <4> QED
          BY <2>5, <4>1, <4>2, <4>3 DEF ReadReference, tables
      <3>2. CASE pc'[p] \in {"idle", "orphan"}
        BY <3>2 DEF Source, Sees, Second
      <3>3. ASSUME NEW x \in References(job[p]), txn[x].status = "PROCESSED",
                   Matches(job[p], x), pc'[p] = "matched", job' = job, txn' = txn,
                   seen'[p].row = x
            PROVE  Source(p)
        <4>1. Sighted(job'[p], seen'[p].row)
          BY <3>3 DEF Sighted, References
        <4> QED
          BY <3>3, <4>1 DEF Source, Second
      <3> QED
        BY <3>1, <3>2, <3>3
    <2> QED
      BY <2>1, <2>2, <2>3, <2>4, <2>5 DEF ProcessStep
  <1> QED
    BY <1>2, <1>3

LEMMA WorkerSees ==
    ASSUME TypeInv, NEW v \in Worker,
           \/ ListPending(v) \/ LockToResolve(v) \/ ItemStep(v) \/ Crash(v)
           \/ \E r \in Request : RejectExpired(v, r) \/ LookReference(v, r) \/ SkipItem(v, r)
    PROVE  \A a \in Agent : Source(a)
  <1> USE DEF TypeInv, LocalsTypeOK
  <1>1. v \in Agent
    BY DEF Agent
  <1>2. ASSUME NEW a \in Agent \ {v} PROVE Source(a)
    <2>1. /\ pc'[a] = pc[a] /\ job'[a] = job[a] /\ seen'[a] = seen[a]
          /\ verdict'[a] = verdict[a]
      BY <1>1 DEF ItemStep, CheckPendingReversal, Refuse, Resolve, RejectInTx, FailItem,
                  ListPending, LockToResolve, Crash, RejectExpired, LookReference, SkipItem,
                  EndTx, locals
    <2> QED
      BY <2>1, StillSource
  <1>3. Source(v)
    <2>1. CASE Refuse(v) \/ Resolve(v) \/ RejectInTx(v) \/ FailItem(v) \/ Crash(v)
      <3>1. pc'[v] = "idle"
        BY <1>1, <2>1 DEF Refuse, Resolve, RejectInTx, FailItem, Crash, EndTx
      <3> QED
        BY <1>1, <3>1, IdleSource
    <2>2. CASE ListPending(v) \/ \E r \in Request : RejectExpired(v, r) \/ SkipItem(v, r)
      BY <1>1, <2>2, StillSource DEF ListPending, RejectExpired, SkipItem, locals
    <2>3. CASE LockToResolve(v)
      BY <1>1, <2>3 DEF LockToResolve, Source, Sees, Second
    <2>4. CASE CheckPendingReversal(v)
      <3>1. job' = job /\ seen' = seen /\ txn' = txn /\ Sees(v)
        BY <2>4 DEF CheckPendingReversal, Sees, tables
      <3>2. Second(v)' => Reversed(job[v])
        BY <1>1, <2>4 DEF CheckPendingReversal, Second
      <3> QED
        BY <3>1, <3>2 DEF Source
    <2>5. ASSUME NEW r \in Request, LookReference(v, r) PROVE Source(v)
      <3>1. \/ pc'[v] = "idle"
            \/ pc'[v] = "refuse" /\ ~ Second(v)'
            \/ \E x \in References(r) :
                  /\ txn[x].status = "PROCESSED" /\ Matches(r, x)
                  /\ pc'[v] = "compared" /\ job'[v] = r /\ txn' = txn
                  /\ seen'[v].row = x
        BY <1>1, <2>5 DEF LookReference, Second, tables
      <3>2. CASE pc'[v] = "idle" \/ (pc'[v] = "refuse" /\ ~ Second(v)')
        BY <3>2 DEF Source, Sees, Second
      <3>3. ASSUME NEW x \in References(r), txn[x].status = "PROCESSED", Matches(r, x),
                   pc'[v] = "compared", job'[v] = r, txn' = txn, seen'[v].row = x
            PROVE  Source(v)
        <4>1. Sighted(job'[v], seen'[v].row)
          BY <3>3 DEF Sighted, References
        <4> QED
          BY <3>3, <4>1 DEF Source, Second
      <3> QED
        BY <3>1, <3>2, <3>3
    <2> QED
      BY <2>1, <2>2, <2>3, <2>4, <2>5 DEF ItemStep
  <1> QED
    BY <1>2, <1>3

LEMMA Sources ==
    ASSUME TypeInv, [Next]_vars, NEW a \in Agent
    PROVE  Source(a)
  <1>1. CASE \/ UNCHANGED vars \/ \E w \in Wallet : CreateWallet(w)
             \/ \E r \in Request : Age(r)
    BY <1>1, StillSource DEF vars, locals, CreateWallet, Age
  <1> QED
    BY <1>1, ProcessSource, WorkerSees DEF Next

\* A PROCESSED row stays, and so does what was seen of it.
LEMMA SightStep ==
    ASSUME FinalInv, [Next]_vars, SightOK, VerdictTrue
    PROVE  SightOK' /\ VerdictTrue'
  <1>1. \A r \in Request : txn[r].status = "PROCESSED" => txn'[r] = txn[r]
    BY OutcomeStays DEF Terminal
  <1>2. \A r, x : Sighted(r, x) => /\ x \in Request /\ txn'[x].status = "PROCESSED"
                                   /\ Matches(r, x) /\ body[x].ext = body[r].ref
    BY <1>1 DEF Sighted
  <1>3. \A r : Reversed(r) => \E x \in Request : /\ txn'[x].status = "PROCESSED"
                                                 /\ body[x].kind \in Reversal
                                                 /\ body[x].ref = body[r].ref
    BY <1>1 DEF Reversed
  <1>4. \A a \in Agent : Source(a)
    BY Sources DEF FinalInv, RowInv, LedgerInv
  <1>5. ASSUME NEW a \in Agent, Sees(a)' PROVE Sighted(job[a], seen[a].row)'
    <2>1. Sighted(job'[a], seen'[a].row)
      BY <1>4, <1>5 DEF Source, SightOK
    <2>2. PICK r, x : r = job'[a] /\ x = seen'[a].row
      OBVIOUS
    <2> QED
      BY <1>2, <2>1, <2>2 DEF Sighted, Matches
  <1>6. ASSUME NEW v \in Worker, Second(v)' PROVE Reversed(job[v])'
    <2>1. Reversed(job'[v])
      BY <1>4, <1>6 DEF Source, VerdictTrue, Agent
    <2> QED
      BY <1>3, <2>1 DEF Reversed
  <1> QED
    BY <1>5, <1>6 DEF SightOK, VerdictTrue

-----------------------------------------------------------------------------
(* Reversals undo what they name, and give way to one that stands          *)

Already == "REFERENCE_ALREADY_REVERSED"

LEMMA AlreadyCodes ==
    /\ Already # "" /\ \A code : RejectedRow(code).code = code
    /\ NoRow.code # Already /\ PendingRow.code # Already
    /\ \A n, x : ProcessedRow(n, x).code # Already
  BY PlainCodes DEF Already, RejectedRow

\* Only a worker that has seen another reversal stores that code.
LEMMA AlreadySource ==
    ASSUME TypeInv, CommitShape, NEW r \in Request, txn'[r].code = Already
    PROVE  txn'[r] = txn[r] \/ \E v \in Worker : Second(v) /\ job[v] = r
  <1>1. CASE Quiet \/ \E w \in Wallet : CreateWallet(w)
    BY <1>1, OpeningRow DEF Quiet
  <1>2. ASSUME NEW x \in Request, NEW row, Store(x, row), row.code # Already
        PROVE  txn'[r] = txn[r]
    BY <1>2, StoredRow
  <1>3. CASE \E x \in Request : Waits(x)
    BY <1>2, <1>3, AlreadyCodes DEF Waits
  <1>4. CASE \E x \in Request, n \in Cents \cup {NoMoney} : Loses(x, n)
    BY <1>2, <1>4, AlreadyCodes DEF Loses
  <1>5. CASE \E a \in Agent, e \in EntryType, n \in Cents \cup {NoMoney} :
                job[a] \in Request /\ Moves(a, e, n)
    <2>1. PICK a \in Agent, e \in EntryType, n \in Cents \cup {NoMoney} :
              job[a] \in Request /\ Moves(a, e, n)
      BY <1>5
    <2>2. Store(job[a], ProcessedRow(n, seen[a].row))
      BY <2>1 DEF Moves
    <2>3. PICK row : row = ProcessedRow(n, seen[a].row)
      OBVIOUS
    <2>4. row.code # Already
      BY <2>3, AlreadyCodes
    <2> QED
      BY <1>2, <2>1, <2>2, <2>3, <2>4
  <1>6. ASSUME NEW x \in Request, NEW code \in FailureCode, Rejects(x, code)
        PROVE  txn'[r] = txn[r] \/ \E v \in Worker : Second(v) /\ job[v] = r
    <2>1. txn'[x].code = code /\ \A y \in Request \ {x} : txn'[y] = txn[y]
      BY <1>6, StoredRow, AlreadyCodes DEF Rejects
    <2> QED
      BY <1>6, <2>1 DEF Rejects, Second, Already
  <1> QED
    BY <1>1, <1>3, <1>4, <1>5, <1>6 DEF CommitShape

LEMMA RefusedStep ==
    ASSUME FinalInv, [Next]_vars, VerdictTrue, RefusedForAnother
    PROVE  RefusedForAnother'
  <1>1. CommitShape /\ TypeInv /\ PendingOK
    BY StepShape DEF FinalInv, RowInv, LedgerInv
  <1>2. \A x \in Request : txn[x].status = "PROCESSED" => txn'[x] = txn[x]
    BY OutcomeStays DEF Terminal
  <1> SUFFICES ASSUME NEW r \in Request, txn'[r].code = Already
               PROVE  \E x \in Request \ {r} :
                         txn[x].status = "PROCESSED" /\ IsReversalOf(x, body[r].ref)
    BY <1>2 DEF RefusedForAnother, IsReversalOf, Already
  <1>3. CASE txn'[r] = txn[r]
    BY <1>3 DEF RefusedForAnother, Already
  <1>4. CASE \E v \in Worker : Second(v) /\ job[v] = r
    <2>1. PICK v \in Worker : Second(v) /\ job[v] = r
      BY <1>4
    <2>2. Reversed(r) /\ txn[r].status = "PENDING_REFERENCE"
      BY <1>1, <2>1 DEF VerdictTrue, PendingOK, Second
    <2> QED
      BY <2>2 DEF Reversed, IsReversalOf
  <1> QED
    BY <1>1, <1>3, <1>4, AlreadySource

\* ReversalUndoesReference, for the entry e that follows the first n of l.
Undoes(l, n, e) ==
    e.txn \in Request /\ body[e.txn].kind \in Reversal =>
        \E j \in 1..n : /\ l[j].txn \in Request
                        /\ body[l[j].txn].ext = body[e.txn].ref
                        /\ l[j].cents = e.cents
                        /\ l[j].direction # e.direction

\* The entry a reversal is about to undo.
LEMMA UndoneEntry ==
    ASSUME LedgerInv, LedgerMatchesOutcome, SightOK, NEW a \in Agent,
           NEW e \in EntryType, NEW n, job[a] \in Request, Moves(a, e, n)
    PROVE  LET l == ledger[body[job[a]].wallet] IN Undoes(l, Len(l), e)
  <1> DEFINE r == job[a]
             x == seen[a].row
             w == body[r].wallet
  <1>1. w \in Wallet /\ e.txn = r /\ e.cents = body[r].cents /\ e.direction = Direction(r, x)
    BY BodyAssumption DEF Moves
  <1> SUFFICES ASSUME body[r].kind \in Reversal
               PROVE  \E j \in 1..Len(ledger[w]) :
                         /\ ledger[w][j].txn \in Request
                         /\ body[ledger[w][j].txn].ext = body[r].ref
                         /\ ledger[w][j].cents = body[r].cents
                         /\ ledger[w][j].direction # Direction(r, x)
    BY <1>1 DEF Undoes
  <1>2. Sighted(r, x)
    BY DEF SightOK, Sees, Moves
  <1>3. /\ body[x].kind \in {"BET", "WIN", "REFUND"}
        /\ body[r].kind = "REFUND" => body[x].kind = "BET"
        /\ body[x].wallet = w /\ body[x].cents = body[r].cents
    BY <1>2 DEF Sighted, Matches
  <1>4. PICK j \in EntriesOf(w, x) : /\ ledger[w][j].cents = body[r].cents
                                     /\ ledger[w][j].direction = Direction(x, txn[x].resolved)
    BY <1>2, <1>3 DEF LedgerMatchesOutcome, Sighted
  <1>5. j \in 1..Len(ledger[w]) /\ ledger[w][j].txn = x
    BY <1>1, LenProperties DEF EntriesOf, LedgerInv, TypeInv, TablesTypeOK
  <1>6. Direction(x, txn[x].resolved) # Direction(r, x)
    BY <1>3 DEF Direction, Reversal
  <1> QED
    BY <1>2, <1>4, <1>5, <1>6 DEF Sighted

LEMMA UndoStep ==
    ASSUME FinalInv, [Next]_vars, LedgerMatchesOutcome, SightOK, ReversalUndoesReference
    PROVE  ReversalUndoesReference'
  <1>1. CommitShape /\ LedgerInv /\ TypeInv /\ ledger \in [Wallet -> Seq(EntryType)]
    BY StepShape DEF FinalInv, RowInv, LedgerInv, TypeInv, TablesTypeOK
  <1>2. \A w \in Wallet : \A i \in DOMAIN ledger[w] : Undoes(ledger[w], i - 1, ledger[w][i])
    BY DEF ReversalUndoesReference, Undoes
  <1> SUFFICES ASSUME NEW w \in Wallet, NEW i \in DOMAIN ledger'[w]
               PROVE  Undoes(ledger'[w], i - 1, ledger'[w][i])
    BY DEF ReversalUndoesReference, Undoes
  <1>3. CASE ledger'[w] = ledger[w]
    BY <1>2, <1>3
  <1>4. CASE \E u \in Wallet : CreateWallet(u)
    <2>1. PICK u \in Wallet : CreateWallet(u)
      BY <1>4
    <2>2. CASE ledger'[w] # ledger[w]
      <3>1. u = w /\ \E e : ledger'[w] = <<e>> /\ e.txn = w
        BY <1>1, <2>1, <2>2 DEF CreateWallet, Entry
      <3>2. ledger'[w][i].txn = w /\ w \notin Request
        BY <3>1, NameAssumption
      <3> QED
        BY <3>2 DEF Undoes
    <2> QED
      BY <1>3, <2>2
  <1>5. ASSUME NEW a \in Agent, NEW e \in EntryType, NEW n, job[a] \in Request,
               Moves(a, e, n), ledger'[w] # ledger[w]
        PROVE  Undoes(ledger'[w], i - 1, ledger'[w][i])
    <2>1. ledger' = [ledger EXCEPT ![body[job[a]].wallet] = Append(@, e)]
      BY <1>5 DEF Moves
    <2>2. w = body[job[a]].wallet
      BY <1>1, <1>5, <2>1
    <2>3. PICK m \in Nat : m = Len(ledger[w])
      BY <1>1, LenProperties
    <2>4. /\ DOMAIN ledger[w] = 1..m /\ DOMAIN ledger'[w] = 1..(m + 1)
          /\ ledger'[w][m + 1] = e /\ \A j \in 1..m : ledger'[w][j] = ledger[w][j]
      BY <1>1, <2>1, <2>2, <2>3, AppendEntries
    <2>5. Undoes(ledger[w], m, e)
      BY <1>1, <1>5, <2>2, <2>3, UndoneEntry
    <2>6. CASE i = m + 1
      BY <2>4, <2>5, <2>6 DEF Undoes
    <2>7. CASE i \in 1..m
      <3>1. Undoes(ledger[w], i - 1, ledger[w][i])
        BY <1>2, <2>4, <2>7
      <3>2. \A j \in 1..(i - 1) : j \in 1..m
        BY <2>7
      <3> QED
        BY <2>4, <2>7, <3>1, <3>2 DEF Undoes
    <2> QED
      BY <2>4, <2>6, <2>7
  <1>6. CASE ledger' = ledger
    BY <1>3, <1>6
  <1> QED
    BY <1>1, <1>3, <1>4, <1>5, <1>6 DEF CommitShape, Quiet, Waits, Rejects, Loses

-----------------------------------------------------------------------------
(* The outcomes, with one worker                                           *)

\* A ledger that agrees with the outcomes holds no two reversals of one
\* reference, since no two of them are PROCESSED.
LEMMA OneReversalEntry ==
    ASSUME LedgerInv, LedgerMatchesOutcome, OneReversal
    PROVE  AtMostOneReversal
  <1> SUFFICES ASSUME NEW w \in Wallet, NEW i \in DOMAIN ledger[w], NEW j \in DOMAIN ledger[w],
                      NEW r \in Request, IsReversalOf(ledger[w][i].txn, body[r].ref),
                      IsReversalOf(ledger[w][j].txn, body[r].ref)
               PROVE  i = j
    BY DEF AtMostOneReversal
  <1>1. PICK x \in Request, y \in Request : x = ledger[w][i].txn /\ y = ledger[w][j].txn
    BY DEF IsReversalOf
  <1>2. body[x].wallet = w /\ body[y].wallet = w
    BY <1>1, NameAssumption DEF LedgerInv, LedgerOK, Owned
  <1>3. i \in EntriesOf(w, x) /\ j \in EntriesOf(w, y)
    BY <1>1 DEF EntriesOf
  <1>4. txn[x].status = "PROCESSED" /\ txn[y].status = "PROCESSED"
    BY <1>2, <1>3 DEF LedgerMatchesOutcome
  <1>5. x = y
    BY <1>1, <1>4 DEF OneReversal, IsReversalOf
  <1> QED
    BY <1>1, <1>5 DEF LedgerInv, LedgerOK, Single

LEMMA EventsFollow ==
    ASSUME EventsOK, LedgerMatchesOutcome
    PROVE  EventsMatchOutcome
  <1> SUFFICES ASSUME NEW r \in Request
               PROVE  LET n == outbox[r]
                          one(b) == IF b THEN 1 ELSE 0
                      IN  n["WalletBalanceChanged"] = one(EntriesOf(body[r].wallet, r) # {})
    BY DEF EventsOK, EventsMatchOutcome
  <1> QED
    BY DEF EventsOK, LedgerMatchesOutcome

OutcomeInv ==
    /\ FinalInv /\ LedgerMatchesOutcome /\ EventsOK
    /\ OneReversal /\ SightOK /\ VerdictTrue
    /\ RefusedForAnother /\ ReversalUndoesReference

LEMMA OutcomeInit == Init => OutcomeInv
  <1> SUFFICES ASSUME Init PROVE OutcomeInv
    OBVIOUS
  <1>1. \A r \in Request : txn[r] = NoRow /\ \A t \in EventType : outbox[r][t] = 0
    BY RequestType DEF Init
  <1>2. NoRow.status = "ABSENT" /\ NoRow.code # Already
    BY AlreadyCodes, PlainCodes
  <1>3. \A w \in Wallet : DOMAIN ledger[w] = {}
    <2>1. DOMAIN <<>> = {}
      OBVIOUS
    <2> QED
      BY <2>1 DEF Init
  <1>4. \A r \in Request : EntriesOf(body[r].wallet, r) = {}
    BY <1>3, BodyAssumption DEF EntriesOf
  <1>5. LedgerMatchesOutcome
    BY <1>1, <1>2, <1>4 DEF LedgerMatchesOutcome
  <1>6. EventsOK
    BY <1>1, <1>2 DEF EventsOK, EventType
  <1>7. OneReversal /\ RefusedForAnother
    BY <1>1, <1>2 DEF OneReversal, RefusedForAnother, Already
  <1>8. SightOK /\ VerdictTrue
    BY DEF Init, SightOK, Sees, VerdictTrue, Second, Agent
  <1>9. ReversalUndoesReference
    BY <1>3 DEF ReversalUndoesReference
  <1> QED
    BY <1>5, <1>6, <1>7, <1>8, <1>9, FinalInit DEF OutcomeInv

LEMMA OutcomeStep ==
    ASSUME OneWorker, OutcomeInv, [Next]_vars
    PROVE  OutcomeInv'
  <1> USE DEF OutcomeInv
  <1>1. TypeInv /\ PendingOK /\ CommitShape
    BY StepShape DEF FinalInv, RowInv, LedgerInv
  <1>2. FinalInv'
    BY FinalStep
  <1>3. LedgerMatchesOutcome' /\ ReversalUndoesReference'
    BY SettledStep, UndoStep
  <1>4. EventsOK' /\ OneReversal'
    BY <1>1, EventsStep, OneReversalStep
  <1>5. SightOK' /\ VerdictTrue' /\ RefusedForAnother'
    BY SightStep, RefusedStep
  <1> QED
    BY <1>2, <1>3, <1>4, <1>5

LEMMA OutcomeHolds == OneWorker /\ Spec => []OutcomeInv
  <1> SUFFICES ASSUME OneWorker PROVE Spec => []OutcomeInv
    OBVIOUS
  <1>1. OutcomeInv /\ [Next]_vars => OutcomeInv'
    BY OutcomeStep
  <1> QED
    BY <1>1, OutcomeInit, PTL DEF Spec

\* With one worker the ledger and the stored outcomes never part: what a
\* request was answered is what was moved for it.
THEOREM LedgerMatchesWithOneWorker == OneWorker /\ Spec => []LedgerMatchesOutcome
  BY OutcomeHolds, PTL DEF OutcomeInv

\* With one worker no operation is given back twice.
THEOREM OneReversalWithOneWorker == OneWorker /\ Spec => []AtMostOneReversal
  <1>1. OutcomeInv => AtMostOneReversal
    BY OneReversalEntry DEF OutcomeInv, FinalInv, RowInv
  <1> QED
    BY <1>1, OutcomeHolds, PTL

\* With one worker a reversal in the ledger undoes an earlier entry of the
\* operation it names, although it was read outside the transaction.
THEOREM ReversalsUndoWithOneWorker == OneWorker /\ Spec => []ReversalUndoesReference
  BY OutcomeHolds, PTL DEF OutcomeInv

\* With one worker the events stored for a request tell its outcome, once.
THEOREM EventsMatchWithOneWorker == OneWorker /\ Spec => []EventsMatchOutcome
  <1>1. OutcomeInv => EventsMatchOutcome
    BY EventsFollow DEF OutcomeInv
  <1> QED
    BY <1>1, OutcomeHolds, PTL

\* With one worker a reversal refused as already reversed lost to one that
\* stands.
THEOREM RefusalsNameAnotherWithOneWorker == OneWorker /\ Spec => []RefusedForAnother
  BY OutcomeHolds, PTL DEF OutcomeInv

-----------------------------------------------------------------------------
(* The step simulation: one worker and the processes keep the contract      *)

Opens == {w \in Wallet : wallet[w] # NoWallet}
Balances == [w \in Wallet |-> wallet[w].balance]
Outcomes == [r \in Request |-> txn[r].status]

\* A row a step may write is one the contract still lets it decide.
LEMMA DueTakes ==
    ASSUME PendingOK, NEW r \in Request, Due(r), Opened(r) \/ Listed(r)
    PROVE  Contract!Takes(r)
  <1>1. body[r].wallet \in Wallet
    BY BodyAssumption
  <1>2. CASE Listed(r)
    <2>1. txn[r].status = "PENDING_REFERENCE"
      BY <1>2 DEF Listed, PendingOK
    <2> QED
      BY <2>1 DEF Contract!Takes
  <1>3. CASE Duplicates(r) = {} /\ Opened(r)
    <2>1. \A x \in Request : txn[x].status # "ABSENT" =>
             /\ body[x].ext # body[r].ext
             /\ body[r].key # Null => body[x].key # body[r].key
      BY <1>3 DEF Duplicates, Exists, SameKey
    <2>2. Contract!Fresh(r) /\ txn[r].status = "ABSENT"
      BY <2>1 DEF Contract!Fresh
    <2> QED
      BY <1>1, <1>3, <2>2 DEF Contract!Takes, Opened
  <1> QED
    BY <1>2, <1>3 DEF Due

\* What a stored row changes in the contract's terms.
LEMMA StoredOutcome ==
    ASSUME TypeInv, NEW r \in Request, NEW row, Store(r, row), NEW d, d = row.status
    PROVE  Outcomes' = [Outcomes EXCEPT ![r] = d]
  <1>1. txn'[r] = row /\ \A x \in Request \ {r} : txn'[x] = txn[x]
    BY StoredRow
  <1> QED
    BY <1>1 DEF Outcomes

LEMMA SameWallets ==
    ASSUME wallet' = wallet
    PROVE  Opens' = Opens /\ Balances' = Balances
  BY DEF Opens, Balances

LEMMA WaitSimulates ==
    ASSUME TypeInv, PendingOK, NEW r \in Request, Waits(r)
    PROVE  Contract!Wait(r)
  <1>1. Contract!Takes(r)
    BY DueTakes DEF Waits, Due
  <1>2. txn[r].status = "ABSENT"
    BY DEF Waits, Duplicates, Exists
  <1>3. Outcomes' = [Outcomes EXCEPT ![r] = "PENDING_REFERENCE"]
    <2>1. PICK row : row = PendingRow /\ row.status = "PENDING_REFERENCE"
      BY PlainCodes
    <2> QED
      BY <2>1, StoredOutcome DEF Waits
  <1>4. Opens' = Opens /\ Balances' = Balances
    BY SameWallets DEF Waits
  <1> QED
    BY <1>1, <1>2, <1>3, <1>4
    DEF Waits, Contract!Wait, Contract!Decide, Contract!Reversal, Reversal,
        Opens, Balances, Outcomes

LEMMA RefuseSimulates ==
    ASSUME TypeInv, PendingOK, NEW r \in Request, NEW code, Rejects(r, code)
    PROVE  Contract!Refuse(r)
  <1>1. Contract!Takes(r)
    BY DueTakes DEF Rejects, Lacks
  <1>2. RejectedRow(code).status = "REJECTED"
    BY DEF RejectedRow
  <1>3. Outcomes' = [Outcomes EXCEPT ![r] = "REJECTED"]
    BY <1>2, StoredOutcome DEF Rejects
  <1>4. Opens' = Opens /\ Balances' = Balances
    BY SameWallets DEF Rejects
  <1>5. \/ txn[r].status = "PENDING_REFERENCE"
        \/ /\ body[r].kind \in {"BET", "ROLLBACK"} /\ body[r].wallet \in Wallet
           /\ wallet[body[r].wallet].balance < body[r].cents
    BY BodyAssumption DEF Rejects, Lacks, Listed, PendingOK
  <1> QED
    BY <1>1, <1>3, <1>4, <1>5
    DEF Contract!Refuse, Contract!Decide, Opens, Balances, Outcomes

LEMMA LossSimulates ==
    ASSUME TypeInv, PendingOK, NEW r \in Request, NEW n, Loses(r, n)
    PROVE  Contract!Fulfil(r, r)
  <1>1. Contract!Takes(r)
    BY DueTakes DEF Loses, Due
  <1>2. Outcomes' = [Outcomes EXCEPT ![r] = "PROCESSED"]
    BY StoredOutcome, ProcessedFields DEF Loses
  <1>3. Opens' = Opens /\ Balances' = Balances
    BY SameWallets DEF Loses
  <1>4. /\ Contract!Change(r, r) = 0 /\ body[r].kind \notin Contract!Reversal
        /\ body[r].wallet \in Wallet
    BY BodyAssumption DEF Loses, Contract!Change, Contract!Reversal
  <1>5. Balances[body[r].wallet] \in 0..MaxCents
    BY <1>4 DEF Balances, TypeInv, TablesTypeOK, WalletType, Cents
  <1>6. /\ Balances[body[r].wallet] + 0 \in 0..MaxCents
        /\ Balances' = [Balances EXCEPT ![body[r].wallet] = @ + 0]
    BY <1>3, <1>5, BoundAssumption DEF Balances
  <1> QED
    BY <1>1, <1>2, <1>3, <1>4, <1>6
    DEF Contract!Fulfil, Contract!Decide, Opens, Balances, Outcomes

\* A movement of the contract's size, and its wallet stays open.
LEMMA MovedBalance ==
    ASSUME TypeInv, NEW w \in Wallet, NEW dir \in {"CREDIT", "DEBIT"}, NEW n \in Int, n > 0,
           NEW change, change = IF dir = "CREDIT" THEN n ELSE - n,
           wallet[w] # NoWallet, CanMove(wallet[w], dir, n),
           wallet' = [wallet EXCEPT ![w] = Moved(@, dir, n)]
    PROVE  /\ Balances[w] + change \in 0..MaxCents
           /\ Balances' = [Balances EXCEPT ![w] = @ + change]
           /\ Opens' = Opens
  <1>1. PICK b \in WalletType : b = wallet[w]
    BY DEF TypeInv, TablesTypeOK
  <1>2. b.balance \in 0..MaxCents /\ b.version \in Nat
    BY <1>1 DEF WalletType, Cents
  <1>3. b.balance + change \in 0..MaxCents
    BY <1>1, <1>2, BoundAssumption DEF CanMove
  <1>4. wallet'[w] = Moved(b, dir, n) /\ \A u \in Wallet \ {w} : wallet'[u] = wallet[u]
    BY <1>1 DEF TypeInv, TablesTypeOK
  <1>5. Moved(b, dir, n).balance = b.balance + change /\ Moved(b, dir, n).version # 0
    BY <1>2 DEF Moved
  <1>6. Moved(b, dir, n) # NoWallet
    BY <1>5 DEF NoWallet
  <1>7. Opens' = Opens
    BY <1>4, <1>6 DEF Opens
  <1>8. Balances' = [Balances EXCEPT ![w] = @ + change]
    <2>1. Balances' = [u \in Wallet |-> wallet'[u].balance]
      BY DEF Balances
    <2>2. wallet'[w].balance = Balances[w] + change
      BY <1>1, <1>4, <1>5 DEF Balances
    <2>3. \A u \in Wallet \ {w} : wallet'[u].balance = Balances[u]
      BY <1>4 DEF Balances
    <2>4. Balances = [u \in Wallet |-> Balances[u]]
      BY DEF Balances
    <2> HIDE DEF Balances
    <2> QED
      BY <2>1, <2>2, <2>3, <2>4
  <1> QED
    BY <1>1, <1>3, <1>7, <1>8 DEF Balances

LEMMA MoveSimulates ==
    ASSUME TypeInv, PendingOK, SightOK, NEW a \in Agent, NEW e \in EntryType, NEW n,
           NEW r \in Request, r = job[a], Moves(a, e, n)
    PROVE  \E x \in Request : Contract!Fulfil(r, x)
  <1>1. Contract!Takes(r)
    BY DueTakes DEF Moves
  <1>2. Outcomes' = [Outcomes EXCEPT ![r] = "PROCESSED"]
    <2>1. Store(r, ProcessedRow(n, seen[a].row))
      BY DEF Moves
    <2>2. PICK row : row = ProcessedRow(n, seen[a].row) /\ row.status = "PROCESSED"
      BY ProcessedFields
    <2> QED
      BY <2>1, <2>2, StoredOutcome
  <1>3. PICK w \in Wallet : w = body[r].wallet
    BY BodyAssumption
  <1>4. PICK x \in Request : body[r].kind \in Reversal =>
                                x = seen[a].row /\ Sighted(r, x)
    <2>1. CASE body[r].kind \in Reversal
      <3>1. Sighted(r, seen[a].row)
        BY <2>1 DEF Moves, SightOK, Sees
      <3> QED
        BY <3>1 DEF Sighted
    <2> QED
      BY <2>1
  <1>5. body[r].kind \in Reversal => Contract!Undoable(r, x) /\ ~ Contract!Undone(r)
    <2>1. SUFFICES ASSUME body[r].kind \in Reversal
                   PROVE  Contract!Undoable(r, x) /\ ~ Contract!Undone(r)
      OBVIOUS
    <2>2. Contract!Undoable(r, x)
      BY <1>4, <2>1 DEF Sighted, Matches, Contract!Undoable
    <2>3. ~ Contract!Undone(r)
      BY <2>1 DEF Moves, ReversalIndexFree, Contract!Undone, Contract!Reversal, Reversal
    <2> QED
      BY <2>2, <2>3
  <1>6. PICK dir \in {"CREDIT", "DEBIT"} :
            /\ dir = Direction(r, seen[a].row) /\ CanMove(wallet[w], dir, body[r].cents)
            /\ wallet' = [wallet EXCEPT ![w] = Moved(@, dir, body[r].cents)]
            /\ wallet[w] # NoWallet
    <2>1. /\ e.direction = Direction(r, seen[a].row) /\ e.cents = body[r].cents
          /\ CanMove(wallet[w], e.direction, e.cents) /\ Opened(r)
          /\ wallet' = [wallet EXCEPT ![w] = Moved(@, e.direction, e.cents)]
      BY <1>3 DEF Moves
    <2> QED
      BY <1>3, <2>1, DirectionType DEF Opened
  <1>7. body[r].cents \in Int /\ body[r].cents > 0 /\ body[r].kind \in Kind \ {"LOSS"}
    <2>1. e.cents = body[r].cents /\ body[r].kind # "LOSS"
      BY DEF Moves
    <2> QED
      BY <2>1, BodyAssumption DEF EntryType, Cents
  <1>8. Contract!Change(r, x) = IF dir = "CREDIT" THEN body[r].cents ELSE - body[r].cents
    <2>1. CASE body[r].kind = "BET"
      BY <1>6, <2>1 DEF Contract!Change, Contract!Reversal, Direction
    <2>2. CASE body[r].kind = "WIN"
      BY <1>6, <2>2 DEF Contract!Change, Contract!Reversal, Direction
    <2>3. CASE body[r].kind = "REFUND"
      <3>1. x = seen[a].row /\ body[x].kind = "BET"
        BY <1>4, <2>3 DEF Sighted, Matches, Reversal
      <3> QED
        BY <1>6, <2>3, <3>1 DEF Contract!Change, Contract!Reversal, Direction
    <2>4. CASE body[r].kind = "ROLLBACK"
      <3>1. x = seen[a].row
        BY <1>4, <2>4 DEF Reversal
      <3> QED
        BY <1>6, <2>4, <3>1 DEF Contract!Change, Contract!Reversal, Direction
    <2> QED
      BY <1>7, <2>1, <2>2, <2>3, <2>4 DEF Kind
  <1>9. /\ Balances[w] + Contract!Change(r, x) \in 0..MaxCents
        /\ Balances' = [Balances EXCEPT ![w] = @ + Contract!Change(r, x)]
        /\ Opens' = Opens
    BY <1>6, <1>7, <1>8, MovedBalance
  <1>10. Contract!Fulfil(r, x)
    BY <1>1, <1>2, <1>3, <1>5, <1>9
    DEF Contract!Fulfil, Contract!Decide, Contract!Reversal, Reversal, Opens, Balances, Outcomes
  <1> QED
    BY <1>10

LEMMA OpenSimulates ==
    ASSUME TypeInv, NEW w \in Wallet, CreateWallet(w)
    PROVE  Contract!Open(w)
  <1>1. /\ wallet[w] = NoWallet /\ account[w].opening \in 0..MaxCents
        /\ wallet'[w] = [balance |-> account[w].opening, version |-> 1]
        /\ \A u \in Wallet \ {w} : wallet'[u] = wallet[u]
    BY AccountAssumption, BoundAssumption DEF CreateWallet, TypeInv, TablesTypeOK
  <1>2. wallet'[w] # NoWallet
    BY <1>1 DEF NoWallet
  <1>3. Opens' = Opens \cup {w} /\ w \notin Opens
    BY <1>1, <1>2 DEF Opens
  <1>4. Balances' = [Balances EXCEPT ![w] = account[w].opening]
    <2>1. wallet'[w].balance = account[w].opening
      BY <1>1
    <2> QED
      BY <1>1, <2>1 DEF Balances
  <1>5. Outcomes' = Outcomes
    BY OpeningRow DEF Outcomes
  <1> QED
    BY <1>1, <1>3, <1>4, <1>5 DEF Contract!Open, Opens, Balances, Outcomes

\* Every step is one of the contract, or none to it.
LEMMA ContractStep == OutcomeInv /\ [Next]_vars => [Contract!Next]_Contract!promised
  <1> SUFFICES ASSUME OutcomeInv, [Next]_vars
               PROVE  [Contract!Next]_Contract!promised
    OBVIOUS
  <1>1. CommitShape /\ TypeInv /\ PendingOK /\ SightOK
    BY StepShape DEF OutcomeInv, FinalInv, RowInv, LedgerInv
  <1>2. CASE Quiet
    BY <1>2 DEF Quiet, Contract!promised
  <1>3. CASE ~ Quiet
    <2>1. Contract!Next
      BY <1>1, <1>3, OpenSimulates, WaitSimulates, RefuseSimulates, LossSimulates,
         MoveSimulates
      DEF CommitShape, Contract!Next
    <2> QED
      BY <2>1
  <1> QED
    BY <1>2, <1>3

\* With one worker the system keeps the contract: whatever the processes, the
\* worker, the locks, the retries and the crashes do between them, wallets and
\* outcomes change as if each request had been decided in one step.
THEOREM ContractWithOneWorker == OneWorker /\ Spec => ImplementsContract
  <1> SUFFICES ASSUME OneWorker PROVE Spec => ImplementsContract
    OBVIOUS
  <1>1. Init => Contract!Init
    <2> SUFFICES ASSUME Init PROVE Contract!Init
      OBVIOUS
    <2>1. \A w \in Wallet : wallet[w] = NoWallet /\ NoWallet.balance = 0
      BY DEF Init, NoWallet
    <2>2. \A r \in Request : txn[r].status = "ABSENT"
      BY RequestType, PlainCodes DEF Init
    <2> QED
      BY <2>1, <2>2 DEF Contract!Init
  <1> QED
    BY <1>1, ContractStep, OutcomeHolds, PTL DEF Spec, ImplementsContract, Contract!Spec

-----------------------------------------------------------------------------
(* What the outcomes make of a balance                                     *)

\* What r did to its wallet, by the outcomes o: a reversal of a bet gave back,
\* one of a win or of a refund took away.
Effect(o, r) ==
    CASE body[r].kind = "BET" -> - body[r].cents
      [] body[r].kind = "WIN" -> body[r].cents
      [] body[r].kind = "LOSS" -> 0
      [] body[r].kind \in Reversal ->
            IF \E x \in Request : /\ o[x] = "PROCESSED" /\ body[x].ext = body[r].ref
                                  /\ body[x].kind = "BET"
            THEN body[r].cents ELSE - body[r].cents

\* The requests that moved w, and what they did to it together.
Done(o, w) == {r \in Request : o[r] = "PROCESSED" /\ body[r].wallet = w}
Effects(o, w) == SumOver([r \in Done(o, w) |-> Effect(o, r)], Done(o, w))

\* No two rows of one external id; a reversal's reference is among those done.
OneRowPerId(o) ==
    \A x, y \in Request :
        o[x] # "ABSENT" /\ o[y] # "ABSENT" /\ body[x].ext = body[y].ext => x = y

Founded(o) ==
    \A r \in Request : o[r] = "PROCESSED" /\ body[r].kind \in Reversal =>
        \E x \in Request : o[x] = "PROCESSED" /\ body[x].ext = body[r].ref

AccountInv ==
    /\ OneRowPerId(Outcomes) /\ Founded(Outcomes)
    /\ \A r \in Request : Outcomes[r] # "ABSENT" => body[r].wallet \in Opens
    /\ \A w \in Wallet : IsFiniteSet(Done(Outcomes, w))
    /\ \A w \in Opens : Balances[w] = account[w].opening + Effects(Outcomes, w)

\* An effect is an amount.
LEMMA EffectType ==
  ASSUME NEW o, NEW r \in Request
  PROVE  Effect(o, r) \in Int
<1>1. body[r].cents \in Int /\ body[r].kind \in Kind
  BY BodyAssumption
<1>2. QED
  BY <1>1 DEF Effect, Kind, Reversal

\* What was done stays what it was, whatever is done later: no other row gets the
\* external id of a reversal's reference.
LEMMA EffectStays ==
  ASSUME NEW o, NEW n, Founded(o), OneRowPerId(n),
         \A x \in Request : o[x] = "PROCESSED" => n[x] = "PROCESSED",
         NEW r \in Request, o[r] = "PROCESSED"
  PROVE  Effect(n, r) = Effect(o, r)
<1>1. CASE body[r].kind \notin Reversal
  BY <1>1, BodyAssumption DEF Effect, Kind, Reversal
<1>2. CASE body[r].kind \in Reversal
  <2>1. PICK x \in Request : o[x] = "PROCESSED" /\ body[x].ext = body[r].ref
    BY <1>2 DEF Founded
  <2>2. \A y \in Request : n[y] = "PROCESSED" /\ body[y].ext = body[r].ref => y = x
    BY <2>1 DEF OneRowPerId
  <2>3. (\E y \in Request : n[y] = "PROCESSED" /\ body[y].ext = body[r].ref
                            /\ body[y].kind = "BET")
        <=> (\E y \in Request : o[y] = "PROCESSED" /\ body[y].ext = body[r].ref
                                /\ body[y].kind = "BET")
    BY <2>1, <2>2
  <2>4. QED
    BY <1>2, <2>3, Zenon DEF Effect, Reversal
<1>3. QED
  BY <1>1, <1>2

\* One more request done adds its effect to those of its wallet.
LEMMA EffectsGrow ==
  ASSUME NEW o, NEW n, Founded(o), OneRowPerId(n), NEW r \in Request,
         o[r] # "PROCESSED", n[r] = "PROCESSED",
         \A x \in Request \ {r} : n[x] = o[x],
         IsFiniteSet(Done(o, body[r].wallet))
  PROVE  /\ IsFiniteSet(Done(n, body[r].wallet))
         /\ Effects(n, body[r].wallet) = Effect(n, r) + Effects(o, body[r].wallet)
         /\ Effects(o, body[r].wallet) \in Int
<1>1. PICK S, T : S = Done(o, body[r].wallet) /\ T = Done(n, body[r].wallet)
  OBVIOUS
<1>2. /\ r \notin S /\ T = S \cup {r} /\ S \subseteq Request /\ IsFiniteSet(S)
      /\ \A x \in S : o[x] = "PROCESSED"
  BY <1>1 DEF Done
<1>3. IsFiniteSet(T)
  BY <1>2, FS_AddElement
<1>4. PICK f, k : f = [x \in S |-> Effect(o, x)] /\ k = [x \in T |-> Effect(n, x)]
  OBVIOUS
<1>5. f \in [S -> Int] /\ k \in [T -> Int]
  BY <1>2, <1>4, EffectType
<1>6. \A x \in Request : o[x] = "PROCESSED" => n[x] = "PROCESSED"
  OBVIOUS
<1>7. \A x \in S : f[x] = k[x]
  BY <1>2, <1>4, <1>6, EffectStays
<1>8. k[r] = Effect(n, r)
  BY <1>2, <1>4
<1>9. PICK v, w : v = SumOver(f, S) /\ w = SumOver(k, T)
  OBVIOUS
<1>10. Summed(v, f, S) /\ Summed(w, k, T)
  BY <1>2, <1>3, <1>5, <1>9, SumOverIsSum
<1>11. w = k[r] + v
  BY ONLY <1>2, <1>5, <1>7, <1>10, SumGrows
<1>12. v \in Int
  BY <1>2, <1>5, <1>10, SumType
<1>13. v = Effects(o, body[r].wallet) /\ w = Effects(n, body[r].wallet)
  BY <1>1, <1>4, <1>9 DEF Effects
<1>14. QED
  BY <1>1, <1>3, <1>8, <1>11, <1>12, <1>13

\* Wallets that are not concerned keep their sum.
LEMMA EffectsStay ==
  ASSUME NEW o, NEW n, Founded(o), OneRowPerId(n),
         \A x \in Request : o[x] = "PROCESSED" => n[x] = "PROCESSED",
         NEW w, Done(n, w) = Done(o, w)
  PROVE  Effects(n, w) = Effects(o, w)
<1>1. \A x \in Done(o, w) : Effect(n, x) = Effect(o, x)
  BY EffectStays DEF Done
<1>2. [x \in Done(n, w) |-> Effect(n, x)] = [x \in Done(o, w) |-> Effect(o, x)]
  BY <1>1
<1>3. QED
  BY <1>2, Zenon DEF Effects

\* Nothing is done in a wallet before it is opened.
LEMMA EffectsOfNone ==
  ASSUME NEW o, NEW w, Done(o, w) = {}
  PROVE  Effects(o, w) = 0
<1>1. PICK S, f : S = Done(o, w) /\ f = [r \in Done(o, w) |-> Effect(o, r)]
  OBVIOUS
<1>2. S = {} /\ IsFiniteSet(S) /\ f \in [S -> Int]
  BY <1>1, FS_EmptySet
<1>3. Summed(SumOver(f, S), f, S)
  BY <1>2, SumOverIsSum
<1>4. SumOver(f, S) = 0
  BY <1>2, <1>3, SumOfNone
<1>5. QED
  BY <1>1, <1>4 DEF Effects

\* The first state: nothing is open, nothing is decided.
LEMMA AccountInit == Init => AccountInv
<1> SUFFICES ASSUME Init PROVE AccountInv
  OBVIOUS
<1>1. \A w \in Wallet : wallet[w] = NoWallet
  BY DEF Init
<1>2. \A r \in Request : Outcomes[r] = "ABSENT"
  BY RequestType, PlainCodes DEF Init, Outcomes
<1>3. Opens = {} /\ \A w \in Wallet : Done(Outcomes, w) = {}
  BY <1>1, <1>2 DEF Opens, Done
<1>4. QED
  BY <1>2, <1>3, FS_EmptySet DEF AccountInv, OneRowPerId, Founded

\* A wallet that opens has nothing done in it yet.
LEMMA OpenAccounts ==
  ASSUME AccountInv, NEW w \in Wallet, Contract!Open(w)
  PROVE  AccountInv'
<1>1. /\ Opens' = Opens \cup {w} /\ w \notin Opens /\ Outcomes' = Outcomes
      /\ Balances' = [Balances EXCEPT ![w] = account[w].opening]
  BY DEF Contract!Open, Opens, Balances, Outcomes
<1>2. PICK o : o = Outcomes /\ o = Outcomes'
  BY <1>1
<1>3. OneRowPerId(o) /\ Founded(o) /\ \A u \in Wallet : IsFiniteSet(Done(o, u))
  BY <1>2 DEF AccountInv
<1>4. Done(o, w) = {}
  BY <1>1, <1>2 DEF AccountInv, Done
<1>5. Effects(o, w) = 0
  BY <1>4, EffectsOfNone
<1>6. \A u \in Opens' : Balances'[u] = account[u].opening + Effects(o, u)
  <2> SUFFICES ASSUME NEW u \in Opens' PROVE Balances'[u] = account[u].opening + Effects(o, u)
    OBVIOUS
  <2>1. u \in Wallet
    BY DEF Opens
  <2>2. CASE u = w
    <3>1. Balances'[w] = account[w].opening /\ account[w].opening \in Int
      BY <1>1, AccountAssumption DEF Balances
    <3>2. QED
      BY <1>5, <2>2, <3>1
  <2>3. CASE u # w
    BY <1>1, <1>2, <2>1, <2>3 DEF AccountInv, Balances
  <2>4. QED
    BY <2>2, <2>3
<1>7. \A r \in Request : o[r] # "ABSENT" => body[r].wallet \in Opens'
  BY <1>1, <1>2 DEF AccountInv
<1>8. QED
  BY <1>2, <1>3, <1>6, <1>7 DEF AccountInv

\* What any decision leaves as it was: ids name rows, in open wallets.
LEMMA DecisionKeeps ==
  ASSUME AccountInv, NEW r \in Request, Contract!Takes(r), NEW d,
         Outcomes' = [Outcomes EXCEPT ![r] = d], d # "ABSENT", Opens' = Opens
  PROVE  /\ OneRowPerId(Outcomes)'
         /\ \A x \in Request : Outcomes'[x] # "ABSENT" => body[x].wallet \in Opens'
         /\ Outcomes[r] # "PROCESSED" /\ Outcomes'[r] = d /\ body[r].wallet \in Opens
         /\ \A x \in Request \ {r} : Outcomes'[x] = Outcomes[x]
<1>1. /\ Outcomes'[r] = d /\ \A x \in Request \ {r} : Outcomes'[x] = Outcomes[x]
  BY DEF Outcomes
<1>2. \/ Outcomes[r] = "PENDING_REFERENCE"
      \/ /\ Outcomes[r] = "ABSENT" /\ body[r].wallet \in Opens
         /\ \A x \in Request : Outcomes[x] # "ABSENT" => body[x].ext # body[r].ext
  BY DEF Contract!Takes, Contract!Fresh, Outcomes, Opens
<1>3. body[r].wallet \in Opens
  BY <1>2 DEF AccountInv
<1>4. OneRowPerId(Outcomes)'
  BY <1>1, <1>2 DEF AccountInv, OneRowPerId
<1>5. QED
  BY <1>1, <1>2, <1>3, <1>4 DEF AccountInv

\* A refusal or a wait does nothing to a wallet.
LEMMA NothingDone ==
  ASSUME AccountInv, NEW r \in Request, Contract!Refuse(r) \/ Contract!Wait(r)
  PROVE  AccountInv'
<1>1. PICK d : /\ d \in {"REJECTED", "PENDING_REFERENCE"}
               /\ Outcomes' = [Outcomes EXCEPT ![r] = d]
               /\ Opens' = Opens /\ Balances' = Balances /\ Contract!Takes(r)
  BY DEF Contract!Refuse, Contract!Wait, Contract!Decide, Outcomes, Opens, Balances
<1>2. /\ OneRowPerId(Outcomes)'
      /\ \A x \in Request : Outcomes'[x] # "ABSENT" => body[x].wallet \in Opens'
      /\ Outcomes[r] # "PROCESSED" /\ Outcomes'[r] = d
      /\ \A x \in Request \ {r} : Outcomes'[x] = Outcomes[x]
  BY <1>1, DecisionKeeps
<1>3. \A x \in Request : Outcomes[x] = "PROCESSED" <=> Outcomes'[x] = "PROCESSED"
  BY <1>1, <1>2
<1>4. PICK o, n : o = Outcomes /\ n = Outcomes'
  OBVIOUS
<1>5. /\ Founded(o) /\ OneRowPerId(n) /\ \A w \in Wallet : IsFiniteSet(Done(o, w))
      /\ \A x \in Request : o[x] = "PROCESSED" <=> n[x] = "PROCESSED"
  BY <1>2, <1>3, <1>4 DEF AccountInv
<1>6. Founded(n) /\ \A w : Done(n, w) = Done(o, w)
  BY <1>5 DEF Founded, Done
<1>7. \A w : Effects(n, w) = Effects(o, w)
  BY <1>5, <1>6, EffectsStay
<1>8. \A w \in Opens' : Balances'[w] = account[w].opening + Effects(n, w)
  BY <1>1, <1>4, <1>7 DEF AccountInv
<1>9. QED
  BY <1>2, <1>4, <1>5, <1>6, <1>8 DEF AccountInv

\* A request fulfilled changes its wallet by its effect and no other.
LEMMA FulfilAccounts ==
  ASSUME AccountInv, TypeInv, NEW r \in Request, NEW x \in Request, Contract!Fulfil(r, x)
  PROVE  AccountInv'
<1> DEFINE w == body[r].wallet
<1>1. /\ Outcomes' = [Outcomes EXCEPT ![r] = "PROCESSED"]
      /\ Opens' = Opens /\ Contract!Takes(r)
      /\ Balances' = [Balances EXCEPT ![w] = @ + Contract!Change(r, x)]
      /\ body[r].kind \in Reversal => Outcomes[x] = "PROCESSED" /\ body[x].ext = body[r].ref
  BY DEF Contract!Fulfil, Contract!Decide, Contract!Undoable, Contract!Reversal, Reversal,
         Outcomes, Opens, Balances
<1>2. /\ OneRowPerId(Outcomes)'
      /\ \A y \in Request : Outcomes'[y] # "ABSENT" => body[y].wallet \in Opens'
      /\ Outcomes[r] # "PROCESSED" /\ Outcomes'[r] = "PROCESSED" /\ w \in Opens
      /\ \A y \in Request \ {r} : Outcomes'[y] = Outcomes[y]
  BY <1>1, DecisionKeeps
<1>3. PICK o, n : o = Outcomes /\ n = Outcomes'
  OBVIOUS
<1>4. /\ Founded(o) /\ OneRowPerId(n) /\ \A u \in Wallet : IsFiniteSet(Done(o, u))
      /\ o[r] # "PROCESSED" /\ n[r] = "PROCESSED"
      /\ \A y \in Request \ {r} : n[y] = o[y]
      /\ body[r].kind \in Reversal => o[x] = "PROCESSED" /\ body[x].ext = body[r].ref
      /\ w \in Wallet
  BY <1>1, <1>2, <1>3, BodyAssumption DEF AccountInv
<1>5. Founded(n)
  BY <1>4 DEF Founded
<1>6. /\ IsFiniteSet(Done(n, w)) /\ Effects(o, w) \in Int
      /\ Effects(n, w) = Effect(n, r) + Effects(o, w)
  BY <1>4, EffectsGrow
<1>7. \A u \in Wallet \ {w} : Done(n, u) = Done(o, u)
  BY <1>4 DEF Done
<1>8. \A u \in Wallet \ {w} : Effects(n, u) = Effects(o, u)
  BY <1>4, <1>7, EffectsStay
<1>9. Effect(n, r) = Contract!Change(r, x)
  <2>1. body[r].kind \in Kind
    BY BodyAssumption
  <2>2. CASE body[r].kind \notin Reversal
    BY <2>1, <2>2 DEF Effect, Contract!Change, Contract!Reversal, Kind, Reversal
  <2>3. CASE body[r].kind \in Reversal
    <3>1. n[x] = "PROCESSED" /\ body[x].ext = body[r].ref
      BY <1>4, <2>3
    <3>2. \A y \in Request : n[y] = "PROCESSED" /\ body[y].ext = body[r].ref => y = x
      BY <1>4, <3>1 DEF OneRowPerId
    <3>3. (\E y \in Request : n[y] = "PROCESSED" /\ body[y].ext = body[r].ref
                              /\ body[y].kind = "BET") <=> body[x].kind = "BET"
      BY <3>1, <3>2
    <3>4. QED
      BY <2>3, <3>3 DEF Effect, Contract!Change, Contract!Reversal, Reversal
  <2>4. QED
    BY <2>2, <2>3
<1>10. \A u \in Opens' : Balances'[u] = account[u].opening + Effects(n, u)
  <2> SUFFICES ASSUME NEW u \in Opens PROVE Balances'[u] = account[u].opening + Effects(n, u)
    BY <1>1
  <2>1. u \in Wallet /\ Balances[u] = account[u].opening + Effects(o, u)
        /\ account[u].opening \in Int
    BY <1>3, AccountAssumption DEF AccountInv, Opens
  <2>2. CASE u = w
    <3>1. Balances'[w] = Balances[w] + Contract!Change(r, x)
      BY <1>1, <1>4 DEF Balances
    <3>2. Effect(n, r) \in Int
      BY EffectType
    <3>3. PICK a, b, c : a = Effects(o, w) /\ b = Effect(n, r) /\ c = account[w].opening
      OBVIOUS
    <3>4. /\ Balances'[w] = (c + a) + b /\ Effects(n, w) = b + a
          /\ a \in Int /\ b \in Int /\ c \in Int
      BY <1>6, <1>9, <2>1, <2>2, <3>1, <3>2, <3>3
    <3>5. QED
      BY <2>2, <3>3, <3>4
  <2>3. CASE u # w
    <3>1. Balances'[u] = Balances[u]
      BY <1>1, <2>1, <2>3 DEF Balances
    <3>2. QED
      BY <1>8, <2>1, <2>3, <3>1
  <2>4. QED
    BY <2>2, <2>3
<1>11. \A u \in Wallet : IsFiniteSet(Done(n, u))
  BY <1>4, <1>6, <1>7
<1>12. QED
  BY <1>2, <1>3, <1>4, <1>5, <1>10, <1>11 DEF AccountInv

\* With one worker the outcomes alone tell a balance: what a wallet was opened
\* with, and what each request that was processed did to it, once. Nothing that
\* was refused, waits, was repeated or broke off has left a trace in it.
THEOREM BalanceFollowsOutcomes ==
  OneWorker /\ Spec =>
    [](\A w \in Wallet : wallet[w] # NoWallet =>
          wallet[w].balance = account[w].opening + Effects(Outcomes, w))
<1> SUFFICES ASSUME OneWorker
             PROVE  Spec => [](\A w \in Wallet : wallet[w] # NoWallet =>
                       wallet[w].balance = account[w].opening + Effects(Outcomes, w))
  OBVIOUS
<1>1. OutcomeInv /\ AccountInv /\ [Next]_vars => AccountInv'
  <2> SUFFICES ASSUME OutcomeInv, AccountInv, [Next]_vars PROVE AccountInv'
    OBVIOUS
  <2>1. TypeInv
    BY DEF OutcomeInv, FinalInv, RowInv, LedgerInv
  <2>2. CASE UNCHANGED Contract!promised
    <3>1. Opens' = Opens /\ Balances' = Balances /\ Outcomes' = Outcomes
      BY <2>2 DEF Contract!promised, Opens, Balances, Outcomes
    <3>2. QED
      BY <3>1 DEF AccountInv
  <2>3. CASE Contract!Next
    BY <2>1, <2>3, OpenAccounts, NothingDone, FulfilAccounts DEF Contract!Next
  <2>4. QED
    BY <2>2, <2>3, ContractStep
<1>2. AccountInv => \A w \in Wallet : wallet[w] # NoWallet =>
         wallet[w].balance = account[w].opening + Effects(Outcomes, w)
  BY DEF AccountInv, Opens, Balances
<1>3. QED
  BY <1>1, <1>2, AccountInit, OutcomeHolds, PTL DEF Spec

=============================================================================
