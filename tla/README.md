# Jungle Game wagering: verification project

TLA+ models of the wagering service in `src/`: wallets, external wager
transactions, their ledger and the asynchronous machinery around them. TLC
model-checks the modules on small instances; TLAPS proves the central results
for every size. Source lines are given in `PROJECT.json` ("map"), definition by
definition.

## 1. The system

A Go service (PostgreSQL, SQS) moves players' wallets on behalf of game
providers. Every replica runs the HTTP server, an SQS consumer, an outbox
publisher and a pending-reference worker.

| Component | State | Operations | Interacts with |
|---|---|---|---|
| Wager service (`application/wager_service.go`) | none of its own: rows of one database transaction | `ProcessTransaction` (BET, WIN, LOSS, REFUND, ROLLBACK) | called by the HTTP handler and the SQS consumer; takes the wallet's row lock; stores outbox rows |
| Wallet and ledger (`domain/wallet.go`, `domain/ledger.go`, `application/wallet_service.go`) | balance, version, one ledger entry per movement | create wallet (OPENING), debit, credit | the same tables |
| Schema and repository (`migrations`, `database/repository.go`) | the tables, unique constraints and partial unique indexes | `SELECT ... FOR UPDATE`, inserts, updates, claims, pages | everything |
| Pending-reference worker (`messaging/pending_reference_worker.go`) | the list of one tick, the item at hand | list, expire, look up, validate, lock, resolve or refuse | the same tables, without going through the wager service |
| SQS consumer and inbox (`messaging/sqs_consumer.go`) | visible, in-flight and dead messages; inbox rows | poll, handle in one database transaction, delete | wager service, SQS |
| Outbox publisher (`messaging/outbox_publisher.go`) | claims, retries, published marks | claim, send, mark, retry later | outbox rows, SQS |
| Connection pool (`database/postgres.go`) | at most 25 connections | acquire, release | every request; reversals take two |
| Reconciliation and ledger pages (`application/reconciliation_service.go`) | none | compare balance and ledger; page by cursor | wallets, ledger |
| Money (`domain/money.go`) | a value: int64 cents, currency | parse, format, add, subtract, negate | all amounts |
| Token caches (`auth/jwt_validator.go`, `http/web/ui.go`) | keys or tokens with an expiry | look up, refresh | HTTP requests |
| Lifecycle (`internal/module.go`) | components running or stopped | start, stop | all of the above |
| WASM cockpit (`cmd/wasm/main.go`) | the session's wallet, the spin at hand | spin, deposit, replay, refund | the HTTP API |

What is hard in it:

* **Interleaving.** Requests of all replicas and one worker per replica move the
  same wallets. The wallet's row lock orders those of one wallet; nothing orders
  requests on different wallets that share an idempotency key, and the worker
  acts on a list it read earlier, partly without the lock.
* **Stale reads.** A reversal's reference and its earlier reversals are read
  outside the transaction; the worker never re-reads a row it listed.
* **Partial failure and crashes.** A transaction may be rolled back after any
  statement; a worker may stop in the middle of its list; a reply may be lost
  and the request retried.
* **Time.** A pending reversal has one minute; the worker passes every second.
* **Boundaries.** int64 amounts, a zero balance stored as NULL, ten rows a tick.

What makes each part correct:

* wallet and ledger: the ledger rebuilds the balance and the version; no balance
  below zero; no transaction moves a wallet twice;
* wager service: an idempotency key names one operation; a replay repeats the
  original reply; a refusal for lack of funds is true when it commits;
* reversals: at most one per operation, of the same wallet, round and amount,
  after the operation itself; a waiting reversal is decided in the end; a
  decided one never changes;
* outbox: each outcome has exactly one event, stored with it and published at
  least once;
* consumer: no message is deleted before its handling is durable;
* reconciliation and pages: a report is off by what moved while it was made and by
  nothing else; pages hold every entry once;
* caches: what is served is alive and of one piece; what was once known keeps serving;
* pool and lifecycle: somebody always progresses, unless reversals fill the pool; a stop
  then comes to its end;
* cockpit: one spin at a time, which ends; a key sent again keeps its body; the demo
  keeps its own books.

## 2. Plan

| # | Module | Purpose | State |
|---|---|---|---|
| 1 | `Wagering` | the financial core: wager service, wallet, ledger, worker | done |
| 2 | `WageringProofs` | types, ledger and what it adds up to, single movement, keys, refusals; with one worker finality, outcomes, the contract and the accounts | done |
| 3 | `EventRelay`, `OutboxPublisher`, `OutboxProofs` | what the outbox promises; claims, expiry, retries, crashes; the one implements the other | done |
| 4 | `ConnectionPool`, `PoolProofs` | the second connection of a reversal; who waits for whom | done |
| 5 | `SqsConsumer`, `ConsumerProofs` | queue, visibility, inbox, dead letters, over a service of one step | done |
| 6 | `Money`, `Audit`, `AuditProofs` | fixed-width amounts; two snapshots; cursor pages against late commits | done |
| 7 | `AccessTokens`, `AccessTokensProofs` | the two caches a token passes through | done |
| 8 | `Shutdown` | start and stop of a replica around the requests of `ConnectionPool`; it implements that module, checked and proved in `PoolProofs` | done |
| 9 | `Cockpit`, `CockpitProofs` | boot, session, spin, replay, refund, the demo's ledger | done |
| 10 | `WagerContract` | abstract wallet: one step per request; `Wagering` with one worker implements it, checked and proved | done |
| 11 | `FoldTheorems` | what sums and folds return, for `LedgerAddsUp`, `BalanceFollowsOutcomes`, `DemoBooks` and `ReportIsExact` | done |

`Wagering` stands alone and implements `WagerContract`. `SqsConsumer` and
`OutboxPublisher` meet it at two points only, a request handled in one database transaction (`Commit`, `Refuse`
and `Fail` of the one, the process steps of the other) and an outbox row stored
in it (`StoreEvent`, `Emit`), so each is checked with the other side abstracted to
that point. `ConnectionPool` is the same request once more, seen as the
connections and the lock it holds, and `Shutdown` EXTENDS it with the life of
the replica. `Audit` EXTENDS `Money` and sees a movement as one step, the commit that
`Wagering` shows in detail. `Cockpit` and `AccessTokens` are clients of all this:
what the engine answers is left open in the one, tokens come to pages in the other.

## 3. `Wagering`

**State.** `wallet`, `txn`, `ledger` and `outbox` are the tables; `holder` is the
row lock of each wallet. `pc`, `job`, `base`, `seen` and `verdict` are the local
variables of the goroutines: where it stands, its request, the wallet and the
reference as it read them, the failure code it is about to store. `batch` and
`overdue` are a worker's list. `aged` says whose minute has passed.

**Agents.** A `Process` is a goroutine in `ProcessTransactionInTx`, called by HTTP
or by the consumer; a `Worker` is one replica's `PendingReferenceWorker`.

**Steps.** Each SQL statement that reads a shared table is one action, since
PostgreSQL runs READ COMMITTED and another commit may come between any two. The
writes of a transaction and its commit are one action: they become visible
together, and every row lock they take lies behind the wallet's lock already
held, or is of a row nobody else can see. A unique constraint or index appears
as a guard of the commit; when it does not hold, `Abort` or `FailItem` is what
remains, as in the code.

| Code | Actions |
|---|---|
| `WalletService.CreateWallet` | `CreateWallet` |
| `ProcessTransactionInTx`: validation and `GetWalletForUpdate` | `LockWallet` |
| double check under the lock, currency | `CheckIdempotency` |
| `validateReversalReference` (through the pool) | `ReadReference`, `CheckReversal` |
| outcomes and commit | `Settle`, `SettleLoss`, `RejectUnfunded`, `SavePending` |
| rollback, for any reason | `Abort` |
| `checkPendingReferences` | `ListPending`, `RejectExpired`, `LookReference`, `SkipItem` |
| `validateReference`, `reject` | `CheckPendingReversal`, `Refuse` |
| `resolveTransaction`, `rejectInTx` | `LockToResolve`, `Resolve`, `RejectInTx`, `FailItem` |
| a replica stops | `Crash` (worker), `Abort` (its requests) |
| a minute passes | `Age` |

**Abstractions.** External ids and references are (provider, id) pairs given as one
value; `round` stands for player and round, compared only together; game, round
and provider names otherwise change nothing. A row is named by the request that
inserted it, because the idempotency key is unique. The request hash is the
equality of requests. `ORDER BY created_at` of the pending list is left open
(any rows within the limit), because `created_at` is taken before the commit.
Time is one bit per row, before
or after the minute; the list's `overdue` part is fixed when the list is read.

**Contract.** `WagerContract` says the same without statements, locks, lists, retries or
crashes: a request is decided in one step, on the balance of that moment. It has
four operations, `Open`, `Fulfil`, `Refuse` and `Wait`, over the open wallets, their balances and
the outcome of each request; `ImplementsContract` maps them to the rows of
`wallet` and the status of `txn`. It is what a client may rely on, and it holds with one worker
only: finding (1) breaks it.

## 4. The modules around it

**`OutboxPublisher`.** `row`, `token`, `claimed`, `deferred` are the columns of
`outbox_events` (status, claim_token, claim_until and next_retry_at in the
future); `batch`, `at`, `reply` the loop of `publishBatch`; `recent` the
deduplication ids the queue remembers; `accepted` a count of what it took. One
action per call of the loop (`Claim`, `Send`, `Mark`, `Retry`), with each outcome the
call may have: a claim whose reply breaks off, a message taken whose reply is
lost, an update that fails. A process draws its token at start, so after a `Crash`
its claims belong to nobody (`Gone`). Durations are left open: any claim may
run out at any moment, since no call of a publisher has a deadline. `EventRelay`
says what remains true of each event through all this.

**`ConnectionPool`.** `pc` says what a request holds: nothing while it waits in
`pool.Begin`, one connection afterwards, two in a query of
`validateReversalReference` or its lookup; `Free` is what is left. It is one replica:
connections are not shared between replicas, only the locks are.

**`SqsConsumer`.** `line`, `place`, `receives` are the queue; `inbox` the table; `batch`,
`receipt`, `cur`, `pc` the loop of `pollAndProcess`; `done`, `refused`, `failed` are history.
The queue follows the documented FIFO rules: while a message of a group is hidden
none of the group is delivered, a receipt is void after another delivery, and
`maxReceiveCount` deliveries are the last. `TrySaveInboxMessage` inserts or waits for
whoever is inserting the same messageId, as PostgreSQL does on a unique conflict.
An error of `isTerminalMessageError` is `Refuse`, any other is `Skip` (before the inbox
row) or `Fail` (behind it), the lost answer of a commit included.

**`Shutdown`.** `phase` goes from serving to draining (`Stop`: the workers' context is
cancelled and the listener closed), to closing (`ShutdownServer`: the handlers are done
or their five seconds over), to stopped (`Close`: every connection is back), or at any
point to killed (`Kill`: fx's own timeout). Requests go on through all of it as in
`ConnectionPool`: those of the queue (`Message`) may be cancelled at once wherever they
wait, those of HTTP go on. Closing the pool wakes nobody (`pgxpool` on puddle v2, external):
whoever waits for a connection, also one who holds another, finds the pool closed when
his turn comes, and that takes a connection given back (`TurnedAway`, `Free > 0`). So a pool
that stands still when it is closed goes on standing (`CloseStands`): `module.go:125` then
waits until fx's fifteen seconds are over or a client gives up.

**`Money`.** Every operation is written with the arithmetic of the width, guards
included (`Wrap`), so a guard that overflows itself would show. A decimal text is its
sign, its digits and two more; `ValueOf` is the reference definition, by which the
properties read what `AmountString` wrote. The width is a constant, nine bits in the runs.

**`Audit`.** `balance` and `ledger` are one wallet's, `audit` a run of `ReconcileWallet`
between its two reads, `pages` a client that follows `nextCursor`. `Commit` gives an entry
any of a few times, because `created_at` is taken by a replica's clock before the
wallet's lock. `Tamper` is what the reconciliation is there to show. A page may be cut
short by a connection that breaks, since `rows.Err` is not read. `missed` and `drift` are
history: what was committed between the reads, what was done behind the service's back.

**`AccessTokens`.** `tokens`, `expiresAt` and `keys`, `lastFetch` are the two caches, each with a
lock that is held while Keycloak is asked (`Fetching`, `AskingKeys`). A token is the key
that signed it and its expiry. One action per wait: before the lock, in it, and each
call to Keycloak with every outcome the code distinguishes (`Outcome` folds the three
addresses of `fetchKeycloakToken`; an answer without a token and without an error is
the empty token). `exists` is what `getPublicKey` saw before it waited for the lock. A call
that waits at its first `RLock` (`jwt_validator.go:116`) has read nothing and counts as not begun.

**`Cockpit`.** The page's globals are the variables; `spins`, `eager`, `inits`, `opening` and
`refunding` are goroutines by where they wait. Go's WebAssembly runtime has one thread, so
an action is what runs between two waits: for `stateMu`, for an answer, for the reels.
Every click runs its handler twice, as `setClickListener` registers it twice. Whoever was
woken by `stateMu` runs before the page's next event (`Waiting`). `first` and `wire` are
history: the body each key was first sent with, the last replay or win. The balance is
modelled in the demo, which keeps its own ledger; with the engine it is left open, and
so is whether a spin finds it sufficient. The demo's balance is a `float64` nobody rounds,
while its ledger has each amount, and the balance before and after it, as `"%.2f"` prints
them. So `balance`, `currentBet` and `lastWin` are counted in parts of a cent (`Cent` of them make
one), a payout is a number of tenths of the stake (11 for two equal symbols), and `NewLedger`
writes whole cents (`Printed`). What binary fractions lose far below a part is left out.
`DemoBooks` says what holds in spite of the rounding: each entry starts where the last
one ended, the last ends in the balance as printed, and the amounts add up to the balance
within half a cent an entry. `betKey` is a millisecond's timestamp; two spins of a page are at
least twelve times 70 ms of reels apart, so it is modelled as new for each spin.

## 5. Runs

The instances of `Wagering` use the catalogue of `MCWagering`: wallet `w1` opened with 10, `w2`
with 0; a bet of everything, its refund, a rollback of the bet, a rollback of
the refund, a second bet, a win, a loss, a request that reuses the refund's key
with another amount, and a request on `w2` that reuses the bet's key.

| Run | Instance | Shows |
|---|---|---|
| `core` | one wallet, six requests, two processes, one worker | `TypeOK`, `LedgerRebuildsWallet`, `LedgerMatchesOutcome`, `AtMostOneReversal`, `ReversalUndoesReference`, `EventsMatchOutcome`, `RefusedForAnother`, `UnfundedIsTrue`, `TerminalIsFinal`, `ImplementsContract` |
| `replicas` | two wallets with a key used on both, two processes, two workers | `OneEntryPerTransaction` and `KeyNamesOneOperation` survive several replicas (as does the ledger, by theorem) |
| `progress` | chain bet, refund, rollback of the refund, a win and a loss; `MaxCents` 12; one row a tick | `PendingIsDecided` |
| `two_workers_reversal` | two workers, two reversals of one bet | finding: `AtMostOneReversal` fails |
| `outbox` | two publishers, two events, batches of two | `TypeOK`, `ImplementsRelay`, `ClaimIsKept`, `EventuallyPublished` |
| `pool` | two refunds by HTTP, a bet from the queue on the wallet of one, two connections, stops, kills and starts | `TypeOK`, `OnlyFullPoolStands`, `EveryRequestEnds`, `StopEnds` |
| `pool_standstill` | two refunds, a wallet each, two connections | finding: `IndependentWalletsAdvance` fails |
| `consumer` | two consumers, a message and another body under its messageId, three deliveries | `TypeOK`, `HandledOnce`, `LeavesForAReason`, `OvertakesOnlyFailed`, `EveryMessageLeaves` |
| `consumer_undurable` | one message | finding: `DeletedIsDurable` fails |
| `cockpit` | four clicks on either page, stakes of one cent and of one and a half, payouts of 1.1 and 2 times, two providers | `TypeOK`, `OneSpinAtATime`, `OneBodyPerKey`, `DemoBooks`, `DemoRefundsOnce`, `SpinEnds` |
| `audit` | a bet and two wins at any of three times, pages of at most three, integers of nine bits | `ReportIsExact`, `NoEntryTwice`, `NoEntryLost` |
| `tokens` | two pages, two keys, a clock of three ticks | `TypeOK`, `TokensOfOneRound`, `ServedIsLive`, `RefusedForAReason`, `EveryCallEnds` |

**Why the bounds are enough.** A property of `core` relates at most a reference, two
reversals of it and a reversal of a reversal, on one wallet: the six requests
hold each of those, in every order, with two of them in progress at a time. A
third process adds no new pair of steps between two commits of one wallet,
because the lock serialises them. The second bet makes bets and the rollback of
the refund meet a balance that no longer covers them. `MaxCents` = 12 in
`progress` makes the refund overflow after the win, on every tick. Each request is
tried any number of times; its row is inserted once. `BatchLimit` is 10 as in the
code, where it never binds, and 1 in `progress`, where the rows left out must
still be reached. The two processes of `core` and `replicas` are interchangeable
and no liveness property is checked there, so both use symmetry.

For the outbox two publishers give a late one and its successor; a third would be
one more successor. `MaxAccepted` only stops a count no property looks beyond one
of. A standstill needs as many reversals as connections, so two of each stand
for the 25 of the code. In `pool`, with one connection fewer than requests, it happens
with both refunds, and with one of them and the bet that waits for its wallet, while
serving, draining and closing; a stop also meets every state in which it does not. `MaxReceive` is 3 in `consumer`, as in
the code: two deliveries that went wrong, each perhaps still at work with one of the
two consumers, and one more; it is 2 where a finding needs no third. `BatchSize` 2
lets a batch hold two messages of one wallet. `m1` and `reused` are of one wallet
and of one messageId, so order and recognition are checked of the same pair.

Four clicks (`MaxClicks`) let a spin, a changed stake or a reset, a refund and a second
spin, or two refunds of two spins, meet in one behaviour; the goroutines they start
are not bounded. With 20 parts to a cent, an opening of two cents and stakes of one and of one and
a half bring the demo to an empty balance and to one a stake does not fit, and 1.1
times either is no whole cent: the ledger's sum and the balance do part in this
instance (an invariant that they are equal fails in it). In `audit` three movements and an opening make pages of
every fullness, with entries before, at and behind a cursor's time; the bet is of the
whole opening balance and the wins reach the limit of the width only after it, so
order decides whether they fit. In `tokens` a tick is longer than the keys count as
recent and than the tokens are kept, and half a token's life: the clock reaches a refresh and
an expiry of each. `MaxTime` and `LastKey` stop the clock and the rotation of keys.

Deadlock is checked everywhere but for the consumer, whose queue may be empty for
good, and the cockpit, whose player may stop clicking, and means what it says:
requests may always be tried again, and a publisher's claim may find nothing.

**Fairness** (`FairSpec`). In `Wagering` (`progress`): `ProcessStep`, weak: a
goroutine goes on until its transaction ends, each of its queries returning or
failing, as long as the pool has a connection for it (the code sets no timeout;
`ConnectionPool` shows when it has none). `ItemStep` and
`ListPending`, `LookReference`, weak: the ticker fires each second and the loop
runs on. `Age`, weak: time passes. `LockToResolve`, strong: PostgreSQL queues the
waiters of a row lock, so one that waits is served although the lock is taken
again and again in between. `RejectExpired`, strong: `SkipItem`, an error of the
database, may put it off, but the worker comes back every second and the
database does not refuse it for ever. Requests need not be submitted: a
reference may never come.

In `OutboxPublisher` (`outbox`): the ticker and the loop go on, claims and delays run
out; strong for `ClaimsEvent`, because the row due for longest is claimed first;
strong for `SendsInTime` and `Confirms`: queue and database do not fail at every
attempt, and now and then a batch is done within its thirty seconds. In
`ConnectionPool` (`pool`, `pool_standstill`): strong for what waits in a queue, the
pool's and the row lock's, both first come, first served; nobody is assumed to
give up. In `SqsConsumer` (`consumer`): the loop goes on, visibility ends, and
polls reach every group and every message delivered too often.

In `Shutdown` (`pool`): as in `ConnectionPool` while the pool is open; a stop goes on,
since `server.Shutdown` has a deadline and `pool.Close` returns once every connection is back; when
the pool is closed, an error reaches whoever's turn it is while a connection is free.
Nobody has to be killed and no client gives up, so a standstill may last: `EveryRequestEnds` and
`StopEnds` except a pool that stands still for good, and nothing else. `OnlyFullPoolStands`
says when that is. In `Cockpit` (`cockpit`): a timer ends every
call of a session or a bet, the reels stop after twelve steps, and `sync.Mutex` serves its longest
waiter first; refunds need not be answered. In `AccessTokens` (`tokens`): every call to
Keycloak has a timeout of five seconds (weak), and both locks serve their waiters
(strong). The clock need not run.

**Findings.** (1) `UpdateTransaction` writes by id alone and the worker never re-reads a
row it listed, so with two replicas a PROCESSED reversal may become REJECTED, or
the reverse; after that the partial unique index no longer covers the reversal,
and its bet may be given back a second time. (2) Reversals that take all connections
wait for one more, for ever. (3) A message refused by a business rule is deleted after
its transaction, the inbox row included, was rolled back. `PROJECT.json` quotes the
sentences these contradict.

**Observations.** Behaviour the models contain, met while they were written, with no run
of its own:

* A zero balance, and the balance of a refusal, are stored as NULL
  (`repository.go:301`), so a replay answers with an empty amount, where
  `EDITAL_JUNGLE_GAME.md:287` asks for the balance of the original. `Stored` has it;
  `LedgerMatchesOutcome` says that at least no other balance is told.
* A query that fails in `validateReference` ends as a refusal with `REFERENCE_MISMATCH`
  (`pending_reference_worker.go:183`): the third disjunct of `CheckPendingReversal`.
* After a failure the rest of a batch overtakes the failed message of the same wallet
  (`sqs_consumer.go:101`), where `ARCHITECTURE.md:112` speaks of strict order;
  `OvertakesOnlyFailed` says that nothing else does.
* A reconciliation reads two snapshots (`reconciliation_service.go:37`), where
  `EDITAL_JUNGLE_GAME.md` asks for a consistent view: a movement in between shows as a
  difference. `ReportIsExact` says by how much.
* A replica stopped while its pool stands still is ended only by fx's fifteen seconds, or
  by clients that give up: `module.go:125` closes a pool whose holders wait for it.
* The demo's audit (`main.go:1917`) prints the balance twice and reports "100% CONSISTENTE
  [ZERO DIVERGÊNCIA]" without adding up its ledger, whose rounded entries may differ from the
  balance; `DemoBooks` says by how much at most.
* A key another call fetches while `getPublicKey` waits for the lock does not help the one
  that waits when Keycloak then fails: it answers by what it saw before
  (`jwt_validator.go:131`). `RefusedForAReason` promises service only to who had seen the key.
* The win of a spin is of the stake, wallet and provider of the moment the reels stop
  (`main.go:1158`), which the player may have changed since the bet (`Land`).
* A status other than 200 from Keycloak leaves no error (`ui.go:193`), so empty tokens
  are cached for 45 minutes; the key cache does not look at the status at all.

## 6. Proofs

`WageringProofs` holds theorems about `Wagering` for every set of
wallets, requests, processes and workers, from `BodyAssumption` (a request names a
wallet, a kind and an integer amount), `AccountAssumption` (openings are
integers), `NameAssumption` (wallet ids are not request ids, processes are not
workers, `Null` is none of them) and `BoundAssumption` (`MaxCents` natural,
`BatchLimit` positive). Nothing is assumed of keys, references or amounts.

* `TypeCorrect`: `Spec => []TypeOK`. Not inductive alone: the amount an agent
  moves must be positive. `TypeInv` adds `AgentsOK` (whoever is at work has a
  valid request, workers and the readers of references a reversal) and
  `WaitingOK` (only valid reversals wait, in the table or in a list).
* `LedgerIsWhole`: `Spec => []LedgerRebuildsWallet`, and `NoDoubleMovement`:
  `Spec => []OneEntryPerTransaction`, from one invariant, `LedgerInv`. `LockOK` is
  the heart: between FOR UPDATE and the end of its transaction an agent alone
  holds the wallet, and what it read is still what the table says, so the entry
  it appends starts where the last one ended (`AppendRebuilds`). `Owned` (every
  entry belongs to a stored request of that wallet, or is its opening) makes a
  first settlement fresh; a worker's second one is refused by the unique index
  of the ledger (`AppendOwned`). The theorems hold for any number of workers:
  finding (1) corrupts statuses, never a balance.
* `LedgerAddsUp`: in every state the credits of a wallet's ledger less its debits are
  its balance, for any number of workers. `LedgerRebuildsWallet` is about neighbouring entries
  only; `ChainAddsUp` carries it from each prefix of the ledger to the next. So what
  `ReconcileWallet` computes would show no difference if it read wallet and ledger in one
  snapshot; what it shows instead is `ReportIsExact`.
* `KeysAreUnique`: `Spec => []KeyNamesOneOperation`, and `RefusalsAreTrue`:
  `Spec => UnfundedIsTrue`, also for any number of workers. `StepShape` sorts the
  actions into what they commit (`Quiet`, an opening, `Waits`, `Rejects`, `Loses`, `Moves`), and
  the later proofs have one case per shape. `RowInv` adds that workers list and hold stored rows
  only, so that a new row is always one the unique constraints allowed, and that
  a code of lack of funds is decided under the lock.
* With `OneWorker`, the hypothesis that there is at most one worker:
  `FinalWithOneWorker` (`TerminalIsFinal`), `LedgerMatchesWithOneWorker`,
  `OneReversalWithOneWorker`, `ReversalsUndoWithOneWorker`, `EventsMatchWithOneWorker` and
  `RefusalsNameAnotherWithOneWorker`. `PendingOK` is the key, and false with two: what the worker
  has on its list or at hand still waits, since nobody else writes a row that exists.
  So no outcome changes (`OutcomeStays`), and what an agent saw of a reference
  outside its transaction (`SightOK`), or of an earlier reversal (`VerdictTrue`), still
  stands when it commits. `OutcomeInv` carries these with the properties themselves and
  `OneReversal`: two PROCESSED reversals of one reference are the same.
* `ContractWithOneWorker`: `OneWorker /\ Spec => ImplementsContract`, by one lemma per
  shape: each commit is an operation of `WagerContract`, everything else a stutter (`ContractStep`).
* `BalanceFollowsOutcomes`, with one worker: the balance of an open wallet is its opening and
  what the PROCESSED requests did to it, added up in whatever order. It is proved of
  the contract's operations and comes to `Wagering` by `ContractStep`. `AccountInv` needs two
  more facts: of an external id there is one row (`OneRowPerId`), and a reversal's reference is
  among the PROCESSED ones (`Founded`), which fixes whether it gives or takes. Without
  `TerminalIsFinal` the sum would lose what was once added, so the premise stays.

* `FoldTheorems` has what the sums above and below need. The library's induction theorems
  take an operator as a parameter, but an induction is also the choice of a least
  counterexample, and `LeastNumber` states that of a set: `NatLessThanWellFounded` and
  `WFMin`, which are about sets, prove it. With it a recursion over
  the subsets of a finite set is shown to have a solution, `CHOOSE` finds one, and any
  solution is `Additive`: it grows by the value of any element added (`SumOfOneMore`), not only
  of the one `CHOOSE` picks. A fold from the left goes on where it was when its sequence
  is extended.

* `OutboxProofs`, for all events and publishers: `OutboxTypeCorrect`,
  `OutboxImplementsRelay` and `ClaimsAreKept`. `RelayInv` adds to the types that a
  publisher holds stored events only and records a true reply (`HandOK`), and that
  the queue has what is marked or remembered (`RowOK`). Each step is then one
  `Advance` of one event or a stutter; a mark finds a row that still waits because a
  published one bears no claim.
* `PoolProofs`, for all requests, wallets and pool sizes: `PoolTypeCorrect` and
  `StandstillIsFull` (`OnlyFullPoolStands`), from the invariant that only a reversal asks for a
  second connection: who may not move holds or wants one, whoever waits for a wallet
  waits for a reversal that asks, so transactions hold all connections (`FullPool`).
  `AmplePoolMoves` is its consequence: with one connection more than requests in progress,
  or without reversals, nothing stands. `LifeImplementsPool`, `LifeSpec => Spec`: each step of a replica that is
  stopped, killed and started is one of the pool or a stutter, so `LifeTypeCorrect` and `LifeMoves`
  follow: a replica stands only with a full pool, in every phase. `StoppedLeavesNoLock`: `PhaseInv` says that in
  a replica that is stopped no transaction is open, so it left no wallet locked.
* `ConsumerProofs`, for all messages and consumers: `ConsumerTypeCorrect`,
  `InboxHandlesOnce`, `LeavesForAReasonHolds` and `OvertakesOnlyFailedHolds`. `OnceInv` says that whoever inserts a
  messageId is alone with it and finds no committed row, and that every commit left
  one. `LeaveInv` adds that a receipt counts deliveries within the limit, that whoever is
  past the start has a message at hand, and that whoever is about to delete has the
  reason: a committed row of the same body, or a refusal. `OrderInv` is about the
  line: no message was sent twice (`LineOK`); whatever goes before a message of a batch is in
  the batch or settled, that is in the inbox, refused, failed or dead (`BatchInOrder`); and the
  message at hand is the first of its group there (`FirstAtHand`). A late consumer's batch
  keeps this, because what is settled stays so.
* `AuditProofs`, for all movements, times, limits and widths: `NoEntryTwiceHolds` and
  `NoEntryLostHolds`, from `AuditInv`: ids name entries, and what was got and is owed lies
  on either side of the cursor's entry in the order of the pages, which is total. An entry that
  commits behind the cursor was not there at the start, so it is neither.
  `AddIsExact`, `SubIsExact`, `NegateIsExact` and `ShiftIsExact`: each returns the true result
  when it fits the width and an error otherwise, its guards never overflowing. `IntPartIsExact`,
  `AmountStringIsExact`, `ParseIsExact` and `WrittenAmountsAreReadBack` say so of texts of any length.
  `ReportIsExactHolds` rests on `BooksInv`: the balance is the sum of the ledger and what was done
  behind the service's back, and of a report under way the balance it read plus what it
  missed since; `ParseIsExact` and `AmountStringIsExact` carry the numbers through the texts in
  which the entries and the report keep them.
* `CockpitProofs`, for all stakes, prizes, providers and any number of clicks:
  `OneSpinAtATimeHolds` (a spin starts only where none is), `OneBodyPerKeyHolds` (`KeysInv`:
  the last bet's body is the one its key was sent with), `CockpitTypeCorrect`, `DemoBooksHolds` (`PageInv`:
  from its first session on the demo's ledger is an unbroken chain that ends in the balance
  as printed and is off it by no more than half a cent an entry, and before that nothing
  was played; `NearestCents` and `PrintedCents` say what rounding returns, for every size of a cent) and `DemoRefundsOnceHolds`
  (`DemoInv`: every spin of the demo page is booked before it can be refunded, and a bet that may
  still be refunded has no refund in the ledger).
* `AccessTokensProofs`, for all pages, keys, clients and durations with
  `TokensFor + Round <= Lifespan`: `TokensTypeCorrect`, `TokensOfOneRoundHolds`, `ServedIsLiveHolds` and
  `RefusedForAReasonHolds`, from `TokensInv`: one round at a time, what it gathered expires
  after its start plus a token's life, and whoever saw a key in the cache finds it there
  later.

Each rests on the assumptions named in its module: finite or bounded parameters,
and `Null` and `Gone` outside the sets they mark.

Every safety property of a passing run is a theorem. The proof of `ReportIsExact` corrected
the model twice: the sum of a ledger may pass the range of int64 where no balance does,
after money was taken away behind the service's back, and the scan of the sum then fails
(`repository.go:265`), as `CalculateLedgerBalance` says; and the amounts of movements are
decimal texts (`TextType`), which `ParseIsExact` needs.

Only model-checked: liveness (`PendingIsDecided`, `EventuallyPublished`,
`EveryRequestEnds`, `StopEnds`, `EveryMessageLeaves`, `SpinEnds`, `EveryCallEnds`), which is out of
the prover's reach, as `ENABLED` is. The theorems about outcomes keep the premise `OneWorker`:
without it they are false, by finding (1).

## 7. Not modelled

HTTP decoding, status codes, logging and metrics, signatures and claims of tokens,
configuration: they carry no state the properties speak of. Of the cockpit, the
views of the engine's ledger and reconciliation, the panel of error cases, the
concurrency demonstration, drawing and sound: the first show what `Audit`
describes, the others send requests whose handling is `Wagering`'s. The legacy
browser cockpit (`app.js`) is no longer loaded. Migrations run once, before anything else.
