\* One replica: two request goroutines and one pending-reference worker.
CONSTANTS
  w1 = w1  w2 = w2  p1 = p1  p2 = p2  v1 = v1  v2 = v2
  bet = bet  refund = refund  rollback = rollback  unrefund = unrefund
  win = win  loss = loss  reuse = reuse  other = other  bet2 = bet2
  Null = Null
  Wallet = {w1}
  Request = {bet, refund, rollback, unrefund, reuse, bet2}
  Process = {p1, p2}
  Worker = {v1}
  BatchLimit = 10
  MaxCents = 20
  account <- MCAccount
  body <- MCBody
SPECIFICATION Spec
SYMMETRY Symmetry
INVARIANTS
  TypeOK
  LedgerRebuildsWallet
  LedgerMatchesOutcome
  AtMostOneReversal
  ReversalUndoesReference
  EventsMatchOutcome
  RefusedForAnother
PROPERTIES
  UnfundedIsTrue
  TerminalIsFinal
  ImplementsContract
