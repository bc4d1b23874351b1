\* Two replicas, two wallets, and a key both wallets' requests share.
CONSTANTS
  w1 = w1  w2 = w2  p1 = p1  p2 = p2  v1 = v1  v2 = v2
  bet = bet  refund = refund  rollback = rollback  unrefund = unrefund
  win = win  loss = loss  reuse = reuse  other = other  bet2 = bet2
  Null = Null
  Wallet = {w1, w2}
  Request = {bet, refund, rollback, other}
  Process = {p1,p2}
  Worker = {v1, v2}
  BatchLimit = 10
  MaxCents = 20
  account <- MCAccount
  body <- MCBody
SPECIFICATION Spec
SYMMETRY Symmetry
INVARIANTS
  OneEntryPerTransaction
  KeyNamesOneOperation
