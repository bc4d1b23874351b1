\* Every waiting reversal is decided; a worker lists one row at a time.
CONSTANTS
  w1 = w1  w2 = w2  p1 = p1  p2 = p2  v1 = v1  v2 = v2
  bet = bet  refund = refund  rollback = rollback  unrefund = unrefund
  win = win  loss = loss  reuse = reuse  other = other  bet2 = bet2
  Null = Null
  Wallet = {w1}
  Request = {bet, refund, unrefund, win, loss}
  Process = {p1}
  Worker = {v1}
  BatchLimit = 1
  MaxCents = 12
  account <- MCAccount
  body <- MCBody
SPECIFICATION FairSpec
PROPERTIES
  PendingIsDecided
