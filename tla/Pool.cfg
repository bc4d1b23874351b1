\* One connection fewer than requests, through stops and starts: the refunds
\* alone may fill the pool, one of them leaves a connection for its queries.
CONSTANTS
  w1 = w1  w2 = w2  refund1 = refund1  refund2 = refund2  bet = bet
  Null = Null
  Wallet = {w1, w2}
  Request = {refund1, refund2, bet}
  Reversal = {refund1, refund2}
  Message = {bet}
  PoolSize = 2
  target <- MCTarget
SPECIFICATION FairLife
INVARIANTS
  TypeOK
  OnlyFullPoolStands
PROPERTIES
  EveryRequestEnds
  StopEnds
