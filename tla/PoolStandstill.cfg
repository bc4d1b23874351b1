\* As many connections as requests, each with a wallet of its own.
CONSTANTS
  w1 = w1  w2 = w2  refund1 = refund1  refund2 = refund2  bet = bet
  Null = Null
  Wallet = {w1, w2}
  Request = {refund1, refund2}
  Reversal = {refund1, refund2}
  PoolSize = 2
  target <- MCTarget
SPECIFICATION FairSpec
PROPERTIES
  IndependentWalletsAdvance
