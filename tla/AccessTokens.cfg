\* Two pages, two keys; a tick is more than the ten minutes the keys count as
\* recent and fewer than the minutes a token lives.
CONSTANTS
  p1 = p1  p2 = p2
  Page = {p1, p2}
  LastKey = 2
  Clients = 2
  KeysFor = 1
  TokensFor = 1
  Lifespan = 2
  Round = 1
  MaxTime = 3
SPECIFICATION FairSpec
INVARIANTS
  TypeOK
  TokensOfOneRound
PROPERTIES
  ServedIsLive
  RefusedForAReason
  EveryCallEnds
