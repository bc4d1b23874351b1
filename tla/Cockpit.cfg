\* Four clicks of a player, on either page. Twenty parts make a cent: stakes of
\* one cent and of one and a half, of which 1.1 times is no whole cent.
CONSTANTS
  pa = pa
  pb = pb
  Provider = {pa, pb}
  Selected = pa
  Cent = 20
  Stake = {20, 30}
  Chip = 20
  Opening = 40
  Prize = {0, 11, 20}
  Credit = 30
  MaxClicks = 4
SPECIFICATION FairSpec
INVARIANTS
  TypeOK
  OneSpinAtATime
  OneBodyPerKey
  DemoBooks
  DemoRefundsOnce
PROPERTIES
  SpinEnds
CHECK_DEADLOCK FALSE
