\* Two replicas; m1, and a second body under its messageId.
CONSTANTS
  m1 = m1  reused = reused  c1 = c1  c2 = c2
  Null = Null
  Message = {m1, reused}
  Malformed = {}
  Consumer = {c1, c2}
  MaxReceive = 3
  BatchSize = 2
  envelope <- MCEnvelope
SPECIFICATION FairSpec
INVARIANTS
  TypeOK
  HandledOnce
  LeavesForAReason
PROPERTIES
  OvertakesOnlyFailed
  EveryMessageLeaves
CHECK_DEADLOCK FALSE
