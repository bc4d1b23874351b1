\* One message a business rule refuses.
CONSTANTS
  m1 = m1  reused = reused  c1 = c1  c2 = c2
  Null = Null
  Message = {m1}
  Malformed = {}
  Consumer = {c1}
  MaxReceive = 2
  BatchSize = 2
  envelope <- MCEnvelope
SPECIFICATION Spec
INVARIANT DeletedIsDurable
CHECK_DEADLOCK FALSE
