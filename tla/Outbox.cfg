\* Two replicas and two events, both of which fit a batch.
CONSTANTS
  e1 = e1  e2 = e2  p1 = p1  p2 = p2
  Null = Null  Gone = Gone
  Event = {e1, e2}
  Publisher = {p1, p2}
  BatchLimit = 2
  MaxAccepted = 1
SPECIFICATION FairSpec
INVARIANT TypeOK
PROPERTIES
  ImplementsRelay
  ClaimIsKept
  EventuallyPublished
