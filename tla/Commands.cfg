CONSTANTS
  Commands = {c1, c2}
  MaxDrops = 1
SPECIFICATION FairSpec
INVARIANTS
  RedeliveryBounded
  DoneHasRun
PROPERTIES
  OffroadOnly
  QueuedDelivered
CHECK_DEADLOCK FALSE
