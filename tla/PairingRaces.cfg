CONSTANTS
  Pairings = {p1, p2}
  Devices = {d1, d2}
  Claimers = {c1, c2}
  None = none
  MaxFaults = 1
SPECIFICATION FairSpec
INVARIANTS CodeUsedOnce ActiveOnlyAfterProof
PROPERTIES PollEnds KeepsEnrolment
CHECK_DEADLOCK FALSE
