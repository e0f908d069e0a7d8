CONSTANTS
  Places = {0, 1, 2}
  MinMove = 2
  TrailMax = 2
  SimplifyAt = 1
  MaxDrives = 2
  NoFix = nofix
  Gap = 3
  PresenceTTL = 3
  Interval = 2
  MaxFailures = 1
SPECIFICATION Spec
INVARIANTS TypeOK TrailBounded
PROPERTIES RowFollowsOnroad RowLagBounded KeepsPromise
