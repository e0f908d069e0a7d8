SPECIFICATION FairSpec
CONSTANTS
  NonOff = {"on"}
  Scenarios <- SettingScenarios
  MaxChanges = 2
  MaxDrops = 1
INVARIANTS MirrorWasHeld MirrorSettles
PROPERTIES ChangeNeverArms ChangesAnswered
CHECK_DEADLOCK FALSE
