SPECIFICATION Spec
CONSTANTS
  NonOff = {"on"}
  Scenarios <- RestoredGuarded
  MaxChanges = 1
  MaxDrops = 0
PROPERTY ArmedOnlyOnDevice
CHECK_DEADLOCK FALSE
