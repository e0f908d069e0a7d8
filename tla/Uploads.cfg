SPECIFICATION Spec
CONSTANTS
  MaxSeg = 2
  MaxRows = 2
  Configs <- UploadConfigs
  TooBig <- BigFiles
  Scenarios <- UploadScenarios
INVARIANTS MarkedLanded OneRowInTurn
PROPERTIES TrackGrows EveryFileLands
CHECK_DEADLOCK FALSE
