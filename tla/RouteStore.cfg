SPECIFICATION Spec
CONSTANTS
  drive = drive
  boot = boot
  qcamera = qcamera
  h1 = h1
  h2 = h2
  Routes <- StoreRoutes
  Logs <- StoreLogs
  Files <- OneFile
  Handlers <- StoreHandlers
  Slots = 1
  MaxFaults = 1
SYMMETRY HandlersAlike
INVARIANTS AckedStored GoneStaysGone SlotsAccounted
PROPERTIES ServedUnlessDeleted KeepsArchive
CHECK_DEADLOCK FALSE
