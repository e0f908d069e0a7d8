CONSTANTS
  s1 = s1
  s2 = s2
  r1 = r1
  Sockets = {s1, s2}
  Requests = {r1}
  Reaper = reaper
  Browser = browser
  None = none
  Situations <- PresenceSituations
SPECIFICATION FairSpec
INVARIANTS TypeOK RegistryOpen LiveSocketReachable ShownConsistent
PROPERTIES PhantomRowCleared
CHECK_DEADLOCK FALSE
