SPECIFICATION FairSpec
INVARIANTS
  DaemonInv
  StopDrains
  ExitHonest
PROPERTIES
  StopFinal
  StopEnds
