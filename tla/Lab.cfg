CONSTANTS
  Ids = {0, 1, 2}
  FioRounds = 2
  FsRounds = 2
  MaxIo = 2
SPECIFICATION Spec
INVARIANTS LabInv PassIsClean ForeignUntouched MeasuredOnce
PROPERTY MountKeepsDaemon
CHECK_DEADLOCK FALSE
