CONSTANTS
  BlockCount = 2
  MaxVersion = 3
  MaxRejected = 1
  MaxRequests = 3
  Faults = {"StaleRead", "MisdirectedWrite", "IgnoredDiscard", "LostFlush", "UnflushedDiscard", "Resurrection", "RejectedWriteLands"}
SPECIFICATION Spec
INVARIANTS CheckerInv VerdictExact NoFalseAlarm
CHECK_DEADLOCK FALSE
