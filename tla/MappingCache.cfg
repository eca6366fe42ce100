CONSTANTS
  PageTotal = 5
  BufferBlocks = 2
  Budgets = {0, 8200, 12227, 12228}
  DefaultBytes = 100
  SlotBytes = 4040
  ReadAhead = 4
  ColdWindow = 2
SPECIFICATION Spec
INVARIANTS CacheInv SizingExact NeverStuck BatchIntact
PROPERTY DirtyKept
CHECK_DEADLOCK FALSE
