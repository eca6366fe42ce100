SPECIFICATION IoFairSpec
CONSTANTS
  Limit = 7
  Lengths = {3, 5}
  MaxU64 = 8
  Attempts = 2
  UserData = {1}
  QueueEntries = 2
INVARIANTS
  LedgerInv
  SnapshotCoherent
  NeverInvalid
  BudgetHolds
  NoOverflow
  BackingIoInv
  AccountedExact
PROPERTY
  SnapshotEnds
