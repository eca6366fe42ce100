SPECIFICATION IoSpec
CONSTANTS
  Limit = 7
  Lengths = {3, 5}
  MaxU64 = 8
  Attempts = 2
  UserData = {1}
  QueueEntries = 2
INVARIANT
  BuffersOutliveUse
