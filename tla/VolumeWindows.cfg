SPECIFICATION FairSpec
CONSTANTS
  VolumeBlocks = 3
  EntriesPerPage = 1
  MaxPayload = 1
  BackingBlocks = 12
  LogStart = 4
  Batch = 2
  Zero = z
  Values = {z, v1}
  Corrupt = corrupt
  OpenOptions <- SmallAndLarge
  MaxFaults = 2
  PowerLossOn = FALSE
INVARIANTS
  ReservedSpace
  AssertionsHold
  LiveExact
  RootIntact
  RecoveredPrefix
PROPERTIES
  CallsFinish
  AppendOnly
  RefinesDevice
