SPECIFICATION Spec
CONSTANTS
  VolumeBlocks = 2
  EntriesPerPage = 1
  MaxPayload = 1
  BackingBlocks = 10
  LogStart = 4
  Batch = 2
  Zero = z
  Values = {z, v1}
  Corrupt = corrupt
  OpenOptions <- MidAndSmall
  MaxFaults = 2
  PowerLossOn = TRUE
INVARIANTS
  RootIntact
  RecoveredQuiet
