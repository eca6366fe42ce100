SPECIFICATION Spec
CONSTANTS
  VolumeBlocks = 3
  EntriesPerPage = 2
  MaxPayload = 2
  BackingBlocks = 12
  LogStart = 4
  Batch = 1
  Zero = z
  Values = {z, v1}
  Corrupt = corrupt
  OpenOptions <- ShortTail
  MaxFaults = 1
  PowerLossOn = FALSE
INVARIANTS
  TailBounded
