\* A limit behind a sensitive name.
CONSTANTS
  Size = 2
  MaxRecords = 5
  Exchanges <- MCExchanges
  JsonValues <- MCJsonValues
  Depth <- MCDepth
  Loads <- MCLoads
  Refused <- MCRefused
  Ways <- MCWays
  Settings <- MCSettings
  ChunkSizes = {1, 3}
SPECIFICATION LogSpec
INVARIANT CutBodiesKeepSecrets
CHECK_DEADLOCK FALSE
