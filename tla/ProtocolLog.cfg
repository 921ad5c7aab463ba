\* A queue of two that overflows while the thread is slow, and bodies that come
\* whole or in several chunks.
CONSTANTS
  Size = 2
  MaxRecords = 5
  Exchanges <- MCExchanges
  JsonValues <- MCJsonValues
  Depth <- MCDepth
  Loads <- MCLoads
  Refused <- MCRefused
  Ways <- MCWays
  Settings <- MCSettings
  ChunkSizes = {1, 3}
SPECIFICATION LogSpec
INVARIANTS NothingVanishes FlushedOnClose RecordTellsTheBody RedactsByName
PROPERTY CloseReturns
CHECK_DEADLOCK FALSE
