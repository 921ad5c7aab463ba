CONSTANTS
  s1 = s1
  s2 = s2
  x1 = x1
  x2 = x2
  x3 = x3
  Servers = {s1, s2}
  Featherless = {s1}
  Exchanges = {x1, x2, x3}
  ServerOf <- MCServerOf
  MaxSignals = 3
SPECIFICATION FairSpec
INVARIANTS
  NoRecordLost
  LogsAreClosed
PROPERTY Stops
CHECK_DEADLOCK FALSE
