\* Plan lookups shorter than the idle time of a gate.
CONSTANTS
  a = a
  b = b
  r1 = r1
  r2 = r2
  r3 = r3
  NoGate = NoGate
  Requests = {r1, r2, r3}
  Keys = {a, b}
  KeyOf <- TwoAndOne
  Limit = 1
  Configured = FALSE
  LookupTime = 1
  PollIdle = 1
  SweepIdle = 2
SPECIFICATION FairSpec
INVARIANTS TypeOK OneBudgetPerKey LiveIsRegistered NoPollAfterClose
PROPERTY UnusedGatesGo
CHECK_DEADLOCK FALSE
