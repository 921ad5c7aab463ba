\* Upstream breaks off a streamed response.
CONSTANTS
  s = s
  g = g
  i = i
  u = u
  Requests = {s}
  Kind <- OfEachKind
  Logged = {s}
  Capacity = 1
  Mishaps = {"stream"}
SPECIFICATION Spec
INVARIANTS EveryExchangeRecorded
CHECK_DEADLOCK FALSE
