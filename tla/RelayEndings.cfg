\* Every way of ending, and every mishap.
CONSTANTS
  s = s
  g = g
  i = i
  u = u
  Requests = {s, g, i, u}
  Kind <- OfEachKind
  Logged = {s, g, i}
  Capacity = 1
  Mishaps = {"build", "body", "parse", "gate", "cancel", "stream", "redact", "abandon"}
SPECIFICATION Spec
INVARIANTS ReservationReturnedUnlessRaised UnitsAreRelays ClientsClosed RecordsInOrder RecordedUnlessMishap
CHECK_DEADLOCK FALSE
