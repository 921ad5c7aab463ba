\* A captured body that json.loads refuses when the final record is made.
CONSTANTS
  s = s
  g = g
  i = i
  u = u
  Requests = {g}
  Kind <- OfEachKind
  Logged = {g}
  Capacity = 1
  Mishaps = {"redact"}
SPECIFICATION Spec
INVARIANTS ReservationReturned
CHECK_DEADLOCK FALSE
