\* An upstream URL that httpx refuses.
CONSTANTS
  s = s
  g = g
  i = i
  u = u
  Requests = {g}
  Kind <- OfEachKind
  Logged = {g}
  Capacity = 1
  Mishaps = {"build"}
SPECIFICATION Spec
INVARIANTS ReservationReturned
CHECK_DEADLOCK FALSE
