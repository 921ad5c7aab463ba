\* Cancellation as in Python 3.11, the server cancelling no handler.
CONSTANTS
  r1 = r1
  r2 = r2
  r3 = r3
  r4 = r4
  Requests = {r1, r2}
  Costs = {2}
  ConfigLimit = 2
  PlanLimits = {}
  SnapshotCosts = {0}
  Impatient = {r1, r2}
  Abortable = {}
  SwallowsCancel = TRUE
SPECIFICATION Spec
INVARIANT NoLostUnits
CHECK_DEADLOCK FALSE
