\* A snapshot that stays high after the last release.
CONSTANTS
  r1 = r1
  r2 = r2
  r3 = r3
  r4 = r4
  Requests = {r1, r2}
  Costs = {2}
  ConfigLimit = 2
  PlanLimits = {}
  SnapshotCosts = {0, 2}
  Impatient = {}
  Abortable = {}
  SwallowsCancel = FALSE
SPECIFICATION Spec
INVARIANT BusyIsPolled
CHECK_DEADLOCK FALSE
