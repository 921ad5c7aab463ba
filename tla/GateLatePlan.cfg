\* Two plan lookups in flight, the later answer a failure.
CONSTANTS
  r1 = r1
  r2 = r2
  r3 = r3
  r4 = r4
  Requests = {r1, r2}
  Costs = {2}
  ConfigLimit = 0
  PlanLimits = {4}
  SnapshotCosts = {0}
  Impatient = {}
  Abortable = {}
  SwallowsCancel = FALSE
SPECIFICATION Spec
PROPERTY PlanSticky
CHECK_DEADLOCK FALSE
