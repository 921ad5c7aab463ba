\* A configured limit of 3, four requests of cost 1 or 2, every way of leaving.
CONSTANTS
  r1 = r1
  r2 = r2
  r3 = r3
  r4 = r4
  Requests = {r1, r2, r3, r4}
  Costs = {1, 2}
  ConfigLimit = 3
  PlanLimits = {}
  SnapshotCosts = {0, 2}
  Impatient = {r1, r2, r3, r4}
  Abortable = {r1, r2, r3, r4}
  SwallowsCancel = TRUE
SPECIFICATION Spec
SYMMETRY Symmetry
INVARIANTS TypeOK Accounting WithinLimit NoFittingWaiter ReservedIsPolled
PROPERTIES NoOvertaking ImplementsBudget
CHECK_DEADLOCK FALSE
