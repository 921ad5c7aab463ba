\* The limit looked up per request, plans of 1 and 4 around the fallback cap of
\* 2; cancellation as in Python 3.12 and later.
CONSTANTS
  r1 = r1
  r2 = r2
  r3 = r3
  r4 = r4
  Requests = {r1, r2, r3}
  Costs = {1, 2}
  ConfigLimit = 0
  PlanLimits = {1, 4}
  SnapshotCosts = {0, 2}
  Impatient = {r1}
  Abortable = {}
  SwallowsCancel = FALSE
SPECIFICATION FairSpec
INVARIANT NoLostUnits
PROPERTY Answered
CHECK_DEADLOCK FALSE
