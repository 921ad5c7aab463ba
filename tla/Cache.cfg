\* Two credentials, four handlers, refreshes that fail, a model that comes and goes.
CONSTANTS
  k1 = k1
  k2 = k2
  m1 = m1
  m2 = m2
  c1 = c1
  c2 = c2
  c3 = c3
  c4 = c4
  NoKey = NoKey
  Models = {m1}
  Keys = {k1, k2}
  Calls = {c1, c2, c3, c4}
  KeyOf <- TwoKeys
  Ttl = 2
SPECIFICATION FairSpec
INVARIANTS NoForeignAvailability SoleKeyIsFresh WarnsOnce LockIsHeld
PROPERTIES KeptThroughFailure EveryCallReturns
