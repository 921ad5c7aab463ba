\* Details without a usable cost end an episode for the code, not in truth.
CONSTANTS
  k1 = k1
  k2 = k2
  m1 = m1
  m2 = m2
  c1 = c1
  c2 = c2
  c3 = c3
  c4 = c4
  NoKey = NoKey
  Models = {m1}
  Keys = {k1}
  Calls = {c1}
  KeyOf <- TwoKeys
  Ttl = 2
SPECIFICATION Spec
INVARIANT WarnsOncePerEpisode
