SPECIFICATION Spec
CONSTANTS
  o1 = o1
  o2 = o2
  k1 = k1
  k2 = k2
  k3 = k3
  Owner = {o1, o2}
  NoOwner = NoOwner
  Key = {k1, k2, k3}
  NoKey = NoKey
  TTL = 2
  MaxTime = 3
SYMMETRY Symmetry
PROPERTY ExpiredStaysExpired
