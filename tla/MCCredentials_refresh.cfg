SPECIFICATION Spec
CONSTANTS
  s1 = s1
  k1 = k1
  k2 = k2
  c1 = c1
  c2 = c2
  c3 = c3
  l1 = l1
  l2 = l2
  n1 = n1
  n2 = n2
  Sites = {s1}
  Clients = {k1, k2}
  SiteOf <- MCSiteOf
  Calls = {c1, c2, c3}
  ClientOf <- MCClientOf
  Logins = {l1, l2}
  Nonces = {n1}
  MaxPairs = 3
  MaxCrashes = 1
INVARIANTS
  TypeOK
  MutexHeld
  RowIsUsable
  RetryIsFresh
SYMMETRY MCSymmetry
CHECK_DEADLOCK FALSE
