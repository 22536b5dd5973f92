CONSTANTS
  Users = {u1, u2, u3, u4}
  Nobody = nobody
  Requests = {r1, r2}
  AppleSubs = {s1}
  NoSub = none
  AccessTtl = 1
  RefreshTtl = 2
  SeenInterval = 1
  StartMax = 2
  StartWindow = 2
  MaxTime = 2
  MaxPairs = 3
  MaxFaults = 1
SPECIFICATION Spec
SYMMETRY UserSymmetry
INVARIANTS KeepsAccess StartsBounded
PROPERTIES RevokedStaysRevoked
