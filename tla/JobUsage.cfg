CONSTANTS
  Scans = {s1}
  Jobs = {j1, j2}
  Postings = {p1, p2}
  Profiles = {a1}
  PageTtl = 1
  NegativeTtls = {1}
  Legacy = {{"full"}}
  FullLimit = 1
  MaxTime = 0
SPECIFICATION Spec
INVARIANTS FullWithinLimit
