CONSTANTS
  Scans = {s1, s2}
  Jobs = {j1}
  Postings = {p1}
  Profiles = {a1}
  PageTtl = 1
  NegativeTtls = {1}
  Legacy = {{"full"}}
  FullLimit = 1
  MaxTime = 1
SPECIFICATION Spec
SYMMETRY ScanSymmetry
INVARIANTS NoChallengeServed GivenIsReopenable
PROPERTIES FreshPageSurvives HistoryKeepsNewest
