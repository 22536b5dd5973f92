SPECIFICATION Spec
CONSTANTS
  r1 = r1
  r2 = r2
  r3 = r3
  v1 = v1
  v2 = v2
  Roles = {r1, r2, r3}
  Versions = {v1, v2}
  Seeds <- MCSeeds
  Score <- MCScore
  Domain <- MCDomain
  Processes = {p1, p2}
  NoProcess = noProcess
  Actors = {a1, a2}
  Titles = {mason}
  Old = old
  NoTitle = noTitle
  CacheSize = 2
  MaxPerDomain = 1
  Shown = 2
  Candidates = 2
  SearchLimit = 1
  Ttl = 1
  Together <- MCTogether
  MaxSaved = 2
  MaxTime = 1
  MaxRequests = 2
  MaxEdits = 1
  MaxFaults = 1
INVARIANTS CatalogFollowsSeeding AnswersAreCurrent
PROPERTIES StaysChosen ShortlistKeepsNewest
SYMMETRY Symmetric
