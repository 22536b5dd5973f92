CONSTANTS
  Profiles = {p1, p2}
  NoProfile = none
  Processes = {q1, q2}
  NoProcess = nowhere
  Requests = {a1, a2}
  Nobody = nobody
  Providers = {{"primary", "backup"}, {}}
  MaxRetries = 1
  Timeout = 1
  Reading = 1
  Ttl = 3
  MaxFaults = 1
SPECIFICATION FairSpec
INVARIANTS InFlightIsLive GeneratingIsShown CompletedIsStored
PROPERTIES AnsweredEventually
