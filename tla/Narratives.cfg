CONSTANTS
  Profiles = {p1, p2}
  NoProfile = none
  Actors = {a1, w}
  Worker = w
  Tasks = {t1, t2}
  LlmOn = {TRUE, FALSE}
  RetryAfter = 1
  MaxTime = 1
  MaxRequests = 3
  MaxEdits = 2
  MaxFaults = 1
SPECIFICATION FairSpec
INVARIANTS OwnUntilLeft PendingIsServed
PROPERTIES ReadyIsKept PendingResolves
