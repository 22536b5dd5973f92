CONSTANTS
  p1 = p1
  p2 = p2
  Profiles = {p1, p2}
  NoProfile = none
  Risky <- MCRisky
  DayLength = 3
  LocalShift = 1
  PushTick = 1
  LatestTick = 1
  Cooldown = 2
  MaxTime = 4
  MaxChanges = 2
  MaxFaults = 1
SPECIFICATION LunarSpec
INVARIANTS JobsAreInRange TwiceOnlyAcrossMidnight
