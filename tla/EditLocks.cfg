CONSTANTS
  p1 = p1
  p2 = p2
  Profiles = {p1, p2}
  NoProfile = none
  r1 = r1
  w = w
  Actors = {r1, w}
  Worker = w
  LocksOn = {TRUE}
  MaxLevel = 2
  LongestLock = 2
  MaxDay = 1
  MaxEdits = 2
  MaxFaults = 0
  Workdays <- MCWorkdays
  Score <- MCScore
  StartOf <- MCStart
  MinScore = 68
  SafetyScore = 62
  MonthDays = 3
  MonthlyTarget = 2
  Spacing = 2
  Horizon = 3
  Threshold = 1
  RefillDays = 1
SPECIFICATION WindowSpec
PROPERTIES EditLocksHold
