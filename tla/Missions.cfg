CONSTANTS
  Mission = {1, 2}
  Retired = {3}
  Cfg <- MCCfg
  DaysPerWeek = 2
  DaysPerMonth = 3
  DaysPerYear = 3
  Begin = 3
  Until = 7
  MaxQueue = 3
  MaxCrashes = 1
SPECIFICATION Spec
INVARIANTS MissionsFresh PrizePaid PrizeOnce
PROPERTIES NoEarlyReset
CHECK_DEADLOCK FALSE
