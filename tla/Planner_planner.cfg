SPECIFICATION PlannerSpec
CONSTANTS
  HoursPerDay = 8
  NoEnd = NoEnd
  Garbage = Garbage
  NotCached = NotCached
  DaysPerWeek = 5
  WeekCap = 2
  MinGapDays = 2
  Before = 2
  After = 1
  PriceExclude = 3000
  ClampRatio = 5
  ClampFactor = 4
  Ttl = 2
  Now = 3
  WeeklyLast = 8
  SeasonLast = 9
  Worlds <- MCWorlds
INVARIANTS OffersAreFree VerdictsAreExact
CHECK_DEADLOCK FALSE
