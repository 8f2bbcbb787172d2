SPECIFICATION Spec
CONSTANTS
  Scrapers = {"s1", "s2"}
  NoOne = "nobody"
  Versions = {"v1", "v2"}
  Gone = "gone"
  None = "none"
  Day = 2
  MaxAge = 8
  CooldownBase = 1
  CooldownMax = 3
  RunEvery = 2
  Agendas <- Hosts
INVARIANTS BudgetKept
PROPERTIES CooldownKept ServedIsConfirmed EveryPageChecked
CHECK_DEADLOCK FALSE
