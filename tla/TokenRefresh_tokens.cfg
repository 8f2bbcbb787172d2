\* Two isolates of one process or of two, and the user; one lost request or kill.
SPECIFICATION Spec
CONSTANTS
  Isolate = {ui, bg}
  Ui = ui
  User = user
  None = None
  AccessTTL = 1
  RefreshTTL = 2
  Grace = 0
  MaxTokens = 2
  MaxTime = 3
  MaxFailures = 1
INVARIANTS OneLiveToken PairIsCurrent SessionKept
PROPERTY DeadPairIsDropped
CHECK_DEADLOCK FALSE
