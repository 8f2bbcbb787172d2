SPECIFICATION Spec
CONSTANTS
  ui = ui
  bg = bg
  p1 = p1
  p2 = p2
  e1 = e1
  e2 = e2
  n1 = n1
  n2 = n2
  Event = {e1, e2}
  Notif = {n1}
  Pull = {p1, p2}
  Isolate = {ui, bg}
  IsolateOf <- OneIsolate
  Limit = 2
  Window = 2
  Margin = 1
  StaleAfter = 1
  Skew = 1
  NoRow = NoRow
  NoMessage = NoMessage
  MaxSeq = 4
  MaxTime = 2
  MaxFailures = 1
INVARIANTS CacheKeepsUp NeverEarly ShownIsFinal
PROPERTIES Delivered
CHECK_DEADLOCK FALSE
