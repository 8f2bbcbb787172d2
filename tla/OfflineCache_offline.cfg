\* A pull's refresh beside a second one or the viewer; an edit of the event, one failure.
SPECIFICATION CacheSpec
CONSTANTS
  e1 = e1
  pull = pull
  other = other
  t1 = t1
  poster = poster
  Event = {e1}
  Ticket = {t1}
  EventOf <- OneTicket
  Image = {poster}
  UsedBy <- OneImage
  Puller = {pull}
  Second = {other}
  Viewer = {other}
  Grace = 1
  None = None
  Starts = {0, 2}
  FirstStart = {0}
  MaxTime = 2
  MaxEdits = 1
  MaxFailures = 1
INVARIANTS TornOnlyIfTwice
PROPERTIES ReadyForTheDoor
CHECK_DEADLOCK FALSE
