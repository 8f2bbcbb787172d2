SPECIFICATION Spec
CONSTANTS
  event = event
  item = item
  Entity = {event, item}
  Optimistic = {item}
  Edits <- MixedEdits
  Limit = 2
  None = None
  MaxOps = 3
  MaxVersion = 2
  MaxFailures = 1
INVARIANTS EffectOnce EditsInOrder NothingForgotten ConflictIsReal
PROPERTIES PushEndsOrWedges
CHECK_DEADLOCK FALSE
