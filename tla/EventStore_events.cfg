SPECIFICATION Spec
CONSTANTS
  s1 = s1
  s2 = s2
  n1 = n1
  n2 = n2
  n3 = n3
  Session = {s1, s2}
  Event = {"e1"}
  NotifId = {n1, n2, n3}
  Field <- Fields
  Watched = {"notes"}
  Val = {"a", "b"}
  Op <- Ops
  NoRow = NoRow
  NoMessage = NoMessage
  Window = 2
  Margin = 1
  Workloads <- Loads
SYMMETRY Symmetry
INVARIANTS AnswerMatchesLog AppliedAtMostOnce LastChangeHasVersion OneOpenNotification
           NothingPendingOfDeleted FeedInv
PROPERTIES DeletionIsFinal ImplementsFeed
CHECK_DEADLOCK FALSE
