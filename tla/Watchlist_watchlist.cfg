SPECIFICATION Spec
CONSTANTS
  u1 = u1
  u2 = u2
  Users = {u1, u2}
  Nobody = nobody
  One = 2
  Starts <- Lists
  Agendas <- Agenda
INVARIANTS SiblingsApart LogIsCurrent
PROPERTIES TreeKept AnchorHonoured
SYMMETRY Symmetry
CHECK_DEADLOCK FALSE
