SPECIFICATION Spec
CONSTANTS
  Clients = {c1, c2}
  Candidates = {"concert"}
  Halls = {"old", "fresh"}
  Shows <- FirstShows
  Creations <- Asked
  Null = "null"
  Patience = 1
  Agendas <- Work
  MaxVersion = 3
INVARIANTS OneMail FoundIsAnnounced
PROPERTIES NoWatchStarves
CHECK_DEADLOCK FALSE
