SPECIFICATION Spec
CONSTANTS
  c1 = c1
  c2 = c2
  Clients = {c1, c2}
  Urls = {"old", "new", "fest", "plain"}
  Identity <- Ids
  NoIdentity = "none"
  Clubs = {"club"}
  Null = "null"
  Payloads <- Uploads
  Names = {"n1"}
  Pieces = {"piece"}
  Changes <- Decisions
  Starts <- StartPools
  Agendas <- Agenda
  Moments = {2, 4}
  MaxTime = 4
INVARIANTS IdenticalRepushBumpsNothing
SYMMETRY Symmetry
CHECK_DEADLOCK FALSE
