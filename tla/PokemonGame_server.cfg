SPECIFICATION Spec
CONSTANTS
  Players = {p1, p2}
  Sockets = {p1, p2}
  Names = {p1, p2}
  Server = Server
  Null = Null
  Ptrs = {u1, u2}
  Garbage = {"IDLE"}
  Leaves = {"free"}
SYMMETRY Symmetry
INVARIANT ServerSurvives
CHECK_DEADLOCK FALSE
