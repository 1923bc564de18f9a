SPECIFICATION Spec
CONSTANTS
  Players = {p1, p2, p3}
  Sockets = {p1, p2, p3}
  Names = {p1, p2, p3}
  Server = Server
  Null = Null
  Ptrs = {u1, u2, u3}
  Garbage = {"IDLE"}
  Leaves = {"free"}
SYMMETRY Symmetry
INVARIANTS TypeOK    
 
CHECK_DEADLOCK FALSE
