SPECIFICATION Spec
CONSTANTS
  None = None
  Client = {c1,c2}
  MaxRequests = 1
SYMMETRY Connections
INVARIANTS
  WriteErrorOwn
CHECK_DEADLOCK FALSE
