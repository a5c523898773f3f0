SPECIFICATION LeavingSpec
CONSTANTS
  None = None
  Client = {c1,c2}
  MaxRequests = 1
PROPERTIES
  ClientsAccepted
CHECK_DEADLOCK FALSE
