SPECIFICATION FairSpec
CONSTANTS
  None = None
  Client = {c1,c2}
  MaxRequests = 2
INVARIANTS
  TypeOK
  OneAccept
  DeadlineOwn
  OneOperation
  AnswersOwnRequest
PROPERTIES
  SilentDropped
  StopReturns
CHECK_DEADLOCK FALSE
