SPECIFICATION Spec
CONSTANTS
  s = s
  a = a
  b = b
  c = c
  Free = Free
  NoTask = NoTask
  Worker = {w1,w2,w3}
  Url <- ThreeUrls
  StartUrl = s
  MaxDepth = 2
  Webs <- AllWebs
  Faults <- NoFaults
SYMMETRY Threads
INVARIANTS
  DepthCovered
  NothingDeeper
  VisitedReadSynchronised
