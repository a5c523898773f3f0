SPECIFICATION Spec
CONSTANTS
  s = s
  a = a
  b = b
  c = c
  Free = Free
  NoTask = NoTask
  Worker = {w1,w2}
  Url <- ThreeUrls
  StartUrl = s
  MaxDepth = 3
  Webs <- FanWebs
  Faults <- NoFaults

SYMMETRY Threads
INVARIANTS
  VisitedReadSynchronised
