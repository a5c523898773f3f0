SPECIFICATION Spec
CONSTANTS
  s = s
  a = a
  b = b
  c = c
  Free = Free
  NoTask = NoTask
  Worker = {w1,w2}
  Url <- FourUrls
  StartUrl = s
  MaxDepth = 3
  Webs <- ChainWebs
  Faults <- NoFaults

INVARIANTS
  DepthCovered
