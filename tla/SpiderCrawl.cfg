SPECIFICATION FairSpec
CONSTANTS
  s = s
  a = a
  b = b
  c = c
  Free = Free
  NoTask = NoTask
  Worker = {w1,w2}
  Url <- FourUrls
  StartUrl = s
  MaxDepth = 3
  Webs <- ChainWebs
  Faults <- AllFaults
INVARIANTS
  TypeOK
  StopMeansNoWork
  FetchedOnce
  NoLinkLost
  DepthBounded
  Inductive
PROPERTIES
  RefinesCrawl
  SpiderFinishes
  WorkersExit
