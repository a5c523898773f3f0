SPECIFICATION FairSpec
CONSTANTS
  a = a
  b = b
  c1 = c1
  c2 = c2
  x = x
  y = y
  w1 = w1
  w2 = w2
  p1 = p1
  p2 = p2
  NoDoc = NoDoc
  NoJob = NoJob
  NoAnswer = NoAnswer
  Url <- Urls
  Content <- Contents
  Word <- TwoWords
  Index <- Counts
  Process = {p1,p2}
  Writer = {w1,w2}
  ProcessOf <- TwoCrawlers
  Queries <- NoSearch
  Limit = 2
  IntMax = 100
  MaxJobs = 3
  Faults <- NoFaults
PROPERTIES
  JobsEnd
CHECK_DEADLOCK FALSE
