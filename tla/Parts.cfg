SPECIFICATION Spec
CONSTANTS
  Values <- RangeValues
  MinBytes = 2
  MaxBytes = 3
  MaxText = 4
  Host = {"h"}
  Name = {"p", "q"}
  MaxPath = 3
  Null = Null
  Thrown = Thrown
  MaxTx = 2
  MaxWrites = 2
  Kinds <- TwoKinds
  MaxQueries = 3
  MaxRetain = 2
  MaxRows = 4
  MaxStride = 3
  StreamRows = 3
  MaxStep = 2
  MaxPos = 4
  Iter = {1, 2, 3}
  Blob = {1, 2}
  Byte = {0, 1}
  MaxSize = 2
  ChunkLimit = 1
  MaxFile = 4
  BufSize = 2
  None = None
  Channel = {c1, c2}
  Receiver = {r1, r2}
  Handler = {h1, h2}
  MaxSent = 2
INVARIANTS
  TypedAsIndexed
  OneUrlPerPage
  FieldsKept
  ValuesKept
  AllOrNothing
  SessionClean
  RetriedMeansUndone
  PipelineInOrder
  CursorsInPlace
  ObjectsWhole
  ReceiversServed
CHECK_DEADLOCK FALSE
