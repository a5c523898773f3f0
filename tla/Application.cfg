SPECIFICATION Spec
CONSTANTS
  s = s
  a = a
  b = b
  NoDoc = NoDoc
  Page = Page
  NoNumber = NoNumber
  Url <- Urls
  StartUrl = s
  Webs <- Web1
  Modes <- ModeKind
  SettingSets <- Inis
  Taken = {5432}
  MaxLines = 2
  Faults <- FaultKind
INVARIANTS
  TypeOK
  PromptMeansIndexed
  ThreadsEndFirst
  ListensWhereSaid
PROPERTIES
  CommandsEnd
