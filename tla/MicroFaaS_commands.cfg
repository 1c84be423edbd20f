SPECIFICATION SYFairSpec
CONSTANTS
  n1 = n1
  n2 = n2
  Calls = {r1}
  Background = {}
  Images = {i1, i2}
  NoImage = NoImage
  ExitCodes <- MCExitCodes
  Prunable = {i1}
  DaemonMayFail = TRUE
  Creates = {q1}
  Lists = {}
  Names = {n1, n2}
  BadName = BadName
  PathName <- MCPathName
  NoRoute = NoRoute
  BadURL = BadURL
  Envs = {e1}
  TimeoutInputs = {0}
  MemoryInputs = {0}
  TestImage = i1
  NoRow = NoRow
  NoEnv = NoEnv
  DBMayFail = TRUE
INVARIANTS
  ContainersOfNamedFunction
  RecordsOfRuns
PROPERTIES
  ImplementsCommandLine
  RequestIsAnswered
  RunIsRecorded
  CommandsEnd
