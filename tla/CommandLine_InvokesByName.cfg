SPECIFICATION CLSpec
CONSTANTS
  n1 = n1
  n2 = n2
  n3 = n3
  Calls = {r1}
  TestRuns = {}
  Creates = {q1}
  Lists = {}
  Names = {n1, n2}
  BadName = BadName
  PathName <- MCOtherName
  NoRoute = NoRoute
  BadURL = BadURL
  Images = {i1}
  Envs = {e1}
  TimeoutInputs = {0}
  MemoryInputs = {0}
  NoRow = NoRow
  NoEnv = NoEnv
  ExitCodes <- MCExitCodes
  DBMayFail = FALSE
INVARIANT InvokesByName
