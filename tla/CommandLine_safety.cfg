SPECIFICATION CLSpec
CONSTANTS
  n1 = n1
  n2 = n2
  n3 = n3
  r1 = r1
  r2 = r2
  Calls = {r1, r2}
  TestRuns = {}
  Creates = {q1}
  Lists = {l1}
  Names = {n1, n2, n3}
  BadName = BadName
  PathName <- MCPathName
  NoRoute = NoRoute
  BadURL = BadURL
  Images = {i1}
  Envs = {e1}
  TimeoutInputs = {0}
  MemoryInputs = {0}
  NoRow = NoRow
  NoEnv = NoEnv
  ExitCodes <- MCOneExitCode
  DBMayFail = TRUE
SYMMETRY MCSymmetry
INVARIANTS
  CLTypeOK
  AnnouncementsAreTrue
  ScriptsWork
