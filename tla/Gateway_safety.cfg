SPECIFICATION GWSpec
CONSTANTS
  r1 = r1
  r2 = r2
  q1 = q1
  q2 = q2
  n1 = n1
  n2 = n2
  i1 = i1
  e1 = e1
  e2 = e2
  Calls = {r1, r2}
  TestRuns = {}
  Creates = {q1, q2}
  Names = {n1, n2}
  BadName = BadName
  Images = {i1}
  Envs = {e1, e2}
  TimeoutInputs = {0}
  MemoryInputs = {0}
  NoRow = NoRow
  NoEnv = NoEnv
  ExitCodes <- MCExitCodes
  DBMayFail = TRUE
SYMMETRY MCSymmetry
INVARIANTS
  GWTypeOK
  CacheCoherent
  RunsNamedFunction
  ResponsesAreTrue
  RecordsAreTrue
PROPERTY
  ImplementsInvokeService
