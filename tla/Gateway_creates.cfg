SPECIFICATION GWSpec
CONSTANTS
  q1 = q1
  q2 = q2
  n1 = n1
  n2 = n2
  i1 = i1
  e1 = e1
  t1 = t1
  Calls = {t1}
  TestRuns = {t1}
  Creates = {q1, q2}
  Names = {n1, n2}
  BadName = BadName
  Images = {i1}
  Envs = {e1}
  TimeoutInputs <- MCTimeoutInputs
  MemoryInputs <- MCMemoryInputs
  NoRow = NoRow
  NoEnv = NoEnv
  ExitCodes <- MCExitCodes
  DBMayFail = TRUE
SYMMETRY MCSymmetry
INVARIANTS
  FSTypeOK
  CreatedIsFound
  RowsWereRequested
  StoredLimitsInRange
  ResponsesAreTrue
PROPERTY
  NamesKeepTheirFunction
