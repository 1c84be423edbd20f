SPECIFICATION FSSpec
CONSTANTS
  q1 = q1
  q2 = q2
  n1 = n1
  n2 = n2
  i1 = i1
  e1 = e1
  Creates = {q1, q2}
  Names = {n1, n2}
  BadName = BadName
  Images = {i1}
  Envs = {e1}
  TimeoutInputs = {0}
  MemoryInputs = {0}
  NoRow = NoRow
  DBMayFail = FALSE
SYMMETRY MCSymmetry
INVARIANT DuplicateNameIsConflict
