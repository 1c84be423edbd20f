SPECIFICATION CMFairSpec
CONSTANTS
  c1 = c1
  c2 = c2
  i1 = i1
  Calls = {c1, c2}
  Images = {i1}
  NoImage = NoImage
  ExitCodes <- MCExitCodes
  Background = {c2}
  Prunable = {i1}
  DaemonMayFail = TRUE
INVARIANTS
  CMTypeOK
  ResultIsExitCode
  ContainersAccountedFor
  KnownImagesPresent
PROPERTIES
  KilledOnlyAfterReturn
  ImplementsFunctionRun
  CallReturns
  LeftoverRemoved
