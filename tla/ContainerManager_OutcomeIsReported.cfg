SPECIFICATION CMSpec
CONSTANTS
  c1 = c1
  i1 = i1
  Calls = {c1}
  Images = {i1}
  NoImage = NoImage
  ExitCodes <- MCExitCodes
  Background = {}
  Prunable = {}
  DaemonMayFail = FALSE
INVARIANT OutcomeIsReported
