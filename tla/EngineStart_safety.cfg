SPECIFICATION ESFairSpec
CONSTANTS
  Engines = {a, b}
  Subnets = {s1, s2}
  NoSubnet = NoSubnet
  NoNetwork = NoNetwork
  NumRanges = 2
  NumObjects = 2
  MaxFaults = 2
  UserFiles <- MCUserFiles
INVARIANTS
  ESTypeOK
  ServesWhenReady
  NetworkIsGuarded
  RulesAreFew
  ServesWithWholeConfig
PROPERTY
  Recovers
CHECK_DEADLOCK FALSE
