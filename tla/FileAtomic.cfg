SPECIFICATION FairSpec
CONSTANTS
  c1 = c1
  c2 = c2
  factory = factory
  absent = absent
  torn = torn
  Configs <- MCConfigs
  Factory = factory
  Absent = absent
  Torn = torn
  MaxFaults = 2
  MaxCuts = 2
INVARIANTS
  TornByShortCount
  CopyKept
PROPERTIES
  IsDurableCell
  Settles
