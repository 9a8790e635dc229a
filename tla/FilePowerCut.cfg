SPECIFICATION Spec
CONSTANTS
  c1 = c1
  c2 = c2
  factory = factory
  absent = absent
  torn = torn
  Configs <- MCConfigs
  Factory = factory
  Absent = absent
  Torn = torn
  MaxFaults = 0
  MaxCuts = 1
INVARIANTS
  OldOrNew
