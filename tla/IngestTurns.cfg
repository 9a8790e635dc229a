SPECIFICATION FairSpec
CONSTANTS
  cfg1 = cfg1
  prog1 = prog1
  heat = heat
  start = start
  Posts <- MCPosts
  Kind <- MCKind
  Target <- MCTarget
  Ids <- MCIds
  MaxPrograms = 1
  MaxSlots = 2
  Overlap = {}
INVARIANTS
  OneFlashUser
  StoredIsWhole
PROPERTIES
  StaleIndexReported
  OnlyDropLeaks
  BusyEndsUnlessDropped
