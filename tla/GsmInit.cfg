CONSTANTS
  QSIZE = 1
  HQSIZE = 1
  MAX_RETRIES = 2
  INIT_CGATT_RETRY_MAX = 1
  BaudCandidates = 2
SPECIFICATION FairSpec
INVARIANTS
  ContactBeforeUse
  OnlyOldContactSticks
PROPERTIES
  InitProgresses
  SearchTriesAll
