CONSTANTS
  QSIZE = 1
  HQSIZE = 1
  TX_SIZE = 1
  REATTACH_FAILS = 2
  FAILS_MAX = 2
SPECIFICATION Spec
PROPERTIES
  ReattachWhileFailing
