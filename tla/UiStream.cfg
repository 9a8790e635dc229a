SPECIFICATION UiFairSpec
CONSTANTS
  Pages = {"p1", "p2"}
  MAX_SESSIONS = 1
  SESSION_TIMEOUT = 2
  AP_TIMEOUT = 2
  QUEUE_MAX = 2
  Environments <- MCEnvironments
  MaxEvents = 5
INVARIANTS
  BaselineInOrder
PROPERTIES
  ViewConverges
  
