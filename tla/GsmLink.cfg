CONSTANTS
  MAX_RETRIES = 2
  TCP_CLOSED_REATTACH_THRESHOLD = 2
  HasUser = FALSE
SPECIFICATION FairSpec
PROPERTIES
  BringupSettles
  RestartHappens
  RequestsServed
