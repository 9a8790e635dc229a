SPECIFICATION FairSpec
CONSTANTS
  phone = phone
  laptop = laptop
  Clients <- MCBoth
INVARIANTS
  UpdatesInTurn
  ExpiredIsCutOff
  PressureHasUpload
PROPERTIES
  OnlyLostLeaks
  OtaEnds
  UpdateKeepsModes
