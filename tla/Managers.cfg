SPECIFICATION ManagersFairSpec
CONSTANTS
  Wrap = 8
  DEBOUNCE = 2
  TRIGGER_EVERY = 3
  DAY = 5
  LOW_FOR = 1
  BETWEEN = 2
  MAX_ATTEMPTS = 1
  MaxLag = 2
  Configurations <- MCConfigurations
PROPERTIES
  OncePerPress
  SaverPaced
  SaverServes
