CONSTANTS
  Configs <- MCConfigs
  NoPort <- MCNoPort
  BadPort <- MCBadPort
  Grow <- Double
  MaxULong = 999999
  ShortString = 22
  Ports = {1, 65535}
  Literals = TRUE

SPECIFICATION Spec
INVARIANTS PointersAlive ToldAsConfigured NamesTaken
CHECK_DEADLOCK FALSE
