CONSTANTS
  Configs <- MCConfigs
  NoPort <- MCNoPort
  BadPort <- MCBadPort
  Grow <- Double
  MaxULong = 999999
  ShortString = 22
  Ports = {80}
  Literals = TRUE

SPECIFICATION Spec
INVARIANT IPv6LiteralsTaken
CHECK_DEADLOCK FALSE
