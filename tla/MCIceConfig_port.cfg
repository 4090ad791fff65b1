CONSTANTS
  Configs <- MCConfigs
  NoPort <- MCNoPort
  BadPort <- MCBadPort
  Grow <- Double
  MaxULong = 999999
  ShortString = 22
  Ports = {65535, 65537}
  Literals = FALSE

SPECIFICATION Spec
INVARIANT PortsAsConfigured
CHECK_DEADLOCK FALSE
