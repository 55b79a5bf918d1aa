CONSTANTS
  Arguments <- MCArguments
  Environments <- MCEnvironments
  Number <- MCNumber
  Levels <- MCLevels
  PortMax = 9
  ClientMax = 3
  ULong = 16
  Defaults <- MCDefaults
  FdSetSize = 3
  Listeners = {2, 3}
SPECIFICATION Spec
INVARIANTS ConfigAsGiven GivesBackExactly
PROPERTY StopReturns
CHECK_DEADLOCK FALSE
