SPECIFICATION Spec
CONSTANTS
  Names = {voice}
  Ports = {1, 2}
  MaxStarts = 2
  MaxForgets = 1
PROPERTIES EveryChangeTold
CHECK_DEADLOCK FALSE
