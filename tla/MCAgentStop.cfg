SPECIFICATION Spec
CONSTANTS
  Names = {voice}
  Ports = {1, 2}
  MaxStarts = 1
  MaxForgets = 0
INVARIANTS GoneAfterStop
CHECK_DEADLOCK FALSE
