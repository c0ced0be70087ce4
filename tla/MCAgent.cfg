SPECIFICATION Spec
CONSTANTS
  Names = {voice}
  Ports = {1, 2}
  MaxStarts = 2
  MaxForgets = 1
PROPERTIES NoNeedlessRun HooksConverge BackOnlyByGivenUpPut
CHECK_DEADLOCK FALSE
