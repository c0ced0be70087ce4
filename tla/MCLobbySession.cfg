SPECIFICATION Spec
CONSTANTS
  Cap = 1
  AckWait = 1
  ProbeWindow = 1
  DialogWait = 2
  TransferWait = 1
  LimboWait = 1
  LobbyDeadline = 7
  LimboDeadline = 5
  MaxFrames = 3
INVARIANTS PhaseAgreed
PROPERTIES NeverCutOff SessionEnds ReaderEnds
CHECK_DEADLOCK FALSE
