SPECIFICATION FairSpec
CONSTANTS
  Jars = {j1}
  RingMax = 2
  MaxSeq = 3
  MaxRestarts = 1
  MaxFails = 1
  NoReply = NoReply
  NotJoined = NotJoined
PROPERTIES ShownInOrder SkippedOnlyDropped Delivered
