SPECIFICATION FairSpec
CONSTANTS
  Jars = {j1}
  RingMax = 2
  MaxSeq = 2
  MaxRestarts = 1
  MaxFails = 0
  NoReply = NoReply
  NotJoined = NotJoined
PROPERTIES NewAreShown
