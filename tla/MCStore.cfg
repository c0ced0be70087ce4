SPECIFICATION FairSpec
CONSTANTS
  Keys = {k1}
  Values = {v1}
  Ttls = {0,1}
  TicksPerSecond = 2
  MaxTime = 4
  MaxVer = 2
  MaxFails = 1
  MaxStarts = 2
  Absent = Absent
  Torn = Torn
  NoOne = NoOne
INVARIANTS TypeOK CleanMeansSaved FlushedIsDurable ExpiryWithinASecond
PROPERTIES NeverOlder EventuallySaved
CHECK_DEADLOCK FALSE
