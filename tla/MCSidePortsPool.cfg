SPECIFICATION PortsSpec
CONSTANTS
  Ids = {s1, s2}
  Owners = {alice}
  Static = static
  StaticIds = {}
  StaticAddress = a1
  Addresses = {a1}
  TTL = 1
  Reqs = {r1, r2}
  Names = {voice}
  PortSets = {{}, {voice}}
  MinPort = 1
  MaxPort = 2
  Grace = 1
  BrokenTime = 1
  Conns = {}
  NoServer = NoServer
  NoAddress = NoAddress
  NoCheck = NoCheck
  NoReq = NoReq
  NoBinding = NoBinding
  NoKey = NoKey
  NoConn = NoConn
  Unlocked = Unlocked
INVARIANTS MapsAgree
PROPERTIES GraceKept ReleasedOnlyByOvertaken
SYMMETRY PortsSymmetry
