SPECIFICATION FairSpec
CONSTANTS
  Ids = {s1, s2}
  Owners = {alice}
  Static = static
  StaticIds = {s1}
  StaticAddress = a1
  Addresses = {a1, a2}
  PortSets = {{}}
  TTL = 1
  Reqs = {r1}
  NoServer = NoServer
  NoAddress = NoAddress
  NoCheck = NoCheck
  NoReq = NoReq
INVARIANTS SeenAtItsAddress
PROPERTIES HealthConverges
