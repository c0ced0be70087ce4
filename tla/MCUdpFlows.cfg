SPECIFICATION Spec
CONSTANTS
  Ports = {p1, p2}
  Clients = {c1, c2}
  Numbers = {n1, n2}
  MaxFlowsPerPort = 2
  MaxUDPFlows = 1
  MaxLive = 3
  NoFlow = NoFlow
  Free = Free
INVARIANTS CountMatches NoOrphanSocket OvershootBounded
SYMMETRY UdpSymmetry
CHECK_DEADLOCK FALSE
