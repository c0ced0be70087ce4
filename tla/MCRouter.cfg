SPECIFICATION Spec
CONSTANTS
  Servers <- MCServers
  Clients <- MCClients
  Hosts <- MCHosts
  Ignored <- MCIgnored
  LimboProtocols <- MCLimbo
  Proto1_20_1 = 2
  Proto1_20_5 = 3
  Proto1_21_6 = 4
  NoMods = NoMods
  NoCookie = NoCookie
  Conns = {c1, c2}
  AutoMinScore = 50
  AutoMargin = 15
  ForgeModQuery = FALSE
  StickyEnabled = TRUE
  MaxLobbySessions = 1
  MaxLogins = 2
  MaxChanges = 1
  MaxTickets = 1
SYMMETRY ConnSymmetry
INVARIANTS AutoRouteFits SlotsMatch RouteWasChosen ChoiceLostOnlyByClear
CHECK_DEADLOCK FALSE
