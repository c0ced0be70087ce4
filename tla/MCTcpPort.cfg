SPECIFICATION FairSpec
CONSTANTS
  Conns = {c1, c2, c3}
  MaxFlowsPerPort = 2
INVARIANTS NoneSurvives TokensMatch
PROPERTIES HandlersEnd
CHECK_DEADLOCK FALSE
