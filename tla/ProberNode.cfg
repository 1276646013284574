SPECIFICATION Spec
CONSTANTS
  n1 = n1
  n2 = n2
  a = a
  b = b
  c = c
  Node = {n1, n2}
  Pod = {a, b, c}
  Port = {p1, p2}
  NoData = NoData
  NoKey = NoKey
  NoService = NoService
  NftMayFail = TRUE
  Capacity = 1
  PodMaps <- MCPodMaps
  Samples <- MCSamples
INVARIANTS
  TypeOK
  GotoLeadsToRule
  NothingFromEarlierRuns
  BaseRulesetOnce
PROPERTIES
  RulesMatchSnapshot
  ScoresSurviveRejoin
