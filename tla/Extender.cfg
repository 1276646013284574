SPECIFICATION FairSpec
CONSTANTS
  n1 = n1
  n2 = n2
  Node = {n1, n2}
  Request = {r1, r2}
  Answers <- MCAnswers
  NormMaps <- MCNormMaps
  Penalty <- MCPenalty
  CpuThreshold = 1
  LatencyThreshold = 1
  WeightLatency = 1
  WeightCpu = 1
  WeightTraffic = 1
  NoScore = NoScore
  NoPenalty = NoPenalty
  NoNode = NoNode
  FallbackNode = n1
  NoRequest = NoRequest
  MayFail = TRUE
INVARIANTS
  TypeOK
  PenaltyInForce
  ChosenNodeIsCached
PROPERTIES
  NoRecoveryUnderPenalty
  ChargedNodesFiltered
  ImplementsLedger
  RequestsAnswered
