SPECIFICATION FairSpec
CONSTANTS
  h1 = h1
  h2 = h2
  a = a
  b = b
  c = c
  Host = {h1, h2}
  Pod = {a, b, c}
  HostOf <- MCHostOf
  Service = {s1, s2}
  s1 = s1
  s2 = s2
  NameOrder <- MCNameOrder
  Objects <- MCObjects
  CpuEwmas <- MCCpuEwmas
  LatencyEwmas <- MCLatencyEwmas
  U32 = 1000
  NoScore = NoScore
  NoService = NoService
  NoRule = NoRule
  NoFetch = NoFetch
  Free = Free
  NftMayFail = TRUE
  MaxDisturbances = 1
INVARIANTS
  TypeOK
  OneVerdictMap
  NoResurrection
  EveryDrawLands
  SharesFollowScores
PROPERTIES
  AppliedForAReason
  Settles
