SPECIFICATION FairSpec
CONSTANTS
  w1 = w1
  cp = cp
  Node = {w1, cp}
  Workers = {w1}
  Pod = {}
  Port = {}
  MaxNodeChanges = 2
  CpuSamples = {50}
  NoData = NoData
  NoKey = NoKey
  NoService = NoService
  NftMayFail = FALSE
  Capacity = 10
INVARIANTS
  NoGhosts
PROPERTIES
  EveryNodeScored
