SPECIFICATION FairSpec
CONSTANTS
  n1 = n1
  n2 = n2
  a = a
  b = b
  c = c
  Node = {n1, n2}
  Pod = {a, b, c}
  Port = {p1}
  Nodeports = {p1}
  NoPort = NoPort
  NodeOf <- MCNodeOf
  Objects <- Rolling
  Deleted = Deleted
  MaxChanges = 2
  WatchMayFail = TRUE
  ApiMayFail = FALSE
  Positive = 7
  Answers = {7}
  PodMayRefuse = FALSE
  PodMayHang = FALSE
  NoData = NoData
  NoKey = NoKey
  NoService = NoService
  NftMayFail = FALSE
  CpuSamples = {50}
  Known = {n1, n2}
  Capacity = 4
  KeepsUp = TRUE
PROPERTY
  FollowsEndpoints
