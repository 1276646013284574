SPECIFICATION Spec
CONSTANTS
  n1 = n1
  n2 = n2
  a = a
  b = b
  c = c
  Node = {n1, n2}
  Pod = {a, b, c}
  Port = {p1}
  Nodeports = {p1, NoPort}
  NoPort = NoPort
  NodeOf <- MCNodeOf
  Objects <- Shrinking
  Deleted = Deleted
  MaxChanges = 1
  WatchMayFail = TRUE
  ApiMayFail = TRUE
  Positive = 7
  Answers = {0, 7}
  PodMayRefuse = TRUE
  PodMayHang = TRUE
  NoData = NoData
  NoKey = NoKey
  NoService = NoService
  NftMayFail = TRUE
  CpuSamples = {50}
  Known = {n1}
  Capacity = 1
  KeepsUp = FALSE
CHECK_DEADLOCK FALSE
INVARIANTS
  MeasuredBeforeServed
