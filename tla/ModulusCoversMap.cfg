SPECIFICATION Spec
CONSTANTS
  Node = {n1, n2, n3}
  NoData = NoData
  Latencies = {0, 1, 3}
  Cpus = {0, 40, 96}
  Scale = 3
  MaxPods = 3
  Caps = {1, 2, 3, 5, 12}
  U32 = 32
SYMMETRY NodeSymmetry
INVARIANT
  ModulusCoversMap
