SPECIFICATION FairSpec
CONSTANTS
  a = a
  b = b
  Node = {n1, n2}
  Pod = {a, b}
  Usage <- MCUsage
  Loop = {l1, l2}
  Specs <- MCSpecs
  t75_5 = t75_5
  Fraction = {t75_5}
  NoSpec = NoSpec
  Absent = Absent
  NoNode = NoNode
  NoPod = NoPod
  MaxPolicyChanges = 3
  MaxShifts = 3
  MaxCrashes = 1
  MayFail = TRUE
  Overlap = FALSE
INVARIANTS
  TypeOK
  OneLoop
  QuietFollowsPolicy
  EvictionsAnswerShifts
PROPERTIES
  DisabledSendsNothing
  DisableTakesEffect
CHECK_DEADLOCK FALSE
