------------------------- MODULE SlotAllocationProofs -------------------------
(***************************************************************************)
(* What holds of a call of update_nftables for every set of nodes, every   *)
(* cap, every number of pods and every datapoint: the ranges handed to nft *)
(* tile the draws, numgen never draws past them, they point only at pods   *)
(* that may receive traffic, each node's share is near what its score      *)
(* earned, and the whole call implements RuleChoice.                       *)
(***************************************************************************)
EXTENDS SlotAllocation, SequenceTheorems, FiniteSetTheorems, TLAPS

\* The total covers every node the first loop has visited, so no portion
\* computed from it can pass the cap.
ScoresCounted ==
  /\ pc \in {"allocate", "place"} => uncounted = {}
  /\ pc \in {"count", "allocate", "place"} =>
       \A n \in KeptNodes \ uncounted :
         data[n].latency > 0 => PerformanceScore(data[n]) <= totalScore

\* Inside the loop over a node's pods there is a node, a pod left to place and
\* at least one slot for it; a range exists only if no share was infinite.
LoopInv ==
  /\ pc = "place" =>
       /\ node \in KeptNodes
       /\ idx < pods[node]
       /\ portionEach >= 1
       /\ Unmeasured(pods, data) = {}
  /\ verdicts # << >> => Unmeasured(pods, data) = {}
  /\ pc = "built" => verdicts # << >> /\ ngMod < starting

IInv ==
  /\ TypeOK
  /\ ScoresCounted
  /\ LoopInv
  /\ OnlyKeptPods
  /\ SlotsPartitioned
-----------------------------------------------------------------------------
\* Integer division by a positive number.
LEMMA DivBound ==
  ASSUME NEW a \in Nat, NEW b \in Nat, b > 0
  PROVE  (a \div b) \in Nat /\ b * (a \div b) <= a /\ a < b * (a \div b) + b
  OBVIOUS

\* What TypeOK says of the ranges given out so far.
LEMMA VerdictsTyped ==
  ASSUME TypeOK
  PROVE  /\ Len(verdicts) \in Nat
         /\ DOMAIN verdicts = 1..Len(verdicts)
         /\ verdicts # << >> => 1 \in DOMAIN verdicts
         /\ \A i \in DOMAIN verdicts : verdicts[i].lo \in Nat /\ verdicts[i].hi \in Nat
<1>1. verdicts \in Seq(Verdict)
  BY DEF TypeOK
<1>2. /\ Len(verdicts) \in Nat
      /\ DOMAIN verdicts = 1..Len(verdicts)
      /\ \A i \in DOMAIN verdicts : verdicts[i] \in Verdict
  BY <1>1, LenProperties, ElementOfSeq
<1>3. verdicts # << >> => Len(verdicts) \in Nat \ {0}
  BY <1>1, EmptySeq
<1> QED BY <1>2, <1>3 DEF Verdict

\* A usable datapoint with a latency has a positive score.
LEMMA ScorePositive ==
  ASSUME NEW dp \in Datapoint, Usable(dp), dp.latency > 0
  PROVE  PerformanceScore(dp) \in Nat /\ PerformanceScore(dp) >= 1
<1> DEFINE free == 100 - dp.cpu
<1>1. dp \in [latency : Latencies, cpu : Cpus]
  BY DEF Datapoint, Usable
<1>2. dp.latency \in Nat /\ dp.latency <= Scale /\ Scale \in Nat
  BY <1>1, LatencyAssumption
<1>3. dp.cpu \in 0..94
  <2>1. dp.cpu \in 0..100
    BY <1>1, CpuAssumption
  <2> QED BY <2>1 DEF Usable
<1>4. free \in 6..100
  BY <1>3
<1> HIDE DEF free
<1>5. free * Scale \in Nat /\ free * Scale >= dp.latency
  BY <1>2, <1>4
<1>6. /\ (free * Scale) \div dp.latency \in Nat
      /\ (free * Scale) \div dp.latency >= 1
  BY <1>2, <1>5, DivBound
<1> QED BY <1>6 DEF PerformanceScore, free

\* Rounding a share of the cap to the nearest slot never exceeds the cap.
LEMMA RoundedShare ==
  ASSUME NEW s \in Nat, NEW t \in Nat, 1 <= s, s <= t, NEW c \in Nat
  PROVE  (2 * s * c + t) \div (2 * t) \in 0..c
<1> DEFINE a == 2 * s * c + t
<1> DEFINE q == a \div (2 * t)
<1>1. s * c <= t * c /\ s * c \in Nat /\ t * c \in Nat
  OBVIOUS
<1>2. a \in Nat /\ a < 2 * t * (c + 1)
  BY <1>1
<1>3. q \in Nat /\ (2 * t) * q <= a
  <2> HIDE DEF a
  <2> QED BY <1>2, DivBound
<1>4. (2 * t) * q < (2 * t) * (c + 1)
  BY <1>2, <1>3
<1>5. q < c + 1
  BY <1>3, <1>4
<1> QED BY <1>3, <1>5

\* A node's portion is a number of slots between none and the whole cap.
LEMMA PortionWithinCap ==
  ASSUME TypeOK, ScoresCounted, pc = "allocate", NEW n \in KeptNodes
  PROVE  NodePortion(n) \in 0..cap
<1>1. cap \in Nat
  BY CapAssumption DEF TypeOK
<1>2. CASE Unmeasured(pods, data) # {}
  BY <1>1, <1>2 DEF NodePortion
<1>3. CASE Unmeasured(pods, data) = {}
  <2>1. n \in Node /\ data[n] \in Datapoint /\ Usable(data[n])
    BY DEF TypeOK, KeptNodes, Kept, HostsOf
  <2>2. data[n].latency \in Nat
    BY <2>1, LatencyAssumption DEF Datapoint, Usable
  <2>3. data[n].latency > 0
    BY <1>3, <2>2 DEF Unmeasured, KeptNodes
  <2>4. PerformanceScore(data[n]) \in Nat /\ PerformanceScore(data[n]) >= 1
    BY <2>1, <2>3, ScorePositive
  <2>5. PerformanceScore(data[n]) <= totalScore /\ totalScore \in Nat
    BY <2>3 DEF ScoresCounted, TypeOK
  <2>6. (2 * PerformanceScore(data[n]) * cap + totalScore) \div (2 * totalScore) \in 0..cap
    BY <1>1, <2>4, <2>5, RoundedShare
  <2> QED BY <1>3, <2>6 DEF NodePortion
<1> QED BY <1>2, <1>3

\* While a pod is being placed, its range starts where the last one ended, is
\* not empty, and stays below the cap; no u32 wraps.
LEMMA RangeFits ==
  ASSUME TypeOK, LoopInv, pc = "place", starting < cap
  PROVE  /\ RangeEnd \in starting..(cap - 1)
         /\ (RangeEnd + 1) % U32 = RangeEnd + 1
         /\ ThisPortion \in Nat
         /\ RangeEnd = IF starting + ThisPortion < cap THEN starting + ThisPortion - 1 ELSE cap - 1
<1>1. cap \in Nat /\ U32 \in Nat /\ 2 * cap < U32
  BY CapAssumption, BoundAssumption DEF TypeOK
<1>2. starting \in Nat /\ ThisPortion \in 1..(cap + 1)
  BY <1>1 DEF TypeOK, LoopInv, ThisPortion
<1> DEFINE sum == starting + ThisPortion
<1>3. sum \in (starting + 1)..(2 * cap)
  BY <1>1, <1>2
<1>4. sum % U32 = sum /\ (sum - 1) % U32 = sum - 1
  BY <1>1, <1>2, <1>3
<1>5. RangeEnd = IF sum - 1 < cap - 1 THEN sum - 1 ELSE cap - 1
  BY <1>4 DEF RangeEnd
<1>6. RangeEnd \in starting..(cap - 1)
  BY <1>1, <1>2, <1>3, <1>5
<1> QED BY <1>1, <1>2, <1>3, <1>5, <1>6
-----------------------------------------------------------------------------
\* The strengthened invariant holds when the function is called.
LEMMA InitIInv == Init => IInv
<1> SUFFICES ASSUME Init PROVE IInv
  OBVIOUS
<1>1. TypeOK
  BY CapAssumption DEF Init, TypeOK
<1>2. ScoresCounted /\ LoopInv /\ OnlyKeptPods /\ SlotsPartitioned
  BY DEF Init, ScoresCounted, LoopInv, OnlyKeptPods, SlotsPartitioned
<1> QED BY <1>1, <1>2 DEF IInv

\* Every step of the function keeps it.
LEMMA NextIInv == IInv /\ [Next]_vars => IInv'
<1> SUFFICES ASSUME IInv, [Next]_vars PROVE IInv'
  OBVIOUS
<1>0. /\ TypeOK /\ ScoresCounted /\ LoopInv /\ OnlyKeptPods /\ SlotsPartitioned
      /\ cap \in Nat
  BY CapAssumption DEF IInv, TypeOK
<1>1. CASE SkipUndistributed
  <2>1. TypeOK'
    BY <1>0, <1>1 DEF SkipUndistributed, TypeOK, args, totals, inner, gauges, KeptNodes
  <2>2. ScoresCounted' /\ LoopInv'
    BY <1>0, <1>1 DEF SkipUndistributed, ScoresCounted, LoopInv, args, totals, inner, KeptNodes
  <2>3. OnlyKeptPods' /\ SlotsPartitioned'
    BY <1>0, <1>1 DEF SkipUndistributed, OnlyKeptPods, SlotsPartitioned, args
  <2> QED BY <2>1, <2>2, <2>3 DEF IInv
<1>2. CASE Retain
  <2>1. TypeOK'
    BY <1>0, <1>2 DEF Retain, TypeOK, args, inner, gauges, KeptNodes
  <2>2. ScoresCounted' /\ LoopInv'
    BY <1>0, <1>2 DEF Retain, ScoresCounted, LoopInv, args, inner, KeptNodes
  <2>3. OnlyKeptPods' /\ SlotsPartitioned'
    BY <1>0, <1>2 DEF Retain, OnlyKeptPods, SlotsPartitioned, args
  <2> QED BY <2>1, <2>2, <2>3 DEF IInv
<1>3. ASSUME NEW n \in Node, CountNode(n) PROVE IInv'
  <2>1. /\ pods[n] \in Nat
        /\ n \in KeptNodes
        /\ data[n] \in Datapoint /\ Usable(data[n])
        /\ data[n].latency \in Nat
        /\ data[n].latency > 0 => PerformanceScore(data[n]) \in Nat
    <3>1. n \in KeptNodes /\ pods[n] \in 0..MaxPods /\ data[n] \in Datapoint
      BY <1>0, <1>3 DEF CountNode, TypeOK
    <3>2. Usable(data[n])
      BY <3>1 DEF KeptNodes, Kept
    <3>3. data[n].latency \in Nat
      BY <3>1, <3>2, LatencyAssumption DEF Datapoint, Usable
    <3> QED BY <3>1, <3>2, <3>3, ScorePositive, BoundAssumption
  <2>2. TypeOK'
    <3>1. totalEndpoints' \in Nat /\ totalScore' \in Nat
      BY <1>0, <1>3, <2>1, SMTT(20) DEF CountNode, TypeOK
    <3> QED BY <1>0, <1>3, <3>1 DEF CountNode, TypeOK, args, inner, gauges, KeptNodes
  <2>3. ScoresCounted'
    <3>1. totalScore' >= totalScore /\ totalScore \in Nat /\ totalScore' \in Nat
      BY <1>0, <1>3, <2>1 DEF CountNode, TypeOK
    <3>2. data[n].latency > 0 => PerformanceScore(data[n]) <= totalScore'
      BY <1>0, <1>3, <2>1 DEF CountNode, TypeOK
    <3>3. ASSUME NEW m \in KeptNodes \ uncounted', data[m].latency > 0
          PROVE  PerformanceScore(data[m]) <= totalScore'
      <4>1. CASE m = n
        BY <3>2, <3>3, <4>1
      <4>2. CASE m # n
        <5>1. m \in KeptNodes \ uncounted
          BY <1>3, <3>3, <4>2 DEF CountNode
        <5>2. PerformanceScore(data[m]) <= totalScore
          BY <1>0, <1>3, <3>3, <5>1 DEF ScoresCounted, CountNode
        <5>3. PerformanceScore(data[m]) \in Nat
          <6>1. data[m] \in Datapoint /\ Usable(data[m])
            BY <1>0, <5>1 DEF KeptNodes, Kept, HostsOf, TypeOK
          <6> QED BY <3>3, <6>1, ScorePositive
        <5> QED BY <3>1, <5>2, <5>3
      <4> QED BY <4>1, <4>2
    <3>4. pc = "count" /\ pc' = pc /\ pods' = pods /\ data' = data
      BY <1>3 DEF CountNode, args
    <3>5. KeptNodes' = KeptNodes
      BY <3>4 DEF KeptNodes
    <3> QED BY <3>3, <3>4, <3>5 DEF ScoresCounted, PerformanceScore
  <2>4. LoopInv'
    BY <1>0, <1>3 DEF CountNode, LoopInv, args, inner, KeptNodes
  <2>5. OnlyKeptPods' /\ SlotsPartitioned'
    BY <1>0, <1>3 DEF CountNode, OnlyKeptPods, SlotsPartitioned, args
  <2> QED BY <2>2, <2>3, <2>4, <2>5 DEF IInv
<1>4. CASE SkipFewEndpoints
  <2>1. TypeOK'
    BY <1>0, <1>4 DEF SkipFewEndpoints, TypeOK, args, totals, inner, gauges, KeptNodes
  <2>2. ScoresCounted' /\ LoopInv'
    BY <1>0, <1>4 DEF SkipFewEndpoints, ScoresCounted, LoopInv, args, totals, inner, KeptNodes
  <2>3. OnlyKeptPods' /\ SlotsPartitioned'
    BY <1>0, <1>4 DEF SkipFewEndpoints, OnlyKeptPods, SlotsPartitioned, args
  <2> QED BY <2>1, <2>2, <2>3 DEF IInv
<1>5. CASE BeginAllocation
  <2>1. TypeOK'
    <3>1. slots' \in [Node -> 0..cap] /\ eligible' \in [Node -> {0, 1}]
      BY <1>0, <1>5 DEF BeginAllocation, TypeOK
    <3> QED BY <1>0, <1>5, <3>1 DEF BeginAllocation, TypeOK, args, totals, inner, KeptNodes
  <2>2. ScoresCounted' /\ LoopInv'
    BY <1>0, <1>5 DEF BeginAllocation, ScoresCounted, LoopInv, args, totals, inner, KeptNodes
  <2>3. OnlyKeptPods' /\ SlotsPartitioned'
    BY <1>0, <1>5 DEF BeginAllocation, OnlyKeptPods, SlotsPartitioned, args
  <2> QED BY <2>1, <2>2, <2>3 DEF IInv
<1>6. ASSUME NEW n \in Node, VisitZeroPortion(n) PROVE IInv'
  <2>1. TypeOK'
    <3>1. slots' \in [Node -> 0..cap] /\ eligible' \in [Node -> {0, 1}]
      BY <1>0, <1>6 DEF VisitZeroPortion, TypeOK
    <3> QED BY <1>0, <1>6, <3>1 DEF VisitZeroPortion, TypeOK, args, totals, inner, KeptNodes
  <2>2. ScoresCounted' /\ LoopInv'
    BY <1>0, <1>6 DEF VisitZeroPortion, ScoresCounted, LoopInv, args, totals, inner, KeptNodes
  <2>3. OnlyKeptPods' /\ SlotsPartitioned'
    BY <1>0, <1>6 DEF VisitZeroPortion, OnlyKeptPods, SlotsPartitioned, args
  <2> QED BY <2>1, <2>2, <2>3 DEF IInv
<1>7. ASSUME NEW n \in Node, VisitNode(n) PROVE IInv'
  <2> DEFINE portion == NodePortion(n)
  <2>1. n \in KeptNodes /\ pods[n] \in Nat /\ pods[n] > 0
    BY <1>0, <1>7, BoundAssumption DEF VisitNode, TypeOK, KeptNodes, Kept, HostsOf
  <2>2. portion \in 0..cap /\ portion > 0
    BY <1>0, <1>7, <2>1, PortionWithinCap DEF VisitNode
  <2>3. Unmeasured(pods, data) = {}
    BY <2>2 DEF NodePortion
  <2> HIDE DEF portion
  <2>4. /\ portion \div pods[n] \in 0..cap
        /\ portion % pods[n] \in Nat
    <3>1. /\ portion \div pods[n] \in Nat
          /\ pods[n] * (portion \div pods[n]) <= portion
      BY <1>0, <2>1, <2>2, DivBound
    <3>2. portion \div pods[n] <= pods[n] * (portion \div pods[n])
      BY <2>1, <3>1
    <3> QED BY <1>0, <2>1, <2>2, <3>1, <3>2
  <2>5. TypeOK'
    <3>1. slots' \in [Node -> 0..cap] /\ eligible' \in [Node -> {0, 1}]
      BY <1>0, <1>7, <2>2 DEF VisitNode, TypeOK, portion
    <3>2. /\ pc' \in {"allocate", "place"}
          /\ node' \in Node \union {NoData} /\ idx' \in Nat
          /\ portionEach' \in 0..cap /\ remainder' \in Nat
      BY <1>0, <1>7, <2>4 DEF VisitNode, TypeOK, inner, portion
    <3> QED BY <1>0, <1>7, <3>1, <3>2 DEF VisitNode, TypeOK, args, totals, KeptNodes
  <2>6. ScoresCounted'
    BY <1>0, <1>7 DEF VisitNode, ScoresCounted, args, totals, KeptNodes
  <2>7. LoopInv'
    BY <1>0, <1>7, <2>1, <2>3, <2>4 DEF VisitNode, LoopInv, args, inner, KeptNodes, portion
  <2>8. OnlyKeptPods' /\ SlotsPartitioned'
    BY <1>0, <1>7 DEF VisitNode, OnlyKeptPods, SlotsPartitioned, args
  <2> QED BY <2>5, <2>6, <2>7, <2>8 DEF IInv
<1>8. CASE PlaceEndpoint
  <2> DEFINE v == [lo |-> starting, hi |-> RangeEnd, pod |-> <<node, idx>>]
  <2>1. /\ RangeEnd \in starting..(cap - 1)
        /\ starting' = RangeEnd + 1
        /\ starting \in Nat /\ RangeEnd \in Nat
        /\ verdicts' = Append(verdicts, v)
    BY <1>0, <1>8, RangeFits DEF PlaceEndpoint, TypeOK
  <2>2. /\ node \in KeptNodes /\ node \in Node /\ idx \in Nat
        /\ pods[node] \in Nat /\ idx < pods[node]
    BY <1>0, <1>8, BoundAssumption DEF PlaceEndpoint, LoopInv, TypeOK, KeptNodes, Kept, HostsOf
  <2>3. v \in Verdict
    BY <2>1, <2>2 DEF Verdict
  <2>4. /\ Len(verdicts) \in Nat
        /\ DOMAIN verdicts = 1..Len(verdicts)
        /\ DOMAIN verdicts' = 1..(Len(verdicts) + 1)
        /\ verdicts'[Len(verdicts) + 1] = v
        /\ \A i \in DOMAIN verdicts : verdicts'[i] = verdicts[i]
    <3> HIDE DEF v
    <3>1. verdicts \in Seq(Verdict)
      BY <1>0 DEF TypeOK
    <3>2. /\ verdicts' \in Seq(Verdict)
          /\ Len(verdicts') = Len(verdicts) + 1
          /\ \A i \in 1..Len(verdicts) : verdicts'[i] = verdicts[i]
          /\ verdicts'[Len(verdicts) + 1] = v
      BY <2>1, <2>3, <3>1, AppendProperties
    <3>3. DOMAIN verdicts' = 1..Len(verdicts')
      BY <3>2, LenProperties
    <3> QED BY <1>0, <3>2, <3>3, VerdictsTyped
  <2>5. /\ UNCHANGED <<args, totals, unvisited, gauges, ngMod>>
        /\ KeptNodes' = KeptNodes
    BY <1>8 DEF PlaceEndpoint, KeptNodes, args
  <2>6. TypeOK'
    <3>1. verdicts' \in Seq(Verdict)
      BY <1>0, <2>1, <2>3, AppendProperties DEF TypeOK
    <3>2. /\ pc' \in {"allocate", "place"}
          /\ node' \in Node \union {NoData} /\ idx' \in Nat
          /\ portionEach' \in 0..cap /\ remainder' \in Nat
      BY <1>0, <1>8, <2>2 DEF PlaceEndpoint, LeaveNode, TypeOK
    <3>3. starting' \in 0..cap
      BY <1>0, <2>1
    <3> QED BY <1>0, <2>5, <3>1, <3>2, <3>3 DEF TypeOK, args, totals, gauges
  <2>7. ScoresCounted'
    BY <1>0, <1>8, <2>5 DEF PlaceEndpoint, ScoresCounted, args, totals
  <2>8. LoopInv'
    <3>1. idx' # 0 => idx' = idx + 1
      BY <1>8 DEF PlaceEndpoint, LeaveNode
    <3>2. pc' = "place" => idx' = idx + 1 /\ idx + 1 # pods[node]
                           /\ UNCHANGED <<node, portionEach>>
      BY <1>8 DEF PlaceEndpoint
    <3>3. pc' = "place" => idx' < pods[node]
      BY <2>2, <3>2
    <3> QED BY <1>0, <1>8, <2>5, <3>2, <3>3 DEF PlaceEndpoint, LoopInv, args
  <2>9. OnlyKeptPods'
    <3>1. <<node, idx>> \in KeptPods(pods, data)
      BY <2>2 DEF KeptPods, KeptNodes
    <3>2. ASSUME NEW i \in DOMAIN verdicts' PROVE verdicts'[i].pod \in KeptPods(pods, data)
      BY <1>0, <2>4, <3>1 DEF OnlyKeptPods
    <3> QED BY <2>5, <3>2 DEF OnlyKeptPods, args
  <2>10. SlotsPartitioned'
    <3>1. ASSUME NEW i \in DOMAIN verdicts'
          PROVE  /\ verdicts'[i].lo <= verdicts'[i].hi
                 /\ verdicts'[i].hi < starting'
                 /\ \A j \in DOMAIN verdicts' : i < j => verdicts'[i].hi < verdicts'[j].lo
      <4>1. CASE i = Len(verdicts) + 1
        BY <2>1, <2>4, <4>1
      <4>2. CASE i \in DOMAIN verdicts
        <5>1. /\ verdicts[i].lo <= verdicts[i].hi
              /\ verdicts[i].hi < starting
              /\ \A j \in DOMAIN verdicts : i < j => verdicts[i].hi < verdicts[j].lo
          BY <1>0, <4>2 DEF SlotsPartitioned
        <5>2. verdicts[i].hi \in Nat
          BY <1>0, <4>2, VerdictsTyped
        <5> QED BY <2>1, <2>4, <4>2, <5>1, <5>2
      <4> QED BY <2>4, <4>1, <4>2
    <3>2. ASSUME NEW d \in 0..(starting' - 1)
          PROVE  \E i \in DOMAIN verdicts' : verdicts'[i].lo <= d /\ d <= verdicts'[i].hi
      <4>1. CASE d < starting
        <5>1. d \in 0..(starting - 1)
          BY <2>1, <4>1
        <5>2. PICK i \in DOMAIN verdicts : verdicts[i].lo <= d /\ d <= verdicts[i].hi
          BY <1>0, <5>1 DEF SlotsPartitioned
        <5> QED BY <2>4, <5>2
      <4>2. CASE starting <= d
        <5>1. v.lo <= d /\ d <= v.hi
          BY <2>1, <4>2
        <5> QED BY <2>4, <5>1
      <4> QED BY <2>1, <4>1, <4>2
    <3> QED BY <3>1, <3>2 DEF SlotsPartitioned
  <2> QED BY <2>6, <2>7, <2>8, <2>9, <2>10 DEF IInv
<1>9. CASE CapReached
  <2>1. TypeOK'
    BY <1>0, <1>9 DEF CapReached, LeaveNode, TypeOK, args, totals, gauges, KeptNodes
  <2>2. ScoresCounted' /\ LoopInv'
    BY <1>0, <1>9 DEF CapReached, ScoresCounted, LoopInv, args, totals, KeptNodes
  <2>3. OnlyKeptPods' /\ SlotsPartitioned'
    BY <1>0, <1>9 DEF CapReached, OnlyKeptPods, SlotsPartitioned, args
  <2> QED BY <2>1, <2>2, <2>3 DEF IInv
<1>10. CASE SkipNoVerdicts
  <2>1. TypeOK'
    BY <1>0, <1>10 DEF SkipNoVerdicts, TypeOK, args, totals, inner, gauges, KeptNodes
  <2>2. ScoresCounted' /\ LoopInv'
    BY <1>0, <1>10 DEF SkipNoVerdicts, ScoresCounted, LoopInv, args, totals, inner, KeptNodes
  <2>3. OnlyKeptPods' /\ SlotsPartitioned'
    BY <1>0, <1>10 DEF SkipNoVerdicts, OnlyKeptPods, SlotsPartitioned, args
  <2> QED BY <2>1, <2>2, <2>3 DEF IInv
<1>11. CASE BuildRule
  <2>1. starting \in 1..cap
    <3>1. 1 \in DOMAIN verdicts
      BY <1>0, <1>11, VerdictsTyped DEF BuildRule
    <3>2. verdicts[1].hi \in Nat /\ verdicts[1].hi < starting
      BY <1>0, <3>1, VerdictsTyped DEF SlotsPartitioned
    <3> QED BY <1>0, <3>2 DEF TypeOK
  <2>2. ngMod' = starting - 1 /\ ngMod' \in 0..cap /\ ngMod' < starting
    BY <1>0, <1>11, <2>1 DEF BuildRule
  <2>3. TypeOK'
    BY <1>0, <1>11, <2>2 DEF BuildRule, TypeOK, args, totals, inner, gauges, KeptNodes
  <2>4. ScoresCounted' /\ LoopInv'
    BY <1>0, <1>11, <2>2 DEF BuildRule, ScoresCounted, LoopInv, args, totals, inner, KeptNodes
  <2>5. OnlyKeptPods' /\ SlotsPartitioned'
    BY <1>0, <1>11 DEF BuildRule, OnlyKeptPods, SlotsPartitioned, args
  <2> QED BY <2>3, <2>4, <2>5 DEF IInv
<1>12. CASE UNCHANGED vars
  BY <1>0, <1>12 DEF IInv, TypeOK, ScoresCounted, LoopInv, OnlyKeptPods, SlotsPartitioned,
     vars, args, totals, inner, gauges, KeptNodes
<1> QED
  BY <1>1, <1>2, <1>3, <1>4, <1>5, <1>6, <1>7, <1>8, <1>9, <1>10, <1>11, <1>12
  DEF Next, Returned
-----------------------------------------------------------------------------
\* The strengthened invariant holds throughout the call.
LEMMA Invariance == Spec => []IInv
<1>1. Init => IInv
  BY InitIInv
<1>2. IInv /\ [Next]_vars => IInv'
  BY NextIInv
<1> QED BY <1>1, <1>2, PTL DEF Spec

\* u32 arithmetic stays within the cap and every gauge within its range, for
\* every cap below half the width (update_nftables.rs:91-187).
THEOREM Typing == Spec => []TypeOK
<1>1. IInv => TypeOK
  BY DEF IInv
<1> QED BY <1>1, Invariance, PTL

\* The ranges never overlap and leave no hole, whatever the order in which the
\* HashMap yields the nodes (update_nftables.rs:153-186).
THEOREM Partition == Spec => []SlotsPartitioned
<1>1. IInv => SlotsPartitioned
  BY DEF IInv
<1> QED BY <1>1, Invariance, PTL

\* Every draw of `numgen random mod ngMod' has a pod, so a packet that reaches
\* the rule is always translated (update_nftables.rs:198-252).
THEOREM NoDrawIsLost == Spec => []DrawsAlwaysLand
<1>1. IInv => DrawsAlwaysLand
  <2> SUFFICES ASSUME IInv, pc = "built", NEW d \in 0..(ngMod - 1)
               PROVE  \E i \in DOMAIN verdicts : verdicts[i].lo <= d /\ d <= verdicts[i].hi
    BY DEF DrawsAlwaysLand
  <2>1. cap \in Nat /\ starting \in 0..cap /\ ngMod \in 0..cap /\ ngMod < starting
    BY CapAssumption DEF IInv, TypeOK, LoopInv
  <2>2. d \in 0..(starting - 1)
    BY <2>1
  <2> QED BY <2>2 DEF IInv, SlotsPartitioned
<1> QED BY <1>1, Invariance, PTL

\* No range points at a pod of a node without a datapoint, without a CPU
\* sample, or at 95% CPU and more (update_nftables.rs:57-65).
THEOREM OnlyUsablePodsServed == Spec => []OnlyKeptPods
<1>1. IInv => OnlyKeptPods
  BY DEF IInv
<1> QED BY <1>1, Invariance, PTL

\* One usable node whose latency is still 0 holds back the rule of the whole
\* service (update_nftables.rs:21-23,119-134).
THEOREM ZeroLatencyBlocksTheService == Spec => []BuiltOnlyMeasured
<1>1. IInv => BuiltOnlyMeasured
  BY DEF IInv, LoopInv, BuiltOnlyMeasured
<1> QED BY <1>1, Invariance, PTL
-----------------------------------------------------------------------------
\* What the first loop has counted: the pods of the nodes it has visited.
Counted == KeptNodes \ uncounted
PodsOn(S) == UNION {{n} \X (0..(pods[n] - 1)) : n \in S}
Looping == pc \in {"allocate", "place", "built"}

\* No rule comes of fewer than two nodes or two usable pods, and nothing is
\* given out before the second loop.
CountInv ==
  /\ pc \in {"start", "count"} => starting = 0 /\ verdicts = << >>
  /\ pc = "start" => totalEndpoints = 0 /\ totalScore = 0
  /\ pc = "count" \/ Looping =>
       /\ Cardinality(HostsOf(pods)) >= 2
       /\ IsFiniteSet(Counted) /\ IsFiniteSet(PodsOn(Counted))
       /\ Cardinality(PodsOn(Counted)) = totalEndpoints
  /\ Looping => uncounted = {} /\ totalEndpoints >= 2

\* The step that reads a node into the totals: it has pods, and is new.
LEMMA CountsNode ==
  ASSUME IInv, NEW n \in Node, CountNode(n)
  PROVE  /\ n \in KeptNodes /\ n \notin Counted /\ Counted' = Counted \union {n}
         /\ pods[n] \in Nat /\ pods[n] > 0 /\ UNCHANGED <<args, pc, starting, verdicts>>
<1>1. n \in uncounted /\ uncounted' = uncounted \ {n} /\ UNCHANGED <<args, pc, starting, verdicts>>
  BY DEF CountNode
<1>2. uncounted \subseteq KeptNodes /\ KeptNodes' = KeptNodes
  BY <1>1 DEF IInv, TypeOK, KeptNodes, args
<1>3. pods[n] \in Nat /\ pods[n] > 0
  BY <1>1, <1>2, BoundAssumption DEF IInv, TypeOK, KeptNodes, Kept, HostsOf
<1> QED BY <1>1, <1>2, <1>3 DEF Counted

\* A node with k pods adds k pods.
LEMMA PodsOfNode ==
  ASSUME NEW n, NEW k \in Nat
  PROVE  IsFiniteSet({n} \X (0..(k - 1))) /\ Cardinality({n} \X (0..(k - 1))) = k
<1>1. IsFiniteSet({n}) /\ Cardinality({n}) = 1
  BY FS_Singleton
<1>2. IsFiniteSet(0..(k - 1)) /\ Cardinality(0..(k - 1)) = k
  BY FS_Interval
<1>3. /\ IsFiniteSet({n} \X (0..(k - 1)))
      /\ Cardinality({n} \X (0..(k - 1))) = Cardinality({n}) * Cardinality(0..(k - 1))
  BY <1>1, <1>2, FS_Product
<1> QED BY <1>1, <1>2, <1>3

LEMMA NextCount ==
  ASSUME IInv, CountInv, [Next]_vars
  PROVE  CountInv'
<1>1. ASSUME NEW n \in Node, CountNode(n) PROVE CountInv'
  <2>1. /\ n \in KeptNodes /\ n \notin Counted /\ Counted' = Counted \union {n}
        /\ pods[n] \in Nat /\ pods[n] > 0 /\ UNCHANGED <<args, pc, starting, verdicts>>
    BY <1>1, CountsNode
  <2>2. pc = "count" /\ totalEndpoints' = totalEndpoints + pods[n] /\ pods' = pods
    BY <1>1 DEF CountNode, args
  <2> DEFINE new == {n} \X (0..(pods[n] - 1))
             old == PodsOn(Counted)
  <2>3. PodsOn(Counted)' = old \union new
    BY <2>1, <2>2 DEF PodsOn
  <2>4. old \intersect new = {}
    BY <2>1 DEF PodsOn
  <2>5. IsFiniteSet(new) /\ Cardinality(new) = pods[n]
    BY <2>1, PodsOfNode
  <2>6. IsFiniteSet(old) /\ Cardinality(old) = totalEndpoints /\ totalEndpoints \in Nat
        /\ IsFiniteSet(Counted) /\ Cardinality(HostsOf(pods)) >= 2
    BY <2>2 DEF CountInv, IInv, TypeOK
  <2> HIDE DEF new, old
  <2>7. IsFiniteSet(old \union new)
        /\ Cardinality(old \union new) = Cardinality(old) + Cardinality(new) - Cardinality(old \intersect new)
    BY <2>5, <2>6, FS_Union
  <2>8. Cardinality(old \union new) = totalEndpoints + pods[n]
    <3>1. Cardinality(old \intersect new) = 0
      BY <2>4, FS_EmptySet
    <3> QED BY <2>1, <2>5, <2>6, <2>7, <3>1
  <2>9. IsFiniteSet(Counted')
    BY <2>1, <2>6, FS_AddElement
  <2> QED BY <2>1, <2>2, <2>3, <2>6, <2>7, <2>8, <2>9 DEF CountInv, Looping
<1>2. CASE Retain
  <2>1. /\ pc = "start" /\ pc' = "count" /\ Cardinality(HostsOf(pods)) >= 2 /\ uncounted' = KeptNodes
        /\ UNCHANGED <<pods, data, totalEndpoints, totalScore, starting, verdicts>>
    BY <1>2 DEF Retain, args
  <2>2. Counted' = {} /\ PodsOn(Counted)' = {}
    BY <2>1 DEF Counted, PodsOn, KeptNodes
  <2> QED BY <2>1, <2>2, FS_EmptySet DEF CountInv, Looping
<1>3. CASE SkipUndistributed \/ SkipFewEndpoints \/ SkipNoVerdicts
  BY <1>3 DEF SkipUndistributed, SkipFewEndpoints, SkipNoVerdicts, CountInv, Looping
<1>4. ASSUME UNCHANGED <<args, totals>>, pc' = pc \/ (Looping /\ Looping'), UNCHANGED <<starting, verdicts>> \/ Looping'
      PROVE  CountInv'
  BY <1>4 DEF CountInv, Looping, Counted, PodsOn, KeptNodes, args, totals
<1>5. CASE BeginAllocation
  <2>1. pc = "count" /\ pc' = "allocate" /\ uncounted = {} /\ totalEndpoints >= 2 /\ UNCHANGED <<args, totals>>
    BY <1>5 DEF BeginAllocation
  <2> QED BY <2>1 DEF CountInv, Looping, Counted, PodsOn, KeptNodes, args, totals
<1>6. ASSUME NEW n \in Node, VisitZeroPortion(n) \/ VisitNode(n) PROVE CountInv'
  BY <1>4, <1>6 DEF VisitZeroPortion, VisitNode, Looping
<1>7. CASE PlaceEndpoint \/ CapReached \/ BuildRule
  BY <1>4, <1>7 DEF PlaceEndpoint, CapReached, BuildRule, Looping, LeaveNode
<1>8. CASE UNCHANGED vars
  BY <1>4, <1>8 DEF vars
<1> QED BY <1>1, <1>2, <1>3, <1>5, <1>6, <1>7, <1>8 DEF Next, Returned

LEMMA CountInvariance == Spec => []CountInv
<1>1. Init => CountInv
  BY DEF Init, CountInv, Looping
<1>2. IInv /\ CountInv /\ [Next]_vars => CountInv'
  BY NextCount
<1> QED BY <1>1, <1>2, Invariance, PTL DEF Spec
-----------------------------------------------------------------------------
\* What a node adds to totalScore.
Weight(n) == IF data[n].latency = 0 THEN 0 ELSE PerformanceScore(data[n])

\* f gives each part of S the sum of its weights.
Adds(f, S) ==
  /\ \A n \in S : Weight(n) \in Nat
  /\ f \in [SUBSET S -> Nat] /\ f[{}] = 0
  /\ \A T \in SUBSET S : \A n \in S \ T : f[T \union {n}] = f[T] + Weight(n)
  /\ \A T, U \in SUBSET S : T \subseteq U => f[T] <= f[U]

\* Such an f for one node more.
LEMMA AddsNode ==
  ASSUME NEW S, NEW f, Adds(f, S), NEW n, n \notin S, Weight(n) \in Nat
  PROVE  \E g : Adds(g, S \union {n}) /\ g[S \union {n}] = f[S] + Weight(n)
<1> DEFINE w == Weight(n)
           R == S \union {n}
           more(T) == IF n \in T THEN w ELSE 0
           g == [T \in SUBSET R |-> f[T \ {n}] + more(T)]
<1>1. \A T \in SUBSET R : T \ {n} \in SUBSET S
  OBVIOUS
<1>2. /\ f \in [SUBSET S -> Nat] /\ f[{}] = 0 /\ w \in Nat
      /\ \A m \in R : Weight(m) \in Nat
  BY DEF Adds
<1>3. g \in [SUBSET R -> Nat]
  BY <1>1, <1>2
<1>4. g[{}] = 0
  BY <1>2
<1>5. \A T \in SUBSET R : f[T \ {n}] \in Nat /\ more(T) \in Nat /\ g[T] = f[T \ {n}] + more(T)
  BY <1>1, <1>2
<1> HIDE DEF g, w
<1>6. ASSUME NEW T \in SUBSET R, NEW m \in R \ T PROVE g[T \union {m}] = g[T] + Weight(m)
  <2> DEFINE U == T \union {m}
  <2>1. U \in SUBSET R /\ Weight(m) \in Nat
    BY <1>2
  <2>2. /\ f[U \ {n}] \in Nat /\ more(U) \in Nat /\ g[U] = f[U \ {n}] + more(U)
        /\ f[T \ {n}] \in Nat /\ more(T) \in Nat /\ g[T] = f[T \ {n}] + more(T)
    BY <1>5, <2>1
  <2>3. CASE m = n
    <3>1. U \ {n} = T \ {n} /\ more(U) = w /\ more(T) = 0 /\ Weight(m) = w
      BY <1>6, <2>3 DEF w
    <3> HIDE DEF more
    <3> QED BY <2>1, <2>2, <3>1
  <2>4. CASE m # n
    <3>1. /\ U \ {n} = (T \ {n}) \union {m} /\ m \in S \ (T \ {n}) /\ T \ {n} \in SUBSET S
          /\ more(U) = more(T)
      BY <1>6, <2>4
    <3>2. f[U \ {n}] = f[T \ {n}] + Weight(m)
      BY <3>1 DEF Adds
    <3> HIDE DEF more
    <3> QED BY <2>1, <2>2, <3>1, <3>2
  <2> QED BY <2>3, <2>4
<1>7. ASSUME NEW T \in SUBSET R, NEW U \in SUBSET R, T \subseteq U PROVE g[T] <= g[U]
  <2>1. f[T \ {n}] <= f[U \ {n}]
    <3>1. T \ {n} \in SUBSET S /\ U \ {n} \in SUBSET S /\ T \ {n} \subseteq U \ {n}
      BY <1>7
    <3> QED BY <1>2, <3>1 DEF Adds
  <2>2. more(T) <= more(U)
    BY <1>2, <1>7
  <2>3. /\ f[U \ {n}] \in Nat /\ more(U) \in Nat /\ g[U] = f[U \ {n}] + more(U)
        /\ f[T \ {n}] \in Nat /\ more(T) \in Nat /\ g[T] = f[T \ {n}] + more(T)
    BY <1>5
  <2> HIDE DEF more
  <2> QED BY <2>1, <2>2, <2>3
<1>8. g[R] = f[S] + Weight(n)
  <2>1. R \ {n} = S /\ R \in SUBSET R
    OBVIOUS
  <2> QED BY <1>5, <2>1 DEF w
<1> QED BY <1>2, <1>3, <1>4, <1>6, <1>7, <1>8 DEF Adds

\* totalScore is the sum of the weights of the nodes counted.
SumInv == pc = "count" \/ Looping => \E f : Adds(f, Counted) /\ f[Counted] = totalScore

\* Every usable node has a weight, and a positive one if it has a latency.
LEMMA WeightPositive ==
  ASSUME IInv, NEW n \in KeptNodes
  PROVE  /\ Weight(n) \in Nat /\ pods[n] \in 1..MaxPods
         /\ data[n].latency \in Nat /\ (data[n].latency > 0 => Weight(n) >= 1)
<1>1. n \in Node /\ data[n] \in Datapoint /\ Usable(data[n]) /\ pods[n] \in 1..MaxPods
  BY BoundAssumption DEF IInv, TypeOK, KeptNodes, Kept, HostsOf
<1>2. data[n].latency \in Nat
  BY <1>1, LatencyAssumption DEF Datapoint, Usable
<1>3. data[n].latency > 0 => PerformanceScore(data[n]) \in Nat /\ PerformanceScore(data[n]) >= 1
  BY <1>1, ScorePositive
<1> QED BY <1>1, <1>2, <1>3 DEF Weight

\* The weights are read off the datapoints, which do not change.
LEMMA SameSum ==
  ASSUME UNCHANGED <<args, totalScore>>, NEW f, NEW S, S = Counted', Adds(f, S), f[S] = totalScore
  PROVE  SumInv'
<1>1. data' = data /\ totalScore' = totalScore
  BY DEF args
<1>2. \A n : Weight(n)' = Weight(n)
  BY <1>1 DEF Weight, PerformanceScore
<1>3. Adds(f, Counted)'
  BY <1>2 DEF Adds
<1>4. (f[Counted] = totalScore)'
  BY <1>1
<1> QED BY <1>3, <1>4 DEF SumInv

LEMMA NextSum ==
  ASSUME IInv, CountInv, SumInv, [Next]_vars
  PROVE  SumInv'
<1>1. ASSUME NEW n \in Node, CountNode(n) PROVE SumInv'
  <2>1. n \in KeptNodes /\ n \notin Counted /\ Counted' = Counted \union {n} /\ data' = data
    BY <1>1, CountsNode DEF args
  <2>2. PICK f : Adds(f, Counted) /\ f[Counted] = totalScore
    BY <1>1 DEF CountNode, SumInv
  <2>3. Weight(n) \in Nat
    BY <2>1, WeightPositive
  <2>4. PICK g : Adds(g, Counted \union {n}) /\ g[Counted \union {n}] = f[Counted] + Weight(n)
    BY <2>1, <2>2, <2>3, AddsNode
  <2>5. totalScore' = totalScore + Weight(n)
    BY <1>1 DEF CountNode, Weight, IInv, TypeOK
  <2> DEFINE S == Counted \union {n}
  <2>6. Adds(g, S) /\ g[S] = totalScore'
    BY <2>2, <2>4, <2>5
  <2>7. Counted' = S
    BY <2>1
  <2> HIDE DEF S
  <2>8. \A m : Weight(m)' = Weight(m)
    BY <2>1 DEF Weight, PerformanceScore
  <2>9. Adds(g, Counted)'
    BY <2>6, <2>7, <2>8 DEF Adds
  <2> QED BY <2>6, <2>7, <2>9 DEF SumInv
<1>2. CASE Retain
  <2>1. pc = "start" /\ uncounted' = KeptNodes /\ UNCHANGED <<args, totalScore>> /\ totalScore = 0
    BY <1>2 DEF Retain, CountInv
  <2>2. Counted' = {}
    BY <2>1 DEF Counted, KeptNodes, args
  <2> DEFINE f == [T \in {{}} |-> 0]
  <2>3. Adds(f, {}) /\ f[{}] = 0
    BY DEF Adds
  <2> HIDE DEF f
  <2> QED BY <2>1, <2>2, <2>3, SameSum
<1>3. CASE SkipUndistributed \/ SkipFewEndpoints \/ SkipNoVerdicts
  BY <1>3 DEF SkipUndistributed, SkipFewEndpoints, SkipNoVerdicts, SumInv, Looping
<1>4. ASSUME UNCHANGED <<args, totals>>, pc' = pc \/ ((pc = "count" \/ Looping) /\ Looping')
      PROVE  SumInv'
  <2>1. CASE pc = "count" \/ Looping
    <3>1. Counted' = Counted /\ UNCHANGED <<args, totalScore>>
      BY <1>4 DEF Counted, KeptNodes, args, totals
    <3>2. PICK f : Adds(f, Counted) /\ f[Counted] = totalScore
      BY <2>1 DEF SumInv
    <3>3. PICK S : S = Counted
      OBVIOUS
    <3> QED BY <3>1, <3>2, <3>3, SameSum
  <2>2. CASE ~(pc = "count" \/ Looping)
    BY <1>4, <2>2 DEF SumInv, Looping
  <2> QED BY <2>1, <2>2
<1>5. CASE BeginAllocation
  BY <1>4, <1>5 DEF BeginAllocation, Looping
<1>6. ASSUME NEW n \in Node, VisitZeroPortion(n) \/ VisitNode(n) PROVE SumInv'
  BY <1>4, <1>6 DEF VisitZeroPortion, VisitNode, Looping
<1>7. CASE PlaceEndpoint \/ CapReached \/ BuildRule
  BY <1>4, <1>7 DEF PlaceEndpoint, CapReached, BuildRule, Looping, LeaveNode
<1>8. CASE UNCHANGED vars
  BY <1>4, <1>8 DEF vars
<1> QED BY <1>1, <1>2, <1>3, <1>5, <1>6, <1>7, <1>8 DEF Next, Returned

LEMMA SumInvariance == Spec => []SumInv
<1>1. Init => SumInv
  BY DEF Init, SumInv, Looping
<1>2. IInv /\ CountInv /\ SumInv /\ [Next]_vars => SumInv'
  BY NextSum
<1> QED BY <1>1, <1>2, Invariance, CountInvariance, PTL DEF Spec
-----------------------------------------------------------------------------
\* The second loop gives runs of draws to the nodes in the order it visits
\* them.  A node in hand is not yet Done.
Visited == KeptNodes \ unvisited
Done == IF pc = "place" THEN Visited \ {node} ELSE Visited
Lesser(i, j) == IF i < j THEN i ELSE j

\* The ranges are those of visited nodes, and of the pods before idx on the
\* node in hand; the inner loop's constants come from that node's portion.
FrameInv ==
  /\ \A i \in DOMAIN verdicts :
       /\ verdicts[i].pod[1] \notin unvisited
       /\ pc = "place" /\ verdicts[i].pod[1] = node => verdicts[i].pod[2] < idx
  /\ pc = "place" =>
       /\ portionEach = NodePortion(node) \div pods[node]
       /\ remainder = NodePortion(node) % pods[node]
       /\ node \notin unvisited
       /\ idx > 0 => starting < cap
  /\ verdicts = << >> => starting = 0
  /\ pc = "built" => unvisited = {}

\* f is a sum of weights of the usable nodes.
Sums(f) == Adds(f, KeptNodes) /\ f[KeptNodes] = totalScore

\* The nodes P were given a draws at most: half a draw each too many.
Fits(f, a, P) == 2 * totalScore * a <= 2 * cap * f[P] + Cardinality(P) * totalScore

\* Pod i of node n has a run of as many draws as its share says.
PodShare(n, i) ==
  (NodePortion(n) \div pods[n]) + (IF i < NodePortion(n) % pods[n] THEN 1 ELSE 0)
PodServed(n, i) == \E a \in 0..cap : SlotsOfPod(<<n, i>>) = a..(a + PodShare(n, i) - 1)

\* A node that was passed over for having fewer slots than pods, one that got
\* its whole portion, and one that the cap cut short.
PassedOver(n) == SlotsOf(n) = {} /\ NodePortion(n) < pods[n]
WholePortion(n) ==
  /\ \E a \in 0..cap : SlotsOf(n) = a..(a + NodePortion(n) - 1)
  /\ \A i \in 0..(pods[n] - 1) : PodServed(n, i)
CutShort(n) ==
  /\ starting = cap
  /\ \E a \in 0..cap :
       /\ SlotsOf(n) = a..(cap - 1)
       /\ cap - a <= NodePortion(n)
       /\ 2 * Weight(n) * cap <= 2 * (cap - a) * totalScore + Cardinality(KeptNodes) * totalScore
Served(n) == PassedOver(n) \/ WholePortion(n) \/ CutShort(n)

\* The node in hand has its run from a on, with the pods before idx served.
Placing(f, a) ==
  /\ Fits(f, a, Done)
  /\ SlotsOf(node) = a..(starting - 1)
  /\ starting - a = idx * portionEach + Lesser(idx, remainder)
  /\ \A i \in 0..(idx - 1) : PodServed(node, i)

\* While nothing is given out, every visited node had fewer slots than pods.
Shares(f) ==
  /\ Sums(f)
  /\ Unmeasured(pods, data) = {} =>
       /\ \A n \in Done : Served(n)
       /\ pc # "place" => Fits(f, starting, Visited)
       /\ pc = "place" => \E a \in 0..cap : Placing(f, a)
       /\ pc = "allocate" /\ verdicts = << >> =>
            2 * cap * f[Visited] <= Cardinality(Visited) * (totalScore * (2 * MaxPods - 1))

SharesInv == Looping => \E f : Shares(f)
-----------------------------------------------------------------------------
LEMMA NextFrame ==
  ASSUME IInv, CountInv, FrameInv, [Next]_vars
  PROVE  FrameInv'
<1>1. CASE SkipUndistributed \/ Retain \/ (\E n \in Node : CountNode(n)) \/ SkipFewEndpoints
  BY <1>1 DEF SkipUndistributed, Retain, CountNode, SkipFewEndpoints, FrameInv, inner
<1>2. CASE BeginAllocation
  <2>1. pc' = "allocate" /\ starting' = 0 /\ verdicts' = << >>
    BY <1>2 DEF BeginAllocation, CountInv
  <2> QED BY <2>1 DEF FrameInv
<1>3. ASSUME NEW n \in Node, VisitZeroPortion(n) PROVE FrameInv'
  BY <1>3 DEF VisitZeroPortion, FrameInv
<1>4. ASSUME NEW n \in Node, VisitNode(n) PROVE FrameInv'
  <2>1. /\ pc = "allocate" /\ n \in unvisited /\ unvisited' = unvisited \ {n}
        /\ UNCHANGED <<pods, data, cap, totalScore, starting, verdicts>>
        /\ pc' = "allocate" \/ (/\ pc' = "place" /\ node' = n /\ idx' = 0
                                /\ portionEach' = NodePortion(n) \div pods[n]
                                /\ remainder' = NodePortion(n) % pods[n])
    BY <1>4 DEF VisitNode, args, totals
  <2>2. NodePortion(n)' = NodePortion(n)
    BY <2>1 DEF NodePortion, PerformanceScore
  <2>3. \A i \in DOMAIN verdicts' : verdicts'[i].pod[1] \notin unvisited' /\ verdicts'[i].pod[1] # n
    BY <2>1 DEF FrameInv
  <2>4. CASE pc' = "allocate"
    BY <2>1, <2>3, <2>4 DEF FrameInv
  <2>5. CASE pc' = "place"
    <3>1. /\ node' = n /\ idx' = 0 /\ pods' = pods /\ portionEach' = NodePortion(n) \div pods[n]
          /\ remainder' = NodePortion(n) % pods[n]
      BY <2>1, <2>5
    <3>2. (portionEach = NodePortion(node) \div pods[node] /\ remainder = NodePortion(node) % pods[node])'
      BY <2>2, <3>1
    <3> QED BY <2>1, <2>3, <2>5, <3>1, <3>2 DEF FrameInv
  <2> QED BY <2>1, <2>4, <2>5
<1>5. CASE PlaceEndpoint
  <2> DEFINE v == [lo |-> starting, hi |-> RangeEnd, pod |-> <<node, idx>>]
  <2>1. /\ pc = "place" /\ starting < cap /\ UNCHANGED <<pods, data, cap, totalScore, unvisited>>
        /\ verdicts' = Append(verdicts, v) /\ v.pod[1] = node /\ v.pod[2] = idx
        /\ pc' = "place" => /\ idx' = idx + 1 /\ UNCHANGED <<node, portionEach, remainder>>
                            /\ starting' < cap
        /\ pc' # "built" /\ node \notin unvisited /\ idx \in Nat
    <3>1. starting' = RangeEnd + 1 /\ starting' \in Nat /\ cap \in Nat
      BY <1>5, RangeFits, CapAssumption, SMTT(20) DEF PlaceEndpoint, IInv, TypeOK
    <3> QED BY <1>5, <3>1 DEF PlaceEndpoint, FrameInv, IInv, TypeOK, args, totals
  <2>2. \A i \in DOMAIN verdicts' : verdicts'[i] = v \/ \E j \in DOMAIN verdicts : verdicts'[i] = verdicts[j]
    <3>1. verdicts \in Seq(Verdict) /\ v \in Verdict
      <4>1. node \in Node /\ idx \in Nat /\ starting \in Nat /\ RangeEnd \in Nat
        BY <2>1, RangeFits, CapAssumption, SMTT(20)
        DEF IInv, TypeOK, LoopInv, KeptNodes, Kept, HostsOf
      <4> QED BY <4>1 DEF IInv, TypeOK, Verdict
    <3> HIDE DEF v
    <3> QED BY <2>1, <3>1, AppendProperties
  <2>3. verdicts' # << >>
    <3> HIDE DEF v
    <3> QED BY <2>1, AppendProperties DEF IInv, TypeOK
  <2>4. \A i \in DOMAIN verdicts' :
          /\ verdicts'[i].pod[1] \notin unvisited
          /\ verdicts'[i].pod[1] = node => verdicts'[i].pod[2] < idx + 1
    <3>1. ASSUME NEW j \in DOMAIN verdicts
          PROVE  /\ verdicts[j].pod[1] \notin unvisited
                 /\ verdicts[j].pod[1] = node => verdicts[j].pod[2] < idx + 1
      <4>1. verdicts[j] \in Verdict
        BY <3>1, VerdictsTyped, ElementOfSeq DEF IInv, TypeOK
      <4> QED BY <2>1, <4>1 DEF FrameInv, Verdict
    <3> HIDE DEF v
    <3> QED BY <2>1, <2>2, <3>1
  <2>5. pc' = "place" => (/\ portionEach = NodePortion(node) \div pods[node]
                          /\ remainder = NodePortion(node) % pods[node])'
    BY <2>1 DEF FrameInv, NodePortion, PerformanceScore
  <2> QED BY <2>1, <2>3, <2>4, <2>5 DEF FrameInv
<1>6. CASE CapReached \/ SkipNoVerdicts \/ BuildRule
  BY <1>6 DEF CapReached, SkipNoVerdicts, BuildRule, FrameInv
<1>7. CASE UNCHANGED vars
  BY <1>7 DEF vars, args, totals, inner, FrameInv, NodePortion, PerformanceScore
<1> QED BY <1>1, <1>2, <1>3, <1>4, <1>5, <1>6, <1>7 DEF Next, Returned
-----------------------------------------------------------------------------
\* One node more gets its rounded share.
LEMMA OneMore ==
  ASSUME NEW t \in Nat, NEW c \in Nat, NEW a \in Nat, NEW m \in Nat, NEW k \in Nat,
         NEW q \in Nat, NEW s \in Nat,
         2 * t * a <= 2 * c * m + k * t, 2 * t * q <= 2 * s * c + t
  PROVE  2 * t * (a + q) <= 2 * c * (m + s) + (k + 1) * t
<1>1. /\ 2 * t * (a + q) = 2 * t * a + 2 * t * q
      /\ 2 * c * (m + s) = 2 * c * m + 2 * s * c
      /\ (k + 1) * t = k * t + t
  OBVIOUS
<1> QED BY <1>1

\* What the cap leaves to a node is near its share, if the others got theirs.
LEMMA Leftover ==
  ASSUME NEW t \in Nat, NEW c \in Nat, NEW a \in 0..c, NEW m \in Nat, NEW k \in Nat,
         NEW s \in Nat, 2 * t * a <= 2 * c * m + k * t, m + s <= t
  PROVE  2 * s * c <= 2 * (c - a) * t + k * t
<1>1. c * (m + s) <= c * t
  OBVIOUS
<1>2. /\ c * (m + s) = c * m + s * c
      /\ 2 * (c - a) * t = 2 * (c * t) - 2 * t * a
      /\ 2 * s * c = 2 * (s * c) /\ 2 * c * m = 2 * (c * m)
  OBVIOUS
<1> QED BY <1>1, <1>2

\* A share rounded to the nearest slot is at most half a slot off.
LEMMA Rounding ==
  ASSUME NEW s \in Nat, NEW t \in Nat, NEW c \in Nat, t >= 1,
         NEW q, q = (2 * s * c + t) \div (2 * t)
  PROVE  q \in Nat /\ 2 * t * q <= 2 * s * c + t /\ 2 * s * c < 2 * t * q + t
<1> DEFINE a == 2 * s * c + t
           b == 2 * t
<1>1. a \in Nat /\ b \in Nat /\ b > 0 /\ q = a \div b
  OBVIOUS
<1>2. q \in Nat /\ b * q <= a /\ a < b * q + b
  <2> HIDE DEF a, b
  <2> QED BY <1>1, DivBound
<1> QED BY <1>2

\* The numbers the second loop works with, and the portion of each node.
LEMMA PortionFacts ==
  ASSUME IInv, CountInv, Looping, Unmeasured(pods, data) = {}, NEW f, Sums(f),
         NEW n \in KeptNodes
  PROVE  /\ cap \in Nat /\ totalScore \in Nat /\ totalScore >= 1 /\ IsFiniteSet(KeptNodes)
         /\ Weight(n) \in 1..totalScore /\ pods[n] \in 1..MaxPods
         /\ Weight(n) = PerformanceScore(data[n])
         /\ NodePortion(n) \in 0..cap
         /\ 2 * totalScore * NodePortion(n) <= 2 * Weight(n) * cap + totalScore
         /\ 2 * Weight(n) * cap < 2 * totalScore * NodePortion(n) + totalScore
<1>1. cap \in Nat /\ totalScore \in Nat /\ IsFiniteSet(KeptNodes)
  BY CapAssumption DEF IInv, TypeOK, CountInv, Counted
<1>2. /\ Weight(n) \in Nat /\ pods[n] \in 1..MaxPods
      /\ data[n].latency \in Nat /\ (data[n].latency > 0 => Weight(n) >= 1)
  BY WeightPositive
<1>3. data[n].latency > 0 /\ Weight(n) = PerformanceScore(data[n])
  BY <1>2 DEF Unmeasured, KeptNodes, Weight
<1>4. Weight(n) <= totalScore
  <2>1. f[{} \union {n}] = f[{}] + Weight(n) /\ f[{}] = 0
    BY DEF Sums, Adds
  <2>2. f[{} \union {n}] <= f[KeptNodes] /\ f[KeptNodes] = totalScore
    BY DEF Sums, Adds
  <2> QED BY <1>1, <1>2, <2>1, <2>2
<1>5. NodePortion(n) = (2 * Weight(n) * cap + totalScore) \div (2 * totalScore)
  BY <1>3 DEF NodePortion
<1>6. Weight(n) >= 1 /\ totalScore >= 1
  BY <1>1, <1>2, <1>3, <1>4
<1>7. NodePortion(n) \in 0..cap
  BY <1>1, <1>2, <1>4, <1>5, <1>6, RoundedShare
<1>8. /\ 2 * totalScore * NodePortion(n) <= 2 * Weight(n) * cap + totalScore
      /\ 2 * Weight(n) * cap < 2 * totalScore * NodePortion(n) + totalScore
  BY <1>1, <1>2, <1>5, <1>6, Rounding
<1> QED BY <1>1, <1>2, <1>3, <1>4, <1>6, <1>7, <1>8

\* The slots given out before a node and to it, against the sums of weights.
LEMMA SumFacts ==
  ASSUME IInv, CountInv, Looping, NEW f, Sums(f),
         NEW P \in SUBSET KeptNodes, NEW n \in KeptNodes \ P
  PROVE  /\ f[P] \in Nat /\ Weight(n) \in Nat /\ f[P \union {n}] = f[P] + Weight(n)
         /\ f[P] + Weight(n) <= totalScore
         /\ IsFiniteSet(P) /\ Cardinality(P) \in Nat
         /\ Cardinality(P \union {n}) = Cardinality(P) + 1
         /\ Cardinality(KeptNodes) \in Nat /\ Cardinality(P) <= Cardinality(KeptNodes)
<1>1. /\ f[P] \in Nat /\ Weight(n) \in Nat /\ f[P \union {n}] = f[P] + Weight(n)
      /\ f[P \union {n}] <= f[KeptNodes] /\ f[KeptNodes] = totalScore
  <2>1. P \union {n} \in SUBSET KeptNodes /\ P \union {n} \subseteq KeptNodes
        /\ KeptNodes \in SUBSET KeptNodes
    OBVIOUS
  <2>2. f \in [SUBSET KeptNodes -> Nat] /\ f[KeptNodes] = totalScore
    BY DEF Sums, Adds
  <2>3. \A T, U \in SUBSET KeptNodes : T \subseteq U => f[T] <= f[U]
    BY DEF Sums, Adds
  <2>4. f[P \union {n}] <= f[KeptNodes]
    BY <2>1, <2>3
  <2>5. Weight(n) \in Nat /\ f[P \union {n}] = f[P] + Weight(n)
    BY DEF Sums, Adds
  <2> QED BY <2>2, <2>4, <2>5
<1>2. IsFiniteSet(KeptNodes)
  BY DEF CountInv, Counted
<1>3. IsFiniteSet(P) /\ Cardinality(P) <= Cardinality(KeptNodes)
  BY <1>2, FS_Subset
<1>4. Cardinality(P) \in Nat /\ Cardinality(KeptNodes) \in Nat
  BY <1>2, <1>3, FS_CardinalityType
<1>5. Cardinality(P \union {n}) = Cardinality(P) + 1
  BY <1>3, FS_AddElement
<1> QED BY <1>1, <1>3, <1>4, <1>5
-----------------------------------------------------------------------------
LEMMA InSlots ==
  \A n, d : d \in SlotsOf(n) <=>
    \E i \in DOMAIN verdicts : verdicts[i].pod[1] = n /\ d \in verdicts[i].lo..verdicts[i].hi
BY DEF SlotsOf

LEMMA InSlotsOfPod ==
  \A q, d : d \in SlotsOfPod(q) <=>
    \E i \in DOMAIN verdicts : verdicts[i].pod = q /\ d \in verdicts[i].lo..verdicts[i].hi
BY DEF SlotsOfPod

\* A range gives its draws to one pod; it had none, and the others keep theirs.
LEMMA PlacedSlots ==
  ASSUME IInv, FrameInv, PlaceEndpoint, NEW k, k = node, NEW j, j = idx
  PROVE  /\ SlotsOf(k)' = SlotsOf(k) \union (starting..RangeEnd)
         /\ \A n : n # k => SlotsOf(n)' = SlotsOf(n)
         /\ SlotsOfPod(<<k, j>>)' = starting..RangeEnd
         /\ \A q : q # <<k, j>> => SlotsOfPod(q)' = SlotsOfPod(q)
<1> DEFINE v == [lo |-> starting, hi |-> RangeEnd, pod |-> <<node, idx>>]
<1>1. /\ pc = "place" /\ verdicts' = Append(verdicts, v)
      /\ v.lo = starting /\ v.hi = RangeEnd /\ v.pod = <<k, j>> /\ v.pod[1] = k
  BY DEF PlaceEndpoint
<1>2. verdicts \in Seq(Verdict) /\ v \in Verdict /\ j \in Nat
  <2>1. starting \in Nat /\ cap \in Nat /\ RangeEnd \in starting..(cap - 1)
    BY <1>1, RangeFits, CapAssumption DEF IInv, TypeOK, PlaceEndpoint
  <2>2. node \in Node /\ idx \in Nat
    BY <1>1 DEF IInv, TypeOK, LoopInv, KeptNodes, Kept, HostsOf
  <2> QED BY <2>1, <2>2 DEF IInv, TypeOK, Verdict
<1> HIDE DEF v
<1>3. /\ Len(verdicts) \in Nat /\ DOMAIN verdicts = 1..Len(verdicts)
      /\ DOMAIN verdicts' = 1..(Len(verdicts) + 1)
      /\ \A i \in 1..Len(verdicts) : verdicts'[i] = verdicts[i]
      /\ verdicts'[Len(verdicts) + 1] = v
  <2>1. /\ verdicts' \in Seq(Verdict) /\ Len(verdicts') = Len(verdicts) + 1
        /\ \A i \in 1..Len(verdicts) : verdicts'[i] = verdicts[i]
        /\ verdicts'[Len(verdicts) + 1] = v
    BY <1>1, <1>2, AppendProperties
  <2> QED BY <1>2, <2>1, LenProperties
<1>4. /\ DOMAIN verdicts' = DOMAIN verdicts \union {Len(verdicts) + 1}
      /\ Len(verdicts) + 1 \notin DOMAIN verdicts
      /\ \A i \in DOMAIN verdicts : verdicts'[i] = verdicts[i]
  BY <1>3
<1>5. \A i \in DOMAIN verdicts : verdicts[i].pod # <<k, j>>
  <2>1. ASSUME NEW i \in DOMAIN verdicts, verdicts[i].pod = <<k, j>> PROVE FALSE
    <3>1. verdicts[i].pod[1] = node /\ verdicts[i].pod[2] = j
      BY <2>1
    <3>2. verdicts[i].pod[2] < j
      BY <1>1, <3>1 DEF FrameInv
    <3> QED BY <1>2, <3>1, <3>2
  <2> QED BY <2>1
<1>6. \A n, d : d \in SlotsOf(n)' <=>
        \E i \in DOMAIN verdicts' : verdicts'[i].pod[1] = n /\ d \in verdicts'[i].lo..verdicts'[i].hi
  BY DEF SlotsOf
<1>7. \A q, d : d \in SlotsOfPod(q)' <=>
        \E i \in DOMAIN verdicts' : verdicts'[i].pod = q /\ d \in verdicts'[i].lo..verdicts'[i].hi
  BY DEF SlotsOfPod
<1>8. \A n, d : d \in SlotsOf(n)' <=> d \in SlotsOf(n) \/ (n = k /\ d \in starting..RangeEnd)
  BY <1>1, <1>3, <1>4, <1>6, InSlots
<1>9. \A q, d : d \in SlotsOfPod(q)' <=> d \in SlotsOfPod(q) \/ (q = <<k, j>> /\ d \in starting..RangeEnd)
  <2> SUFFICES ASSUME NEW q, NEW d
               PROVE  d \in SlotsOfPod(q)' <=> d \in SlotsOfPod(q) \/ (q = <<k, j>> /\ d \in starting..RangeEnd)
    OBVIOUS
  <2>1. v.pod = q <=> q = <<k, j>>
    BY <1>1
  <2>2. v.lo..v.hi = starting..RangeEnd
    BY <1>1
  <2> DEFINE P(u) == u.pod = q /\ d \in u.lo..u.hi
  <2>3. (\E i \in DOMAIN verdicts' : P(verdicts'[i])) <=> (\E i \in DOMAIN verdicts : P(verdicts[i])) \/ P(v)
    <3> HIDE DEF P
    <3> QED BY <1>3, <1>4
  <2> QED BY <1>7, <2>1, <2>2, <2>3, InSlotsOfPod, ZenonT(30)
<1>10. SlotsOfPod(<<k, j>>) = {}
  BY <1>5, InSlotsOfPod
<1> QED BY <1>8, <1>9, <1>10

\* What was given to a node stays as it was when nothing more is given to it.
LEMMA ServedStays ==
  ASSUME UNCHANGED <<args, totalScore>>, starting' = starting \/ starting # cap, NEW n,
         SlotsOf(n)' = SlotsOf(n), \A i : SlotsOfPod(<<n, i>>)' = SlotsOfPod(<<n, i>>), Served(n)
  PROVE  Served(n)'
<1>1. UNCHANGED <<pods, data, cap, totalScore>> /\ KeptNodes' = KeptNodes
  BY DEF args, KeptNodes
<1>2. NodePortion(n)' = NodePortion(n) /\ Weight(n)' = Weight(n)
  BY <1>1 DEF NodePortion, Weight, PerformanceScore
<1>3. \A i : PodShare(n, i)' = PodShare(n, i)
  BY <1>1, <1>2 DEF PodShare
<1>4. CASE PassedOver(n)
  BY <1>1, <1>2, <1>4 DEF PassedOver, Served
<1>5. CASE WholePortion(n)
  BY <1>1, <1>2, <1>3, <1>5 DEF WholePortion, PodServed, Served
<1>6. CASE CutShort(n)
  BY <1>1, <1>2, <1>6 DEF CutShort, Served
<1> QED BY <1>4, <1>5, <1>6 DEF Served

LEMMA SumsStay ==
  ASSUME UNCHANGED <<args, totalScore>>, NEW f, Sums(f)
  PROVE  Sums(f)'
<1>1. UNCHANGED <<data, totalScore>> /\ KeptNodes' = KeptNodes
  BY DEF args, KeptNodes
<1>2. \A n : Weight(n)' = Weight(n)
  BY <1>1 DEF Weight, PerformanceScore
<1>3. Adds(f, KeptNodes)'
  BY <1>1, <1>2 DEF Sums, Adds
<1> QED BY <1>1, <1>3 DEF Sums

\* A node is visited and gets nothing, having fewer slots than pods.
LEMMA PassOver ==
  ASSUME IInv, CountInv, FrameInv, NEW f, Shares(f), Unmeasured(pods, data) = {},
         NEW n, n \in unvisited, pc = "allocate", pc' = "allocate", unvisited' = unvisited \ {n},
         UNCHANGED <<args, totalScore, starting, verdicts>>, NodePortion(n) < pods[n]
  PROVE  Shares(f)'
<1>1. /\ n \in KeptNodes \ Visited /\ Visited \in SUBSET KeptNodes
      /\ UNCHANGED <<pods, data, cap, totalScore>> /\ KeptNodes' = KeptNodes
      /\ Looping
  BY DEF IInv, TypeOK, Visited, KeptNodes, args, Looping
<1>2. Visited' = Visited \union {n} /\ Done = Visited /\ Done' = Visited'
  BY <1>1 DEF Visited, Done
<1>3. Sums(f) /\ Sums(f)'
  BY SumsStay DEF Shares
<1>4. \A m : SlotsOf(m)' = SlotsOf(m) /\ \A q : SlotsOfPod(q)' = SlotsOfPod(q)
  BY DEF SlotsOf, SlotsOfPod
<1>5. \A m \in Done' : Served(m)'
  <2>1. SlotsOf(n) = {}
    BY InSlots DEF FrameInv
  <2>2. NodePortion(n)' = NodePortion(n)
    BY <1>1 DEF NodePortion, PerformanceScore
  <2>3. Served(n)'
    BY <1>1, <1>4, <2>1, <2>2 DEF Served, PassedOver
  <2>4. ASSUME NEW m \in Visited PROVE Served(m)'
    BY <1>2, <1>4, <2>4, ServedStays DEF Shares
  <2> QED BY <1>2, <2>3, <2>4
<1> DEFINE s == Weight(n)
           q == NodePortion(n)
           t == totalScore
           w == Cardinality(Visited)
           M == f[Visited]
<1>6. /\ cap \in Nat /\ t \in Nat /\ s \in Nat /\ q \in Nat /\ starting \in Nat /\ MaxPods \in Nat
      /\ q < pods[n] /\ pods[n] \in 1..MaxPods
      /\ 2 * t * q <= 2 * s * cap + t /\ 2 * s * cap < 2 * t * q + t
      /\ M \in Nat /\ w \in Nat
      /\ f[Visited'] = M + s /\ Cardinality(Visited') = w + 1
  <2>1. s \in 1..t /\ cap \in Nat /\ t \in Nat /\ q \in 0..cap /\ pods[n] \in 1..MaxPods
        /\ 2 * t * q <= 2 * s * cap + t /\ 2 * s * cap < 2 * t * q + t
    BY <1>1, <1>3, PortionFacts
  <2>2. M \in Nat /\ f[Visited \union {n}] = M + s /\ w \in Nat /\ Cardinality(Visited \union {n}) = w + 1
    <3>1. IInv /\ CountInv /\ Looping /\ Sums(f) /\ Visited \in SUBSET KeptNodes /\ n \in KeptNodes \ Visited
      BY <1>1, <1>3
    <3> HIDE DEF q, s, t
    <3> QED BY <3>1, SumFacts DEF s
  <2> QED BY <1>2, <2>1, <2>2, BoundAssumption DEF IInv, TypeOK
<1>7. Fits(f, starting, Visited)'
  <2>1. 2 * t * starting <= 2 * cap * M + w * t
    BY <1>2 DEF Shares, Fits
  <2>2. 2 * t * starting <= 2 * cap * (M + s) + (w + 1) * t
    <3> HIDE DEF s, q, t, w, M
    <3>1. 2 * t * (starting + 0) <= 2 * cap * (M + s) + (w + 1) * t
      <4>1. 2 * t * 0 <= 2 * s * cap + t
        BY <1>6
      <4> QED BY <1>6, <2>1, <4>1, OneMore
    <3> QED BY <1>6, <3>1
  <2> QED BY <1>1, <1>6, <2>2 DEF Fits
<1>8. verdicts = << >> =>
        2 * cap * (M + s) <= (w + 1) * (t * (2 * MaxPods - 1))
  <2> SUFFICES ASSUME verdicts = << >> PROVE 2 * cap * (M + s) <= (w + 1) * (t * (2 * MaxPods - 1))
    OBVIOUS
  <2>1. 2 * cap * M <= w * (t * (2 * MaxPods - 1))
    BY DEF Shares
  <2> HIDE DEF s, q, t, w, M
  <2>2. q <= MaxPods - 1
    BY <1>6
  <2>3. 2 * t * q <= 2 * t * (MaxPods - 1)
    BY <1>6, <2>2
  <2>4. 2 * s * cap <= t * (2 * MaxPods - 1)
    <3>1. 2 * t * (MaxPods - 1) + t = t * (2 * MaxPods - 1)
      BY <1>6
    <3> DEFINE A == 2 * s * cap  B == 2 * t * q  C == 2 * t * (MaxPods - 1)
               D == t * (2 * MaxPods - 1)
    <3>2. A \in Int /\ B \in Int /\ C \in Int /\ D \in Int
      BY <1>6
    <3>3. A < B + t /\ B <= C /\ C + t = D
      BY <1>6, <2>3, <3>1
    <3> HIDE DEF A, B, C, D
    <3>4. A <= D
      BY <1>6, <3>2, <3>3
    <3> QED BY <3>4 DEF A, D
  <2>5. 2 * cap * (M + s) = 2 * cap * M + 2 * s * cap
    BY <1>6
  <2> DEFINE D == t * (2 * MaxPods - 1)
  <2>6. D \in Int /\ w * D \in Int /\ (w + 1) * D = w * D + D
    BY <1>6
  <2>7. 2 * cap * M + 2 * s * cap <= w * D + D
    <3> DEFINE A == 2 * cap * M  B == 2 * s * cap  E == w * D
    <3>1. A \in Int /\ B \in Int /\ E \in Int /\ A <= E /\ B <= D
      BY <1>6, <2>1, <2>4, <2>6
    <3> HIDE DEF A, B, D, E
    <3>2. A + B <= E + D
      BY <2>6, <3>1
    <3> QED BY <3>2 DEF A, B, E
  <2> QED BY <2>5, <2>6, <2>7
<1>9. (verdicts = << >> =>
        2 * cap * f[Visited] <= Cardinality(Visited) * (totalScore * (2 * MaxPods - 1)))'
  BY <1>1, <1>6, <1>8
<1> QED BY <1>2, <1>3, <1>5, <1>7, <1>9 DEF Shares

\* A node is visited and taken in hand.
LEMMA TakeInHand ==
  ASSUME IInv, CountInv, FrameInv, NEW f, Shares(f), Unmeasured(pods, data) = {},
         NEW n, n \in unvisited, pc = "allocate", pc' = "place", unvisited' = unvisited \ {n},
         node' = n, idx' = 0, remainder' = NodePortion(n) % pods[n], portionEach' \in Nat,
         UNCHANGED <<args, totalScore, starting, verdicts>>
  PROVE  Shares(f)'
<1>1. /\ n \in KeptNodes \ Visited
      /\ UNCHANGED <<pods, data, cap, totalScore>> /\ KeptNodes' = KeptNodes
      /\ Looping /\ starting \in 0..cap /\ cap \in Nat /\ pods[n] \in 1..MaxPods
  BY WeightPositive, CapAssumption DEF IInv, TypeOK, Visited, KeptNodes, args, Looping
<1>2. Done = Visited /\ Done' = Visited
  BY <1>1 DEF Visited, Done
<1>3. Sums(f)'
  BY SumsStay DEF Shares
<1>4. \A m : SlotsOf(m)' = SlotsOf(m) /\ \A q : SlotsOfPod(q)' = SlotsOfPod(q)
  BY DEF SlotsOf, SlotsOfPod
<1>5. \A m \in Done' : Served(m)'
  <2>1. ASSUME NEW m \in Visited PROVE Served(m)'
    BY <1>2, <1>4, <2>1, ServedStays DEF Shares
  <2> QED BY <1>2, <2>1
<1>6. PICK a \in 0..cap : a = starting
  BY <1>1
<1>7. Placing(f, a)'
  <2>1. Fits(f, a, Done)'
    BY <1>1, <1>2, <1>6 DEF Shares, Fits
  <2>2. SlotsOf(n) = {}
    BY InSlots DEF FrameInv
  <2>3. SlotsOf(n)' = {} /\ a..(starting - 1) = {}
    BY <1>1, <1>4, <1>6, <2>2
  <2>4. (SlotsOf(node) = a..(starting - 1))'
    BY <2>3
  <2>5. (starting - a = idx * portionEach + Lesser(idx, remainder))'
    <3>1. 0 * portionEach' = 0
      <4>1. \A e \in Nat : 0 * e = 0
        OBVIOUS
      <4> QED BY <4>1
    <3>2. Lesser(0, remainder') = 0
      <4>1. remainder' \in Nat
        <5>1. NodePortion(n) \in 0..cap
          BY <1>1, PortionFacts DEF Shares
        <5> QED BY <1>1, <5>1
      <4> QED BY <4>1 DEF Lesser
    <3>3. starting' - a = 0
      BY <1>1, <1>6
    <3> QED BY <3>1, <3>2, <3>3 DEF Lesser
  <2>6. (\A i \in 0..(idx - 1) : PodServed(node, i))'
    OBVIOUS
  <2> QED BY <2>1, <2>4, <2>5, <2>6 DEF Placing
<1> QED BY <1>1, <1>3, <1>5, <1>6, <1>7 DEF Shares

\* A pod of the node in hand is given its range.
LEMMA PlacePod ==
  ASSUME IInv, CountInv, FrameInv, NEW f, Shares(f), Unmeasured(pods, data) = {}, PlaceEndpoint
  PROVE  Shares(f)'
<1> SUFFICES ASSUME NEW k, k = node, NEW j, j = idx PROVE Shares(f)'
  OBVIOUS
<1> DEFINE q == NodePortion(k)
           p == pods[k]
           e == portionEach
           r == remainder
           end == starting'
<1>1. /\ pc = "place" /\ k \in Visited /\ k \in KeptNodes /\ Looping /\ starting # cap
      /\ UNCHANGED <<pods, data, cap, totalScore, unvisited, args>> /\ KeptNodes' = KeptNodes
      /\ Visited' = Visited /\ Done = Visited \ {k} /\ Visited \in SUBSET KeptNodes
      /\ j \in Nat /\ j < p /\ e = q \div p /\ r = q % p
  <2>1. /\ pc = "place" /\ starting < cap /\ starting \in Nat /\ cap \in Nat
        /\ UNCHANGED <<pods, data, cap, totalScore, unvisited, args>> /\ j \in Nat
    BY CapAssumption DEF PlaceEndpoint, IInv, TypeOK, args, totals
  <2>2. k \in KeptNodes /\ k \notin unvisited /\ j < p /\ e = q \div p /\ r = q % p
    BY <2>1 DEF IInv, LoopInv, FrameInv
  <2> QED BY <2>1, <2>2 DEF Visited, Done, Looping, KeptNodes
<1>2. /\ cap \in Nat /\ totalScore \in Nat /\ p \in Nat /\ p >= 1 /\ q \in Nat
      /\ starting \in Nat /\ starting < cap /\ e \in Nat /\ r \in Nat
  <2>1. cap \in Nat /\ totalScore \in Nat /\ p \in 1..MaxPods /\ q \in 0..cap
    BY <1>1, PortionFacts DEF Shares
  <2>2. starting \in Nat /\ starting < cap /\ e \in Nat /\ r \in Nat
    BY <2>1 DEF PlaceEndpoint, IInv, TypeOK
  <2> QED BY <2>1, <2>2, BoundAssumption
<1>3. PICK a \in 0..cap : Placing(f, a)
  BY <1>1 DEF Shares
<1>a. a \in Nat /\ a <= cap
  BY <1>2
<1>4. /\ SlotsOf(k) = a..(starting - 1)
      /\ starting - a = j * e + Lesser(j, r)
      /\ \A i \in 0..(j - 1) : PodServed(k, i)
      /\ Fits(f, a, Visited \ {k})
  BY <1>1, <1>3 DEF Placing
<1>5. q = p * e + r /\ r < p
  <2> HIDE DEF q, p, e, r
  <2> QED BY <1>1, <1>2
<1>6. /\ a <= starting
      /\ (starting + ThisPortion) - a = (j + 1) * e + Lesser(j + 1, r)
      /\ (starting + ThisPortion) - a <= q
      /\ j + 1 = p => (starting + ThisPortion) - a = q
  <2>1. ThisPortion = IF j < r THEN e + 1 ELSE e
    BY DEF ThisPortion
  <2>2. j \in Nat /\ j < p
    BY <1>1
  <2>3. starting - a = j * e + Lesser(j, r)
    BY <1>4
  <2> HIDE DEF q, p, e, r
  <2>4. /\ Lesser(j, r) = IF j < r THEN j ELSE r
        /\ Lesser(j + 1, r) = IF j + 1 < r THEN j + 1 ELSE r
    BY DEF Lesser
  <2>5. Lesser(j, r) \in Nat /\ Lesser(j + 1, r) \in Nat
    BY <1>2, <2>2, <2>4
  <2>6. j * e \in Nat /\ p * e \in Nat /\ (j + 1) * e \in Nat
    BY <1>2, <2>2
  <2>7. (j + 1) * e = j * e + e
    BY <1>2, <2>2
  <2>8. (j + 1) * e <= p * e
    <3>1. j + 1 <= p
      BY <1>2, <2>2
    <3> QED BY <1>2, <2>2, <3>1
  <2>9. a <= starting
    BY <1>2, <1>a, <2>3, <2>5, <2>6
  <2>10. (starting + ThisPortion) - a = (j + 1) * e + Lesser(j + 1, r)
    <3> DEFINE A == j * e
    <3>1. A \in Nat /\ starting = a + A + Lesser(j, r)
      BY <1>2, <1>a, <2>3, <2>5, <2>6
    <3>2. ThisPortion + Lesser(j, r) = e + Lesser(j + 1, r)
      BY <1>2, <2>1, <2>2, <2>4
    <3>3. ThisPortion \in Nat
      BY <1>2, <2>1
    <3> HIDE DEF A
    <3>4. (starting + ThisPortion) - a = A + e + Lesser(j + 1, r)
      BY <1>2, <1>a, <2>5, <3>1, <3>2, <3>3
    <3>5. (j + 1) * e = A + e
      BY <2>7 DEF A
    <3> QED BY <3>4, <3>5
  <2>11. Lesser(j + 1, r) <= r /\ (j + 1 = p => Lesser(j + 1, r) = r)
    BY <1>2, <1>5, <2>2, <2>4
  <2>12. (j + 1) * e + Lesser(j + 1, r) <= p * e + r
    <3> DEFINE A == (j + 1) * e  B == p * e
    <3>1. A \in Nat /\ B \in Nat /\ A <= B
      BY <2>6, <2>8
    <3> HIDE DEF A, B
    <3>2. A + Lesser(j + 1, r) <= B + r
      BY <1>2, <2>5, <2>11, <3>1
    <3> QED BY <3>2 DEF A, B
  <2> QED BY <1>5, <2>9, <2>10, <2>11, <2>12
<1>7. /\ starting <= end /\ end <= cap /\ end \in Nat /\ RangeEnd = end - 1 /\ end - a <= q
      /\ end < cap => end = starting + ThisPortion
  <2>1. /\ RangeEnd \in starting..(cap - 1) /\ end = RangeEnd + 1 /\ ThisPortion \in Nat
        /\ RangeEnd = IF starting + ThisPortion < cap THEN starting + ThisPortion - 1 ELSE cap - 1
    BY <1>1, RangeFits DEF PlaceEndpoint, IInv
  <2> HIDE DEF q, p, e, r, end
  <2>2. /\ end <= starting + ThisPortion /\ end \in Nat /\ starting <= end /\ end <= cap
        /\ end < cap => end = starting + ThisPortion
    BY <1>2, <2>1
  <2>3. end - a <= q
    BY <1>2, <1>a, <1>6, <2>1, <2>2
  <2> QED BY <1>2, <2>1, <2>2, <2>3
<1>8. /\ SlotsOf(k)' = SlotsOf(k) \union (starting..RangeEnd)
      /\ \A n : n # k => SlotsOf(n)' = SlotsOf(n)
      /\ SlotsOfPod(<<k, j>>)' = starting..RangeEnd
      /\ \A x : x # <<k, j>> => SlotsOfPod(x)' = SlotsOfPod(x)
  BY PlacedSlots
<1>9. SlotsOf(k)' = a..(end - 1)
  <2> HIDE DEF end
  <2>1. a..(end - 1) = (a..(starting - 1)) \union (starting..(end - 1))
    BY <1>2, <1>a, <1>6, <1>7
  <2> QED BY <1>4, <1>7, <1>8, <2>1
<1>10. \A n \in Done : Served(n)'
  <2> SUFFICES ASSUME NEW n \in Done PROVE Served(n)'
    OBVIOUS
  <2>1. n # k /\ Served(n)
    BY <1>1 DEF Shares
  <2>2. \A i : <<n, i>> # <<k, j>>
    BY <2>1
  <2> QED BY <1>1, <1>8, <2>1, <2>2, ServedStays
<1>11. Sums(f) /\ Sums(f)'
  BY <1>1, SumsStay DEF Shares
<1>12. q = NodePortion(k)' /\ Weight(k)' = Weight(k) /\ \A i : PodShare(k, i)' = PodShare(k, i)
  BY <1>1 DEF NodePortion, Weight, PodShare, PerformanceScore
<1>13. /\ f[Done] \in Nat /\ Weight(k) \in Nat /\ f[Visited] = f[Done] + Weight(k)
       /\ f[Done] + Weight(k) <= totalScore /\ Cardinality(Done) \in Nat
       /\ Cardinality(Visited) = Cardinality(Done) + 1
       /\ Cardinality(KeptNodes) \in Nat /\ Cardinality(Done) <= Cardinality(KeptNodes)
  <2>1. Done \in SUBSET KeptNodes /\ k \in KeptNodes \ Done /\ Done \union {k} = Visited
    BY <1>1
  <2>2. /\ f[Done] \in Nat /\ Weight(k) \in Nat /\ f[Done \union {k}] = f[Done] + Weight(k)
        /\ f[Done] + Weight(k) <= totalScore
        /\ IsFiniteSet(Done) /\ Cardinality(Done) \in Nat
        /\ Cardinality(Done \union {k}) = Cardinality(Done) + 1
        /\ Cardinality(KeptNodes) \in Nat /\ Cardinality(Done) <= Cardinality(KeptNodes)
    <3>1. IInv /\ CountInv /\ Looping /\ Sums(f)
      BY <1>1, <1>11
    <3> HIDE DEF q, p, e, r, end
    <3> QED BY <2>1, <3>1, SumFacts
  <2> QED BY <2>1, <2>2
<1>14. ASSUME pc' = "allocate", Served(k)' PROVE Shares(f)'
  <2>1. Done' = Visited
    BY <1>1, <1>14 DEF Done
  <2>2. \A n \in Done' : Served(n)'
    <3>1. ASSUME NEW n \in Visited PROVE Served(n)'
      <4>1. CASE n = k
        BY <1>14, <4>1
      <4>2. CASE n # k
        BY <1>1, <1>10, <4>2
      <4> QED BY <4>1, <4>2
    <3> QED BY <2>1, <3>1
  <2>3. Fits(f, starting, Visited)'
    <3>1. 2 * totalScore * q <= 2 * Weight(k) * cap + totalScore
      BY <1>1, <1>11, PortionFacts
    <3>2. 2 * totalScore * a <= 2 * cap * f[Done] + Cardinality(Done) * totalScore
      BY <1>1, <1>4 DEF Fits
    <3> DEFINE M == f[Done]
               w == Cardinality(Done)
               s == Weight(k)
    <3>3. 2 * totalScore * (a + q) <= 2 * cap * (M + s) + (w + 1) * totalScore
      <4> HIDE DEF q, M, w, s
      <4>1. M \in Nat /\ w \in Nat /\ s \in Nat
        BY <1>13 DEF M, w, s
      <4>2. 2 * totalScore * a <= 2 * cap * M + w * totalScore
        BY <3>2 DEF M, w
      <4>3. 2 * totalScore * q <= 2 * s * cap + totalScore
        BY <3>1 DEF s
      <4> QED BY <1>2, <1>a, <4>1, <4>2, <4>3, OneMore
    <3>4. end <= a + q
      <4> HIDE DEF end, q
      <4> QED BY <1>2, <1>a, <1>7
    <3>5. 2 * totalScore * end <= 2 * totalScore * (a + q)
      <4> HIDE DEF end, q
      <4> QED BY <1>2, <1>a, <1>7, <3>4
    <3>6. f[Visited] = M + s /\ Cardinality(Visited) = w + 1
      BY <1>13
    <3>7. 2 * totalScore * end <= 2 * cap * f[Visited] + Cardinality(Visited) * totalScore
      <4> DEFINE A == 2 * totalScore * end
                 B == 2 * totalScore * (a + q)
                 C == 2 * cap * (M + s) + (w + 1) * totalScore
      <4>1. A \in Int /\ B \in Int /\ C \in Int
        BY <1>2, <1>a, <1>7, <1>13
      <4>2. A <= B /\ B <= C
        BY <3>3, <3>5
      <4> HIDE DEF A, B, C
      <4>3. A <= C
        BY <4>1, <4>2
      <4> QED BY <3>6, <4>3 DEF A, C
    <3> QED BY <1>1, <3>7 DEF Fits
  <2>4. verdicts' # << >>
    <3> DEFINE v == [lo |-> starting, hi |-> RangeEnd, pod |-> <<node, idx>>]
    <3>1. verdicts' = Append(verdicts, v) /\ verdicts \in Seq(Verdict)
      BY DEF PlaceEndpoint, IInv, TypeOK
    <3> HIDE DEF v
    <3> QED BY <3>1, AppendProperties
  <2> QED BY <1>11, <1>14, <2>2, <2>3, <2>4 DEF Shares
<1>15. CASE end = cap
  <2>1. pc' = "allocate"
    BY <1>2, <1>15 DEF PlaceEndpoint
  <2>2. 2 * Weight(k) * cap <= 2 * (cap - a) * totalScore + Cardinality(KeptNodes) * totalScore
    <3> DEFINE M == f[Done]
               w == Cardinality(Done)
               s == Weight(k)
               W == Cardinality(KeptNodes)
    <3>1. /\ M \in Nat /\ w \in Nat /\ s \in Nat /\ W \in Nat /\ w <= W /\ M + s <= totalScore
          /\ 2 * totalScore * a <= 2 * cap * M + w * totalScore
      BY <1>1, <1>4, <1>13 DEF Fits
    <3> HIDE DEF M, w, s, W
    <3>2. 2 * s * cap <= 2 * (cap - a) * totalScore + w * totalScore
      BY <1>2, <1>3, <3>1, Leftover
    <3>3. w * totalScore <= W * totalScore
      BY <1>2, <3>1
    <3> DEFINE A == 2 * s * cap  B == 2 * (cap - a) * totalScore
               C == w * totalScore  D == W * totalScore
    <3>4. A \in Int /\ B \in Int /\ C \in Int /\ D \in Int
      BY <1>2, <1>a, <3>1
    <3>5. A <= B + C /\ C <= D
      BY <3>2, <3>3
    <3> HIDE DEF A, B, C, D
    <3>6. A <= B + D
      BY <3>4, <3>5
    <3> QED BY <3>6 DEF A, B, D, s, W
  <2>3. CutShort(k)'
    <3>1. /\ starting' = cap' /\ (SlotsOf(k) = a..(cap - 1))' /\ cap - a <= q /\ a \in 0..cap'
      BY <1>1, <1>3, <1>7, <1>9, <1>15
    <3> QED BY <1>1, <1>12, <2>2, <3>1 DEF CutShort
  <2> QED BY <1>14, <2>1, <2>3 DEF Served
<1>16. ASSUME end < cap PROVE PodServed(k, j)'
  <2>1. PodShare(k, j) = ThisPortion
    BY <1>1 DEF PodShare, ThisPortion
  <2>2. end = starting + ThisPortion /\ RangeEnd = end - 1
    BY <1>7, <1>16
  <2>3. SlotsOfPod(<<k, j>>)' = starting..(starting + PodShare(k, j) - 1)
    <3>1. ThisPortion \in Nat
      BY <1>2 DEF ThisPortion
    <3>2. RangeEnd = starting + PodShare(k, j) - 1
      BY <1>2, <2>1, <2>2, <3>1
    <3> QED BY <1>8, <3>2
  <2>4. starting \in 0..cap
    BY <1>2
  <2> QED BY <1>1, <1>12, <2>3, <2>4 DEF PodServed
<1>17. \A i \in 0..(j - 1) : PodServed(k, i)'
  <2> SUFFICES ASSUME NEW i \in 0..(j - 1) PROVE PodServed(k, i)'
    OBVIOUS
  <2>1. <<k, i>> # <<k, j>>
    BY <1>1
  <2>2. PodServed(k, i)
    BY <1>4
  <2>3. SlotsOfPod(<<k, i>>)' = SlotsOfPod(<<k, i>>)
    BY <1>8, <2>1
  <2> QED BY <1>1, <1>12, <2>2, <2>3 DEF PodServed
<1>18. CASE end < cap /\ j + 1 = p
  <2>1. pc' = "allocate"
    BY <1>18 DEF PlaceEndpoint
  <2>2. end - a = q
    BY <1>6, <1>7, <1>18
  <2>3. \A i \in 0..(p - 1) : PodServed(k, i)'
    BY <1>1, <1>16, <1>17, <1>18
  <2>4. SlotsOf(k)' = a..(a + q - 1)
    <3> HIDE DEF end, q
    <3> QED BY <1>2, <1>a, <1>7, <1>9, <2>2
  <2>5. WholePortion(k)'
    BY <1>1, <1>3, <1>12, <2>3, <2>4 DEF WholePortion
  <2> QED BY <1>14, <2>1, <2>5 DEF Served
<1>19. CASE end < cap /\ j + 1 # p
  <2>1. pc' = "place" /\ idx' = j + 1 /\ UNCHANGED <<node, portionEach, remainder>>
    BY <1>1, <1>2, <1>19 DEF PlaceEndpoint
  <2>2. Done' = Done
    BY <1>1, <2>1 DEF Done
  <2>3. Placing(f, a)'
    <3>1. Fits(f, a, Done)'
      BY <1>1, <1>4, <2>2 DEF Fits
    <3>2. (SlotsOf(node) = a..(starting - 1))'
      BY <1>9, <2>1
    <3>3. (starting - a = idx * portionEach + Lesser(idx, remainder))'
      BY <1>6, <1>7, <1>19, <2>1 DEF Lesser
    <3>4. \A i \in 0..j : PodServed(k, i)'
      BY <1>1, <1>16, <1>17, <1>19
    <3>5. (\A i \in 0..(idx - 1) : PodServed(node, i))'
      BY <1>1, <2>1, <3>4
    <3> QED BY <3>1, <3>2, <3>3, <3>5 DEF Placing
  <2> QED BY <1>1, <1>3, <1>10, <1>11, <2>1, <2>2, <2>3 DEF Shares
<1> QED
  <2> HIDE DEF end, p
  <2> QED BY <1>2, <1>7, <1>15, <1>18, <1>19

\* The cap was reached before the node in hand got a slot.
LEMMA EndAtCap ==
  ASSUME IInv, CountInv, FrameInv, NEW f, Shares(f), Unmeasured(pods, data) = {}, CapReached
  PROVE  Shares(f)'
<1> SUFFICES ASSUME NEW k, k = node PROVE Shares(f)'
  OBVIOUS
<1>1. /\ pc = "place" /\ pc' = "allocate" /\ k \in Visited /\ k \in KeptNodes /\ Looping
      /\ UNCHANGED <<pods, data, cap, totalScore, unvisited, args, starting, verdicts>>
      /\ KeptNodes' = KeptNodes /\ Visited' = Visited /\ Done' = Visited
      /\ Done = Visited \ {k} /\ Visited \in SUBSET KeptNodes
      /\ cap \in Nat /\ cap >= 1 /\ totalScore \in Nat /\ starting = cap /\ idx = 0 /\ remainder \in Nat
      /\ portionEach \in Nat
  <2>1. /\ pc = "place" /\ pc' = "allocate" /\ starting >= cap
        /\ UNCHANGED <<pods, data, cap, totalScore, unvisited, args, starting, verdicts>>
    BY DEF CapReached, args, totals
  <2>2. /\ cap \in Nat /\ starting \in 0..cap /\ totalScore \in Nat /\ portionEach \in 0..cap
        /\ remainder \in Nat /\ k \in KeptNodes /\ k \notin unvisited /\ portionEach >= 1
        /\ idx \in Nat /\ (idx > 0 => starting < cap)
    BY <2>1, CapAssumption DEF IInv, TypeOK, LoopInv, FrameInv
  <2> QED BY <2>1, <2>2 DEF Visited, Done, Looping, KeptNodes
<1>2. PICK a \in 0..cap : Placing(f, a)
  BY <1>1 DEF Shares
<1>3. a = cap
  <2>1. Lesser(0, remainder) = 0 /\ 0 * portionEach = 0
    BY <1>1 DEF Lesser
  <2> QED BY <1>1, <1>2, <2>1 DEF Placing
<1>4. SlotsOf(k) = {} /\ Fits(f, cap, Done)
  <2>1. SlotsOf(k) = cap..(cap - 1) /\ Fits(f, cap, Done)
    BY <1>1, <1>2, <1>3 DEF Placing
  <2>2. cap..(cap - 1) = {}
    BY <1>1
  <2> QED BY <2>1, <2>2
<1>5. Sums(f) /\ Sums(f)'
  BY <1>1, SumsStay DEF Shares
<1> DEFINE M == f[Done]
           w == Cardinality(Done)
           s == Weight(k)
           W == Cardinality(KeptNodes)
<1>6. /\ M \in Nat /\ s \in Nat /\ f[Visited] = M + s /\ M + s <= totalScore
      /\ w \in Nat /\ Cardinality(Visited) = w + 1 /\ W \in Nat /\ w <= W
  <2>1. Done \in SUBSET KeptNodes /\ k \in KeptNodes \ Done /\ Done \union {k} = Visited
    BY <1>1
  <2>2. /\ M \in Nat /\ s \in Nat /\ f[Done \union {k}] = M + s /\ M + s <= totalScore
        /\ IsFiniteSet(Done) /\ w \in Nat /\ Cardinality(Done \union {k}) = w + 1
        /\ W \in Nat /\ w <= W
    <3>1. Looping
      BY <1>1
    <3> QED BY <1>5, <2>1, <3>1, SumFacts
  <2> QED BY <2>1, <2>2
<1>7. 2 * totalScore * cap <= 2 * cap * M + w * totalScore
  BY <1>4 DEF Fits
<1>8. Served(k)'
  <2>1. NodePortion(k)' = NodePortion(k) /\ Weight(k)' = s /\ NodePortion(k) \in 0..cap
    BY <1>1, <1>5, PortionFacts DEF NodePortion, Weight, PerformanceScore
  <2>2. 2 * s * cap <= 2 * (cap - cap) * totalScore + W * totalScore
    <3> HIDE DEF M, w, s, W
    <3>1. 2 * s * cap <= 2 * (cap - cap) * totalScore + w * totalScore
      <4>1. cap \in 0..cap
        BY <1>1
      <4> QED BY <1>1, <1>6, <1>7, <4>1, Leftover
    <3>2. w * totalScore <= W * totalScore
      BY <1>1, <1>6
    <3> DEFINE A == 2 * s * cap  B == 2 * (cap - cap) * totalScore
               C == w * totalScore  D == W * totalScore
    <3>3. A \in Int /\ B \in Int /\ C \in Int /\ D \in Int /\ A <= B + C /\ C <= D
      BY <1>1, <1>6, <3>1, <3>2
    <3> HIDE DEF A, B, C, D
    <3>4. A <= B + D
      BY <3>3
    <3> QED BY <3>4 DEF A, B, D
  <2>3. SlotsOf(k)' = cap..(cap - 1)
    <3>1. SlotsOf(k)' = SlotsOf(k)
      BY <1>1 DEF SlotsOf
    <3>2. cap..(cap - 1) = {}
      BY <1>1
    <3> QED BY <1>4, <3>1, <3>2
  <2>4. cap \in 0..cap /\ cap - cap <= NodePortion(k)
    BY <1>1, <2>1
  <2>5. CutShort(k)'
    BY <1>1, <2>1, <2>2, <2>3, <2>4 DEF CutShort
  <2> QED BY <2>5 DEF Served
<1>9. \A n \in Done' : Served(n)'
  <2>1. \A m : SlotsOf(m)' = SlotsOf(m) /\ \A q : SlotsOfPod(q)' = SlotsOfPod(q)
    BY <1>1 DEF SlotsOf, SlotsOfPod
  <2>2. ASSUME NEW n \in Visited PROVE Served(n)'
    <3>1. CASE n = k
      BY <1>8, <3>1
    <3>2. CASE n # k
      <4>1. Served(n)
        BY <1>1, <3>2 DEF Shares
      <4> QED BY <1>1, <2>1, <4>1, ServedStays
    <3> QED BY <3>1, <3>2
  <2> QED BY <1>1, <2>2
<1>10. Fits(f, starting, Visited)'
  <2>1. 2 * totalScore * cap <= 2 * cap * (M + s) + (w + 1) * totalScore
    <3> HIDE DEF M, w, s, W
    <3>1. 2 * totalScore * 0 <= 2 * s * cap + totalScore
      BY <1>1, <1>6
    <3>2. 2 * totalScore * (cap + 0) <= 2 * cap * (M + s) + (w + 1) * totalScore
      BY <1>1, <1>6, <1>7, <3>1, OneMore
    <3> QED BY <1>1, <3>2
  <2> QED BY <1>1, <1>6, <2>1 DEF Fits
<1>11. verdicts' # << >>
  BY <1>1 DEF FrameInv
<1> QED BY <1>1, <1>5, <1>9, <1>10, <1>11 DEF Shares

\* Nothing was given out by this step.
LEMMA SharesStay ==
  ASSUME NEW f, Shares(f), pc # "place", pc' # "place", pc' = "allocate" => pc = "allocate",
         UNCHANGED <<args, totalScore, unvisited, starting, verdicts>>
  PROVE  Shares(f)'
<1>1. /\ UNCHANGED <<pods, data, cap, totalScore>> /\ KeptNodes' = KeptNodes
      /\ Visited' = Visited /\ Done' = Visited /\ Done = Visited
  BY DEF args, KeptNodes, Visited, Done
<1>2. Sums(f)'
  BY SumsStay DEF Shares
<1>3. \A n : SlotsOf(n)' = SlotsOf(n) /\ \A q : SlotsOfPod(q)' = SlotsOfPod(q)
  BY DEF SlotsOf, SlotsOfPod
<1>4. Unmeasured(pods, data) = {} => \A n \in Visited : Served(n)'
  BY <1>1, <1>3, ServedStays DEF Shares
<1>5. Unmeasured(pods, data) = {} => (\A n \in Done : Served(n))'
  BY <1>1, <1>4
<1>6. Unmeasured(pods, data) = {} => Fits(f, starting, Visited)'
  BY <1>1 DEF Shares, Fits
<1> QED BY <1>1, <1>2, <1>5, <1>6 DEF Shares

LEMMA NextShares ==
  ASSUME IInv, CountInv, SumInv, FrameInv, SharesInv, [Next]_vars
  PROVE  SharesInv'
<1>1. CASE SkipUndistributed \/ Retain \/ (\E n \in Node : CountNode(n)) \/ SkipFewEndpoints
           \/ SkipNoVerdicts
  <2>1. ~Looping'
    BY <1>1 DEF SkipUndistributed, Retain, CountNode, SkipFewEndpoints, SkipNoVerdicts, Looping
  <2> QED BY <2>1 DEF SharesInv
<1>2. CASE BeginAllocation
  <2>1. /\ pc = "count" /\ pc' = "allocate" /\ uncounted = {} /\ unvisited' = KeptNodes
        /\ UNCHANGED <<pods, data, cap, totalScore, args>> /\ starting' = 0
        /\ KeptNodes' = KeptNodes
    BY <1>2 DEF BeginAllocation, CountInv, args, totals, KeptNodes
  <2>2. PICK f : Adds(f, Counted) /\ f[Counted] = totalScore
    BY <2>1 DEF SumInv
  <2>3. Sums(f)
    BY <2>1, <2>2 DEF Sums, Counted
  <2>4. Sums(f)'
    BY <2>1, <2>3, SumsStay
  <2>5. Visited' = {} /\ Done' = {}
    BY <2>1 DEF Visited, Done
  <2>6. f[{}] = 0 /\ Cardinality({}) = 0
    BY <2>3, FS_EmptySet DEF Sums, Adds
  <2>7. cap \in Nat /\ totalScore \in Nat /\ MaxPods \in Nat
    BY CapAssumption, BoundAssumption DEF IInv, TypeOK
  <2>8. Fits(f, starting, Visited)'
    <3>1. 2 * totalScore * 0 <= 2 * cap * 0 + 0 * totalScore
      BY <2>7
    <3> QED BY <2>1, <2>5, <2>6, <3>1 DEF Fits
  <2>9. (2 * cap * f[Visited] <= Cardinality(Visited) * (totalScore * (2 * MaxPods - 1)))'
    <3>1. 2 * cap * 0 <= 0 * (totalScore * (2 * MaxPods - 1))
      BY <2>7
    <3> QED BY <2>1, <2>5, <2>6, <3>1
  <2> QED BY <2>1, <2>4, <2>5, <2>8, <2>9 DEF SharesInv, Shares
<1>3. ASSUME NEW n \in Node, VisitZeroPortion(n) \/ VisitNode(n) PROVE SharesInv'
  <2>1. /\ pc = "allocate" /\ n \in unvisited /\ unvisited' = unvisited \ {n}
        /\ UNCHANGED <<args, totalScore, starting, verdicts>>
        /\ n \in KeptNodes
    BY <1>3 DEF VisitZeroPortion, VisitNode, totals, IInv, TypeOK
  <2>2. PICK f : Shares(f)
    BY <2>1 DEF SharesInv, Looping
  <2>3. CASE Unmeasured(pods, data) # {}
    <3>1. Sums(f)' /\ Unmeasured(pods, data)' # {}
      BY <2>1, <2>2, <2>3, SumsStay DEF Shares, args
    <3> QED BY <3>1 DEF SharesInv, Shares
  <2>4. CASE Unmeasured(pods, data) = {}
    <3>1. NodePortion(n) \in 0..cap /\ pods[n] \in Nat /\ pods[n] >= 1 /\ cap \in Nat
      <4>1. Looping
        BY <2>1 DEF Looping
      <4>2. NodePortion(n) \in 0..cap /\ pods[n] \in 1..MaxPods /\ cap \in Nat
        BY <2>1, <2>2, <2>4, <4>1, PortionFacts DEF Shares
      <4> QED BY <4>2, BoundAssumption
    <3>2. CASE VisitZeroPortion(n)
      <4>1. pc' = "allocate" /\ NodePortion(n) < pods[n]
        BY <2>1, <3>1, <3>2 DEF VisitZeroPortion
      <4> QED BY <2>1, <2>2, <2>4, <4>1, PassOver DEF SharesInv
    <3>3. CASE VisitNode(n) /\ NodePortion(n) \div pods[n] = 0
      <4>1. pc' = "allocate"
        BY <2>1, <3>3 DEF VisitNode
      <4>2. NodePortion(n) < pods[n]
        BY <3>1, <3>3, DivBound
      <4> QED BY <2>1, <2>2, <2>4, <4>1, <4>2, PassOver DEF SharesInv
    <3>4. CASE VisitNode(n) /\ NodePortion(n) \div pods[n] # 0
      <4>1. /\ pc' = "place" /\ node' = n /\ idx' = 0
            /\ remainder' = NodePortion(n) % pods[n] /\ portionEach' = NodePortion(n) \div pods[n]
        BY <3>4 DEF VisitNode
      <4>2. portionEach' \in Nat
        BY <3>1, <4>1, DivBound
      <4> QED BY <2>1, <2>2, <2>4, <4>1, <4>2, TakeInHand DEF SharesInv
    <3> QED BY <1>3, <3>2, <3>3, <3>4
  <2> QED BY <2>3, <2>4
<1>4. CASE PlaceEndpoint
  <2>1. Looping /\ Unmeasured(pods, data) = {}
    BY <1>4 DEF PlaceEndpoint, IInv, LoopInv, Looping
  <2> QED BY <1>4, <2>1, PlacePod DEF SharesInv
<1>5. CASE CapReached
  <2>1. Looping /\ Unmeasured(pods, data) = {}
    BY <1>5 DEF CapReached, IInv, LoopInv, Looping
  <2> QED BY <1>5, <2>1, EndAtCap DEF SharesInv
<1>6. CASE BuildRule
  <2>1. Looping
    BY <1>6 DEF BuildRule, Looping
  <2>2. PICK f : Shares(f)
    BY <2>1 DEF SharesInv
  <2>3. Shares(f)'
    BY <1>6, <2>2, SharesStay DEF BuildRule, totals
  <2> QED BY <2>3 DEF SharesInv
<1>7. CASE UNCHANGED vars
  <2>1. CASE pc = "place"
    <3>1. \A f : Shares(f)' <=> Shares(f)
      BY <1>7 DEF vars, args, totals, inner, Shares, Sums, Adds, Weight, PerformanceScore, Done,
         Visited, KeptNodes, Served, PassedOver, WholePortion, CutShort, PodServed, PodShare,
         NodePortion, SlotsOf, SlotsOfPod, Fits, Placing
    <3> QED BY <1>7, <3>1 DEF SharesInv, Looping, vars
  <2>2. CASE pc # "place"
    <3>1. UNCHANGED <<pc, args, totalScore, unvisited, starting, verdicts>>
      BY <1>7 DEF vars, totals
    <3>2. ASSUME NEW f, Shares(f) PROVE Shares(f)'
      BY <2>2, <3>1, <3>2, SharesStay
    <3> QED BY <3>1, <3>2 DEF SharesInv, Looping
  <2> QED BY <2>1, <2>2
<1> QED BY <1>1, <1>2, <1>3, <1>4, <1>5, <1>6, <1>7 DEF Next, Returned

\* What the second loop keeps true, all together.
SlotInv == IInv /\ CountInv /\ SumInv /\ FrameInv /\ SharesInv

LEMMA SlotInvariance == Spec => []SlotInv
<1>1. Init => FrameInv /\ SharesInv
  BY DEF Init, FrameInv, SharesInv, Looping
<1>2. IInv /\ CountInv /\ SumInv /\ FrameInv /\ SharesInv /\ [Next]_vars => FrameInv' /\ SharesInv'
  BY NextFrame, NextShares
<1> QED BY <1>1, <1>2, Invariance, CountInvariance, SumInvariance, PTL DEF Spec, SlotInv
-----------------------------------------------------------------------------
\* A run of k draws.
LEMMA RunLength ==
  ASSUME NEW a \in Int, NEW k \in Nat
  PROVE  Cardinality(a..(a + k - 1)) = k
<1> DEFINE b == a + k - 1
<1>1. b \in Int /\ (a > b => k = 0) /\ (a <= b => b - a + 1 = k)
  OBVIOUS
<1>2. Cardinality(a..b) = IF a > b THEN 0 ELSE b - a + 1
  <2> HIDE DEF b
  <2> QED BY <1>1, FS_Interval
<1> QED BY <1>1, <1>2

\* When the rule is built every usable node has been served.
LEMMA AllServed ==
  ASSUME SlotInv, pc = "built"
  PROVE  /\ Unmeasured(pods, data) = {} /\ cap \in Nat /\ totalScore \in Nat
         /\ Cardinality(KeptNodes) \in Nat
         /\ \E f : Sums(f) /\ Fits(f, starting, KeptNodes)
         /\ \A n \in KeptNodes :
              /\ Served(n) /\ NodePortion(n) \in Nat /\ pods[n] \in Nat
              /\ Weight(n) \in Nat /\ Weight(n) = PerformanceScore(data[n])
              /\ 2 * totalScore * NodePortion(n) <= 2 * Weight(n) * cap + totalScore
              /\ 2 * Weight(n) * cap < 2 * totalScore * NodePortion(n) + totalScore
<1>1. Unmeasured(pods, data) = {} /\ unvisited = {} /\ Looping
  BY DEF SlotInv, IInv, LoopInv, FrameInv, Looping
<1>2. Done = KeptNodes /\ Visited = KeptNodes
  BY <1>1 DEF Done, Visited
<1>3. PICK f : Shares(f)
  BY <1>1 DEF SlotInv, SharesInv
<1>4. Sums(f) /\ Fits(f, starting, KeptNodes) /\ \A n \in KeptNodes : Served(n)
  BY <1>1, <1>2, <1>3 DEF Shares
<1>5. cap \in Nat /\ totalScore \in Nat /\ Cardinality(KeptNodes) \in Nat
  <2>1. IsFiniteSet(KeptNodes)
    BY <1>1 DEF SlotInv, CountInv, Counted
  <2> QED BY <2>1, FS_CardinalityType, CapAssumption DEF SlotInv, IInv, TypeOK
<1>6. ASSUME NEW n \in KeptNodes
      PROVE  /\ NodePortion(n) \in Nat /\ pods[n] \in Nat
             /\ Weight(n) \in Nat /\ Weight(n) = PerformanceScore(data[n])
             /\ 2 * totalScore * NodePortion(n) <= 2 * Weight(n) * cap + totalScore
             /\ 2 * Weight(n) * cap < 2 * totalScore * NodePortion(n) + totalScore
  <2>1. /\ Weight(n) \in 1..totalScore /\ pods[n] \in 1..MaxPods
        /\ Weight(n) = PerformanceScore(data[n]) /\ NodePortion(n) \in 0..cap
        /\ 2 * totalScore * NodePortion(n) <= 2 * Weight(n) * cap + totalScore
        /\ 2 * Weight(n) * cap < 2 * totalScore * NodePortion(n) + totalScore
    BY <1>1, <1>4, PortionFacts DEF SlotInv
  <2> QED BY <1>5, <2>1, BoundAssumption
<1> QED BY <1>1, <1>4, <1>5, <1>6

\* A pod of a node whose whole portion was given out gets the node's share of
\* a pod, give or take the remainder.
LEMMA PodShares ==
  ASSUME SlotInv, pc = "built", NEW n \in KeptNodes, WholePortion(n), NEW i \in 0..(pods[n] - 1)
  PROVE  Cardinality(SlotsOfPod(<<n, i>>)) = PodShare(n, i) /\ PodShare(n, i) \in Nat
<1>1. NodePortion(n) \in Nat /\ pods[n] \in Nat /\ cap \in Nat
  BY AllServed
<1>2. PodShare(n, i) \in Nat
  <2>1. pods[n] > 0
    BY <1>1
  <2>2. NodePortion(n) \div pods[n] \in Nat
    BY <1>1, <2>1, DivBound
  <2> QED BY <2>2 DEF PodShare
<1>3. PICK a \in 0..cap : SlotsOfPod(<<n, i>>) = a..(a + PodShare(n, i) - 1)
  BY DEF WholePortion, PodServed
<1>4. a \in Int
  BY <1>1
<1> QED BY <1>2, <1>3, <1>4, RunLength

\* The pods of a node share its draws evenly unless the cap cut the node short
\* or it has more pods than draws, whatever order the nodes are visited in
\* (update_nftables.rs:141-182).
THEOREM EvenSplit == Spec => []ShareSplitEvenly
<1>1. SlotInv => ShareSplitEvenly
  <2> SUFFICES ASSUME SlotInv, pc = "built", starting < cap, NEW n \in KeptNodes
               PROVE  \/ SlotsOf(n) = {} /\ NodePortion(n) < pods[n]
                      \/ /\ Cardinality(SlotsOf(n)) = NodePortion(n)
                         /\ \A i, j \in 0..(pods[n] - 1) :
                              Cardinality(SlotsOfPod(<<n, i>>)) <= Cardinality(SlotsOfPod(<<n, j>>)) + 1
    BY DEF ShareSplitEvenly
  <2>1. Served(n) /\ NodePortion(n) \in Nat /\ cap \in Nat
    BY AllServed
  <2>2. CASE PassedOver(n)
    BY <2>2 DEF PassedOver
  <2>3. CASE WholePortion(n)
    <3>1. PICK a \in 0..cap : SlotsOf(n) = a..(a + NodePortion(n) - 1)
      BY <2>3 DEF WholePortion
    <3>2. Cardinality(SlotsOf(n)) = NodePortion(n)
      <4>1. a \in Int
        BY <2>1
      <4> QED BY <2>1, <3>1, <4>1, RunLength
    <3>3. ASSUME NEW i \in 0..(pods[n] - 1), NEW j \in 0..(pods[n] - 1)
          PROVE  Cardinality(SlotsOfPod(<<n, i>>)) <= Cardinality(SlotsOfPod(<<n, j>>)) + 1
      <4>1. /\ Cardinality(SlotsOfPod(<<n, i>>)) = PodShare(n, i) /\ PodShare(n, i) \in Nat
            /\ Cardinality(SlotsOfPod(<<n, j>>)) = PodShare(n, j) /\ PodShare(n, j) \in Nat
        BY <2>3, PodShares
      <4>2. PodShare(n, i) <= PodShare(n, j) + 1
        <5> DEFINE e == NodePortion(n) \div pods[n]
        <5>1. /\ PodShare(n, i) = e + (IF i < NodePortion(n) % pods[n] THEN 1 ELSE 0)
              /\ PodShare(n, j) = e + (IF j < NodePortion(n) % pods[n] THEN 1 ELSE 0)
          BY DEF PodShare
        <5>2. e \in Nat
          <6>1. pods[n] \in Nat
            BY AllServed
          <6>2. pods[n] > 0
            BY <6>1
          <6> QED BY <2>1, <6>1, <6>2, DivBound
        <5> HIDE DEF e
        <5> QED BY <5>1, <5>2
      <4> QED BY <4>1, <4>2
    <3> QED BY <3>2, <3>3
  <2>4. CASE CutShort(n)
    BY <2>1, <2>4 DEF CutShort
  <2> QED BY <2>1, <2>2, <2>3, <2>4 DEF Served
<1> QED BY <1>1, SlotInvariance, PTL

\* Two products near enough to a third are near each other.
LEMMA WithinSlack ==
  ASSUME NEW t \in Nat, NEW c \in Nat, NEW s \in Nat, NEW q \in Nat, NEW g \in Nat, NEW k \in Nat,
         2 * t * q <= 2 * s * c + t, 2 * s * c < 2 * t * q + t,
         g <= q, g = q \/ 2 * s * c <= 2 * g * t + k * t
  PROVE  2 * s * c - 2 * g * t <= (k + 1) * t /\ 2 * g * t - 2 * s * c <= (k + 1) * t
<1> DEFINE A == 2 * s * c
           G == 2 * g * t
           Q == 2 * t * q
           K == k * t
<1>1. A \in Nat /\ G \in Nat /\ Q \in Nat /\ K \in Nat /\ (k + 1) * t = K + t
  OBVIOUS
<1>2. G <= Q /\ (g = q => G = Q)
  <2>1. 2 * t * g <= 2 * t * q
    OBVIOUS
  <2>2. 2 * t * g = 2 * g * t
    OBVIOUS
  <2> QED BY <2>1, <2>2
<1>3. Q <= A + t /\ A < Q + t /\ (G = Q \/ A <= G + K)
  BY <1>2
<1> HIDE DEF A, G, Q, K
<1>4. A - G <= K + t /\ G - A <= K + t
  BY <1>1, <1>2, <1>3
<1> QED BY <1>1, <1>4 DEF A, G

\* Rounding and the cap move no node further from the share its score earned
\* than half a slot per usable node and half a slot of its own: nobody is
\* starved by the order of the HashMap (update_nftables.rs:107-186).
THEOREM NearScores == Spec => []SharesNearScores
<1>1. SlotInv => SharesNearScores
  <2> SUFFICES ASSUME SlotInv, pc = "built", NEW n \in KeptNodes, NodePortion(n) >= pods[n]
               PROVE  LET earned == 2 * PerformanceScore(data[n]) * cap
                          given == 2 * Cardinality(SlotsOf(n)) * totalScore
                          slack == (Cardinality(KeptNodes) + 1) * totalScore
                      IN  earned - given <= slack /\ given - earned <= slack
    BY DEF SharesNearScores
  <2> DEFINE q == NodePortion(n)
             s == Weight(n)
             t == totalScore
             k == Cardinality(KeptNodes)
             g == Cardinality(SlotsOf(n))
  <2>1. /\ cap \in Nat /\ t \in Nat /\ k \in Nat /\ q \in Nat /\ s \in Nat /\ pods[n] \in Nat
        /\ s = PerformanceScore(data[n]) /\ Served(n)
        /\ 2 * t * q <= 2 * s * cap + t /\ 2 * s * cap < 2 * t * q + t
    BY AllServed
  <2>2. /\ g \in Nat /\ g <= q
        /\ g = q \/ 2 * s * cap <= 2 * g * t + k * t
    <3>1. CASE PassedOver(n)
      BY <2>1, <3>1 DEF PassedOver
    <3>2. CASE WholePortion(n)
      <4>1. PICK a \in 0..cap : SlotsOf(n) = a..(a + q - 1)
        BY <3>2 DEF WholePortion
      <4>2. g = q
        <5>1. a \in Int
          BY <2>1
        <5> QED BY <2>1, <4>1, <5>1, RunLength
      <4> QED BY <2>1, <4>2
    <3>3. CASE CutShort(n)
      <4>1. PICK a \in 0..cap :
              /\ SlotsOf(n) = a..(cap - 1) /\ cap - a <= q
              /\ 2 * s * cap <= 2 * (cap - a) * t + k * t
        BY <3>3 DEF CutShort
      <4>2. g = cap - a
        <5> DEFINE l == cap - a
        <5>1. a \in Int /\ l \in Nat /\ cap - 1 = a + l - 1
          BY <2>1
        <5> HIDE DEF l
        <5>2. Cardinality(a..(a + l - 1)) = l
          BY <5>1, RunLength
        <5> QED BY <4>1, <5>1, <5>2 DEF l
      <4>3. cap - a \in Nat
        BY <2>1
      <4> QED BY <2>1, <4>1, <4>2, <4>3
    <3> QED BY <2>1, <3>1, <3>2, <3>3 DEF Served
  <2>3. 2 * s * cap - 2 * g * t <= (k + 1) * t /\ 2 * g * t - 2 * s * cap <= (k + 1) * t
    <3> HIDE DEF q, s, t, k, g
    <3> QED BY <2>1, <2>2, WithinSlack
  <2> QED BY <2>1, <2>3
<1> QED BY <1>1, SlotInvariance, PTL
-----------------------------------------------------------------------------
\* The abstract specification's own copies of the operators of Eligibility.
LEMMA AbstractOperators ==
  /\ \A S : Abstract!Cardinality(S) = Cardinality(S)
  /\ \A p : Abstract!HostsOf(p) = HostsOf(p)
  /\ \A p, d : Abstract!Kept(p, d) = Kept(p, d)
  /\ \A p, d : Abstract!KeptPods(p, d) = KeptPods(p, d)
  /\ \A p, d : Abstract!Unmeasured(p, d) = Unmeasured(p, d)
<1>1. \A S : Abstract!Cardinality(S) = Cardinality(S)
  BY DEF Abstract!Cardinality, Cardinality
<1>2. \A p : Abstract!HostsOf(p) = HostsOf(p)
  BY DEF Abstract!HostsOf, HostsOf
<1>3. \A p, d : Abstract!Kept(p, d) = Kept(p, d)
  BY <1>2 DEF Abstract!Kept, Kept, Abstract!Usable, Usable
<1> QED BY <1>1, <1>2, <1>3 DEF Abstract!KeptPods, KeptPods, Abstract!Unmeasured, Unmeasured

\* The rule maps each draw of numgen to a usable pod.
LEMMA DrawsTyped ==
  IInv /\ pc = "built" =>
    Draws \in [0..(ngMod - 1) -> KeptPods(pods, data)] /\ ngMod \in 0..(cap - 1)
<1> SUFFICES ASSUME IInv, pc = "built"
             PROVE  Draws \in [0..(ngMod - 1) -> KeptPods(pods, data)] /\ ngMod \in 0..(cap - 1)
  OBVIOUS
<1>1. cap \in Nat /\ starting \in 0..cap /\ ngMod \in 0..cap /\ ngMod < starting
  BY CapAssumption DEF IInv, TypeOK, LoopInv
<1>2. ASSUME NEW d \in 0..(ngMod - 1)
      PROVE  LET hit == CHOOSE i \in DOMAIN verdicts : d \in verdicts[i].lo..verdicts[i].hi
             IN  verdicts[hit].pod \in KeptPods(pods, data)
  <2>1. d \in 0..(starting - 1) /\ d \in Nat
    BY <1>1
  <2>2. PICK i \in DOMAIN verdicts : verdicts[i].lo <= d /\ d <= verdicts[i].hi
    BY <2>1 DEF IInv, SlotsPartitioned
  <2>3. verdicts[i].lo \in Nat /\ verdicts[i].hi \in Nat
    BY VerdictsTyped DEF IInv
  <2>4. \E j \in DOMAIN verdicts : d \in verdicts[j].lo..verdicts[j].hi
    BY <2>1, <2>2, <2>3
  <2>5. (CHOOSE j \in DOMAIN verdicts : d \in verdicts[j].lo..verdicts[j].hi) \in DOMAIN verdicts
    BY <2>4
  <2> QED BY <2>5 DEF IInv, OnlyKeptPods
<1>3. Draws \in [0..(ngMod - 1) -> KeptPods(pods, data)]
  BY <1>2 DEF Draws
<1> QED BY <1>1, <1>3

\* When the first loop is over it has counted the usable pods.
LEMMA PodsCounted ==
  ASSUME SlotInv, pc = "count" \/ Looping, uncounted = {}
  PROVE  /\ Cardinality(KeptPods(pods, data)) = totalEndpoints
         /\ Cardinality(HostsOf(pods)) >= 2
<1>1. PodsOn(Counted) = KeptPods(pods, data)
  BY DEF PodsOn, Counted, KeptPods, KeptNodes
<1> QED BY <1>1 DEF SlotInv, CountInv

\* What may leave every node with fewer slots than pods.
LEMMA TooFewSlots ==
  ASSUME NEW c \in Nat, NEW t \in Nat, NEW k \in Nat, NEW m \in Nat, t >= 1, k >= 1,
         2 * c * t <= k * (t * (2 * m - 1))
  PROVE  c < k * (m + 1)
<1> DEFINE r == k * (2 * m - 1)
<1>1. r \in Int /\ 2 * c * t = t * (2 * c) /\ k * (t * (2 * m - 1)) = t * r
  OBVIOUS
<1>2. t * (2 * c) <= t * r
  BY <1>1
<1>3. 2 * c <= r
  <2> HIDE DEF r
  <2>1. ASSUME 2 * c > r PROVE FALSE
    <3>1. 2 * c >= r + 1
      BY <1>1, <2>1
    <3>2. t * (2 * c) >= t * (r + 1) /\ t * (r + 1) = t * r + t
      BY <1>1, <3>1
    <3> QED BY <1>1, <1>2, <3>2
  <2> QED BY <1>1, <2>1
<1>4. r = 2 * (k * m) - k /\ k * (m + 1) = k * m + k /\ k * m \in Nat
  OBVIOUS
<1> QED BY <1>3, <1>4

\* A call that gives out nothing had no latency for some node, or too few slots.
LEMMA NothingGivenOut ==
  ASSUME SlotInv, SkipNoVerdicts, Unmeasured(pods, data) = {}
  PROVE  cap < Cardinality(KeptNodes) * (MaxPods + 1)
<1>1. pc = "allocate" /\ unvisited = {} /\ verdicts = << >> /\ Looping /\ uncounted = {}
  BY DEF SkipNoVerdicts, Looping, SlotInv, CountInv
<1>2. Visited = KeptNodes
  BY <1>1 DEF Visited
<1>3. PICK f : Shares(f)
  BY <1>1 DEF SlotInv, SharesInv
<1>4. Sums(f) /\ f[KeptNodes] = totalScore
  BY <1>3 DEF Shares, Sums
<1>5. 2 * cap * totalScore <= Cardinality(KeptNodes) * (totalScore * (2 * MaxPods - 1))
  BY <1>1, <1>2, <1>3, <1>4 DEF Shares
<1>6. KeptNodes # {}
  <2>1. Cardinality(KeptPods(pods, data)) >= 2
    BY <1>1, PodsCounted DEF SlotInv, CountInv
  <2>2. KeptPods(pods, data) # {}
    <3>1. Cardinality({}) = 0
      BY FS_EmptySet
    <3> QED BY <2>1, <3>1
  <2> QED BY <2>2 DEF KeptPods, KeptNodes
<1>7. PICK n \in KeptNodes : TRUE
  BY <1>6
<1>8. cap \in Nat /\ totalScore \in Nat /\ totalScore >= 1 /\ IsFiniteSet(KeptNodes)
  BY <1>1, <1>4, PortionFacts DEF SlotInv
<1>9. Cardinality(KeptNodes) \in Nat /\ Cardinality(KeptNodes) >= 1
  <2>1. Cardinality(KeptNodes) # 0
    BY <1>6, <1>8, FS_EmptySet
  <2> QED BY <1>8, <2>1, FS_CardinalityType
<1> QED BY <1>5, <1>8, <1>9, TooFewSlots, BoundAssumption

\* A call is skipped only when the abstract specification lets it be.
LEMMA SkipAllowed ==
  ASSUME SlotInv, SkipUndistributed \/ SkipFewEndpoints \/ SkipNoVerdicts
  PROVE  Abstract!MaySkip(pods, data, cap)
<1>1. CASE SkipUndistributed
  <2>1. IsFiniteSet(HostsOf(pods))
    BY NodeAssumption, FS_Subset DEF HostsOf
  <2>2. Cardinality(HostsOf(pods)) \in Nat /\ Cardinality(HostsOf(pods)) < 2
    BY <1>1, <2>1, FS_CardinalityType DEF SkipUndistributed
  <2>3. ~(Cardinality(HostsOf(pods)) >= 2)
    BY <2>2
  <2> QED BY <2>3, AbstractOperators DEF Abstract!MaySkip, Abstract!MayBuild
<1>2. CASE SkipFewEndpoints
  <2>1. Cardinality(KeptPods(pods, data)) = totalEndpoints /\ totalEndpoints \in Nat /\ totalEndpoints < 2
    BY <1>2, PodsCounted DEF SkipFewEndpoints, SlotInv, IInv, TypeOK
  <2>2. ~(Cardinality(KeptPods(pods, data)) >= 2)
    BY <2>1
  <2> QED BY <2>2, AbstractOperators DEF Abstract!MaySkip, Abstract!MayBuild
<1>3. CASE SkipNoVerdicts
  <2>1. CASE Unmeasured(pods, data) # {}
    BY <2>1, AbstractOperators DEF Abstract!MaySkip, Abstract!MayBuild
  <2>2. CASE Unmeasured(pods, data) = {}
    <3>1. cap < Cardinality(Kept(pods, data)) * (MaxPods + 1)
      BY <1>3, <2>2, NothingGivenOut DEF KeptNodes
    <3> QED BY <3>1, AbstractOperators DEF Abstract!MaySkip
  <2> QED BY <2>1, <2>2
<1> QED BY <1>1, <1>2, <1>3

\* The loops decide nothing, and each way out of the function is a decision.
LEMMA StepRefines ==
  ASSUME SlotInv, SlotInv', [Next]_vars
  PROVE  [Abstract!Next]_<<pods, data, cap, Decision>>
<1>1. ASSUME SkipUndistributed \/ SkipFewEndpoints \/ SkipNoVerdicts PROVE Abstract!Next
  <2>1. pc \notin {"skipped", "built"} /\ pc' = "skipped" /\ UNCHANGED <<pods, data, cap>>
    BY <1>1 DEF SkipUndistributed, SkipFewEndpoints, SkipNoVerdicts, args
  <2>2. Decision = Abstract!Pending /\ Decision' = Abstract!Skip
    BY <2>1 DEF Decision, Abstract!Pending, Abstract!Skip
  <2>3. Abstract!MaySkip(pods, data, cap)
    BY <1>1, SkipAllowed
  <2> QED BY <2>1, <2>2, <2>3 DEF Abstract!Next, Abstract!DecideSkip
<1>2. ASSUME BuildRule PROVE Abstract!Next
  <2>1. /\ pc = "allocate" /\ pc' = "built" /\ unvisited = {} /\ verdicts # << >>
        /\ UNCHANGED <<pods, data, cap>>
    BY <1>2 DEF BuildRule, args
  <2>2. Decision = Abstract!Pending /\ Decision' = [kind |-> "rule", draws |-> Draws']
    BY <2>1 DEF Decision, Abstract!Pending
  <2>3. Abstract!MayBuild(pods, data)
    <3>1. Unmeasured(pods, data) = {} /\ Looping /\ uncounted = {} /\ totalEndpoints >= 2
      BY <2>1 DEF SlotInv, IInv, LoopInv, CountInv, Looping
    <3>2. Cardinality(KeptPods(pods, data)) >= 2 /\ Cardinality(HostsOf(pods)) >= 2
      BY <3>1, PodsCounted
    <3> QED BY <3>1, <3>2, AbstractOperators DEF Abstract!MayBuild
  <2>4. (Draws \in [0..(ngMod - 1) -> KeptPods(pods, data)] /\ ngMod \in 0..(cap - 1))'
    <3>1. (IInv /\ pc = "built" =>
            Draws \in [0..(ngMod - 1) -> KeptPods(pods, data)] /\ ngMod \in 0..(cap - 1))'
      BY DrawsTyped, PTL
    <3> QED BY <2>1, <3>1 DEF SlotInv
  <2>5. PICK m \in 0..(cap - 1) : Draws' \in [0..(m - 1) -> KeptPods(pods, data)]
    <3>1. ngMod' \in 0..(cap - 1) /\ Draws' \in [0..(ngMod' - 1) -> KeptPods(pods, data)]
      BY <2>1, <2>4 DEF KeptPods, Kept, HostsOf
    <3> QED BY <3>1
  <2>6. Decision'.draws = Draws'
    BY <2>2
  <2>7. /\ Decision'.draws \in [0..(m - 1) -> Abstract!KeptPods(pods, data)]
        /\ Decision' = [kind |-> "rule", draws |-> Decision'.draws]
    BY <2>2, <2>5, <2>6, AbstractOperators
  <2> QED BY <2>1, <2>2, <2>3, <2>7 DEF Abstract!Next, Abstract!DecideRule
<1>3. ASSUME UNCHANGED args, pc \notin {"skipped", "built"}, pc' \notin {"skipped", "built"}
      PROVE  UNCHANGED <<pods, data, cap, Decision>>
  BY <1>3 DEF args, Decision
<1>4. CASE Retain \/ (\E n \in Node : CountNode(n)) \/ BeginAllocation
  BY <1>3, <1>4 DEF Retain, CountNode, BeginAllocation
<1>5. CASE \E n \in Node : VisitZeroPortion(n) \/ VisitNode(n)
  BY <1>3, <1>5 DEF VisitZeroPortion, VisitNode
<1>6. CASE PlaceEndpoint \/ CapReached
  BY <1>3, <1>6 DEF PlaceEndpoint, CapReached
<1>7. CASE UNCHANGED vars
  BY <1>7 DEF vars, args, Decision, Draws
<1> QED BY <1>1, <1>2, <1>4, <1>5, <1>6, <1>7 DEF Next, Returned

\* A call of update_nftables does what RuleChoice says: it leaves the ruleset
\* alone only when the service may not have a rule or probability_cap is small
\* beside its nodes and pods, and any rule maps every draw to a usable pod
\* (update_nftables.rs:25-209).
THEOREM Refinement == Spec => ImplementsRuleChoice
<1>1. Init => Abstract!Init
  BY DEF Init, Abstract!Init, Decision, Abstract!Pending
<1>2. SlotInv /\ SlotInv' /\ [Next]_vars => [Abstract!Next]_<<pods, data, cap, Decision>>
  BY StepRefines
<1> QED BY <1>1, <1>2, SlotInvariance, PTL DEF Spec, ImplementsRuleChoice, Abstract!Spec
=============================================================================
