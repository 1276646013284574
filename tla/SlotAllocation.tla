---------------------------- MODULE SlotAllocation ----------------------------
(***************************************************************************)
(* One call of update_nftables (proberv2/src/update_nftables.rs) up to the *)
(* rule it hands to nft: the draws 0 .. probability_cap-1 are shared out   *)
(* among the pods of the usable nodes, each node's share following its     *)
(* score ((1 - cpu) / latency).  The loops run over HashMaps, so the nodes *)
(* come in any order.  score_exponent is 1 here: another exponent changes  *)
(* the weights, which range over a set of values already.  Scores are      *)
(* scaled by Scale so that they are integers.                              *)
(***************************************************************************)
EXTENDS Eligibility, Sequences

CONSTANTS
  Latencies,  \* the latency EWMAs, in ms; 0 is ScorePair::default's
  Cpus,       \* the CPU EWMAs, in percent
  Scale,      \* what scores are multiplied by before the integer division
  MaxPods,    \* bound: pods of the service on one node
  Caps,       \* the values probability_cap may have
  U32         \* the number of values of a u32 (2^32; smaller in the runs)

ASSUME LatencyAssumption ==
  Latencies \subseteq Nat /\ Scale \in Nat /\ \A l \in Latencies : l <= Scale
ASSUME CpuAssumption == Cpus \subseteq 0..100
ASSUME BoundAssumption == MaxPods \in Nat /\ U32 \in Nat
ASSUME NodeAssumption == IsFiniteSet(Node) /\ NoData \notin Node

\* `starting + this_portion' of line 170 stays a u32.  The deployed cap is
\* 100000 (k8s/SecretProberv2.yaml.example:25), far below 2^31.
ASSUME CapAssumption == Caps \subseteq Nat /\ \A c \in Caps : 2 * c < U32

VARIABLES
  pods, data, cap,              \* the arguments: service, datapoints, config
  pc,                           \* the place reached in the function
  uncounted,                    \* nodes the first loop has still to visit
  totalEndpoints, totalScore,
  unvisited,                    \* nodes the second loop has still to visit
  node, idx, portionEach, remainder,   \* the inner loop over one node's pods
  starting,                     \* the first draw not given out yet
  verdicts,                     \* verdict_pairs: ranges of draws and their pod
  slots, eligible,              \* the gauges nft_slots and node_eligible
  ngMod                         \* the modulus of `numgen random'

args == <<pods, data, cap>>
totals == <<uncounted, totalEndpoints, totalScore>>
inner == <<node, idx, portionEach, remainder>>
gauges == <<slots, eligible>>
vars == <<args, pc, totals, unvisited, inner, starting, verdicts, gauges, ngMod>>

Datapoint == [latency : Latencies, cpu : Cpus] \union {NoData}
Verdict == [lo : Nat, hi : Nat, pod : Node \X Nat]
KeptNodes == Kept(pods, data)

\* performance_score for a positive latency.
PerformanceScore(dp) == ((100 - dp.cpu) * Scale) \div dp.latency

\* Mutant of NodePortion: only the node without a latency gets nothing.
NodePortion_SkipsUnmeasured(n) ==
  IF data[n].latency = 0 THEN 0
  ELSE LET score == PerformanceScore(data[n])
       IN  (2 * score * cap + totalScore) \div (2 * totalScore)

\* (score / total_score * probability_cap).round() as u32: halves round up.
\* With an infinite total the quotient is 0, or NaN for the infinite score
\* itself, and both become the portion 0.
NodePortion(n) ==
  IF Unmeasured(pods, data) # {} THEN 0
  ELSE LET score == PerformanceScore(data[n])
       IN  (2 * score * cap + totalScore) \div (2 * totalScore)

Init ==
  /\ pods \in [Node -> 0..MaxPods]
  /\ data \in [Node -> Datapoint]
  /\ cap \in Caps
  /\ pc = "start"
  /\ uncounted = {} /\ totalEndpoints = 0 /\ totalScore = 0
  /\ unvisited = {}
  /\ node = NoData /\ idx = 0 /\ portionEach = 0 /\ remainder = 0
  /\ starting = 0
  /\ verdicts = << >>
  /\ slots = [n \in Node |-> 0]
  /\ eligible = [n \in Node |-> 0]
  /\ ngMod = 0

\* Services on fewer than two nodes are skipped before anything is filtered.
SkipUndistributed ==
  /\ pc = "start"
  /\ Cardinality(HostsOf(pods)) < 2
  /\ pc' = "skipped"
  /\ UNCHANGED <<args, totals, unvisited, inner, starting, verdicts, gauges, ngMod>>

Retain ==
  /\ pc = "start"
  /\ Cardinality(HostsOf(pods)) >= 2
  /\ uncounted' = KeptNodes
  /\ pc' = "count"
  /\ UNCHANGED <<args, totalEndpoints, totalScore, unvisited, inner, starting,
                 verdicts, gauges, ngMod>>

\* An infinite score makes total_score infinite; NodePortion stands for that
\* case, and the sum here is then left alone.
CountNode(n) ==
  /\ pc = "count"
  /\ n \in uncounted
  /\ uncounted' = uncounted \ {n}
  /\ totalEndpoints' = totalEndpoints + pods[n]
  /\ totalScore' = IF data[n].latency = 0 THEN totalScore
                   ELSE totalScore + PerformanceScore(data[n])
  /\ UNCHANGED <<args, pc, unvisited, inner, starting, verdicts, gauges, ngMod>>

\* Mutant of SkipFewEndpoints: two endpoints are too few as well.
SkipFewEndpoints_OffByOne ==
  /\ pc = "count"
  /\ uncounted = {}
  /\ totalEndpoints <= 2
  /\ pc' = "skipped"
  /\ UNCHANGED <<args, totals, unvisited, inner, starting, verdicts, gauges, ngMod>>

SkipFewEndpoints ==
  /\ pc = "count"
  /\ uncounted = {}
  /\ totalEndpoints < 2
  /\ pc' = "skipped"
  /\ UNCHANGED <<args, totals, unvisited, inner, starting, verdicts, gauges, ngMod>>

BeginAllocation ==
  /\ pc = "count"
  /\ uncounted = {}
  /\ totalEndpoints >= 2
  /\ pc' = "allocate"
  /\ unvisited' = KeptNodes
  /\ LET filtered == HostsOf(pods) \ KeptNodes
     IN  /\ slots' = [n \in Node |-> IF n \in filtered THEN 0 ELSE slots[n]]
         /\ eligible' = [n \in Node |-> IF n \in filtered THEN 0 ELSE eligible[n]]
  /\ UNCHANGED <<args, totals, inner, starting, verdicts, ngMod>>

VisitZeroPortion(n) ==
  /\ pc = "allocate"
  /\ n \in unvisited
  /\ NodePortion(n) = 0
  /\ unvisited' = unvisited \ {n}
  /\ slots' = [slots EXCEPT ![n] = 0]
  /\ eligible' = [eligible EXCEPT ![n] = 0]
  /\ UNCHANGED <<args, pc, totals, inner, starting, verdicts, ngMod>>

\* The gauges are written before the portion is known to reach every pod:
\* with fewer slots than pods, portion_each is 0 and the node gets no range.
VisitNode(n) ==
  /\ pc = "allocate"
  /\ n \in unvisited
  /\ NodePortion(n) > 0
  /\ unvisited' = unvisited \ {n}
  /\ slots' = [slots EXCEPT ![n] = NodePortion(n)]
  /\ eligible' = [eligible EXCEPT ![n] = 1]
  /\ IF NodePortion(n) \div pods[n] = 0
     THEN UNCHANGED <<pc, inner>>
     ELSE /\ pc' = "place"
          /\ node' = n
          /\ idx' = 0
          /\ portionEach' = NodePortion(n) \div pods[n]
          /\ remainder' = NodePortion(n) % pods[n]
  /\ UNCHANGED <<args, totals, starting, verdicts, ngMod>>

\* Mutants of ThisPortion: one pod too many gets a slot of the remainder; none does.
ThisPortion_OffByOne == IF idx <= remainder THEN portionEach + 1 ELSE portionEach
ThisPortion_NoRemainder == portionEach
ThisPortion == IF idx < remainder THEN portionEach + 1 ELSE portionEach

\* Mutant of RangeEnd: the end is not clamped to the cap.
RangeEnd_Unclamped == (((starting + ThisPortion) % U32) - 1) % U32
RangeEnd ==
  LET unclamped == (((starting + ThisPortion) % U32) - 1) % U32
  IN  IF unclamped < cap - 1 THEN unclamped ELSE cap - 1

LeaveNode == node' = NoData /\ idx' = 0 /\ portionEach' = 0 /\ remainder' = 0

\* Mutant of PlaceEndpoint: the next range starts at the end of this one.
PlaceEndpoint_SharedEnd ==
  /\ pc = "place"
  /\ starting < cap
  /\ verdicts' = Append(verdicts, [lo |-> starting, hi |-> RangeEnd, pod |-> <<node, idx>>])
  /\ starting' = RangeEnd
  /\ IF idx + 1 = pods[node]
     THEN pc' = "allocate" /\ LeaveNode
     ELSE idx' = idx + 1 /\ UNCHANGED <<pc, node, portionEach, remainder>>
  /\ UNCHANGED <<args, totals, unvisited, gauges, ngMod>>

\* The body of the loop over one node's pods, and its two ways out.
PlaceEndpoint ==
  /\ pc = "place"
  /\ starting < cap
  /\ verdicts' = Append(verdicts, [lo |-> starting, hi |-> RangeEnd, pod |-> <<node, idx>>])
  /\ starting' = (RangeEnd + 1) % U32
  /\ IF starting' >= cap \/ idx + 1 = pods[node]
     THEN pc' = "allocate" /\ LeaveNode
     ELSE idx' = idx + 1 /\ UNCHANGED <<pc, node, portionEach, remainder>>
  /\ UNCHANGED <<args, totals, unvisited, gauges, ngMod>>

CapReached ==
  /\ pc = "place"
  /\ starting >= cap
  /\ pc' = "allocate"
  /\ LeaveNode
  /\ UNCHANGED <<args, totals, unvisited, starting, verdicts, gauges, ngMod>>

SkipNoVerdicts ==
  /\ pc = "allocate"
  /\ unvisited = {}
  /\ verdicts = << >>
  /\ pc' = "skipped"
  /\ UNCHANGED <<args, totals, unvisited, inner, starting, verdicts, gauges, ngMod>>

\* Mutant of BuildRule: the modulus is the cap, whatever was given out.
BuildRule_CapModulus ==
  /\ pc = "allocate"
  /\ unvisited = {}
  /\ verdicts # << >>
  /\ ngMod' = cap
  /\ pc' = "built"
  /\ UNCHANGED <<args, totals, unvisited, inner, starting, verdicts, gauges>>

BuildRule ==
  /\ pc = "allocate"
  /\ unvisited = {}
  /\ verdicts # << >>
  /\ ngMod' = IF starting > 0 THEN starting - 1 ELSE cap - 1
  /\ pc' = "built"
  /\ UNCHANGED <<args, totals, unvisited, inner, starting, verdicts, gauges>>

\* The function has returned, or goes on with the commands for nft.
Returned == pc \in {"skipped", "built"} /\ UNCHANGED vars

Next ==
  \/ SkipUndistributed
  \/ Retain
  \/ \E n \in Node : CountNode(n)
  \/ SkipFewEndpoints
  \/ BeginAllocation
  \/ \E n \in Node : VisitZeroPortion(n)
  \/ \E n \in Node : VisitNode(n)
  \/ PlaceEndpoint
  \/ CapReached
  \/ SkipNoVerdicts
  \/ BuildRule
  \/ Returned

Spec == Init /\ [][Next]_vars
-----------------------------------------------------------------------------
\* The draws a node got, whatever the gauges say.
SlotsOf(n) ==
  UNION {verdicts[i].lo..verdicts[i].hi :
           i \in {j \in DOMAIN verdicts : verdicts[j].pod[1] = n}}

SlotsOfPod(p) ==
  UNION {verdicts[i].lo..verdicts[i].hi : i \in {j \in DOMAIN verdicts : verdicts[j].pod = p}}

\* The values each variable may have.  The bounds are the ones the code
\* relies on: u32 arithmetic never passes probability_cap.
TypeOK ==
  /\ pods \in [Node -> 0..MaxPods]
  /\ data \in [Node -> Datapoint]
  /\ cap \in Caps
  /\ pc \in {"start", "count", "allocate", "place", "skipped", "built"}
  /\ uncounted \subseteq KeptNodes
  /\ totalEndpoints \in Nat /\ totalScore \in Nat
  /\ unvisited \subseteq KeptNodes
  /\ node \in Node \union {NoData} /\ idx \in Nat
  /\ portionEach \in 0..cap /\ remainder \in Nat
  /\ starting \in 0..cap
  /\ verdicts \in Seq(Verdict)
  /\ slots \in [Node -> 0..cap]
  /\ eligible \in [Node -> {0, 1}]
  /\ ngMod \in 0..cap

\* The ranges given out tile the draws 0 .. starting-1: none is missing, and
\* no draw has two pods, whichever way the portions were rounded and clamped
\* (update_nftables.rs:153-186; nft refuses a map with overlapping ranges).
SlotsPartitioned ==
  /\ \A i \in DOMAIN verdicts :
       /\ verdicts[i].lo <= verdicts[i].hi
       /\ verdicts[i].hi < starting
       /\ \A j \in DOMAIN verdicts : i < j => verdicts[i].hi < verdicts[j].lo
  /\ \A d \in 0..(starting - 1) :
       \E i \in DOMAIN verdicts : verdicts[i].lo <= d /\ d <= verdicts[i].hi

\* Every draw numgen can produce has a pod: with a modulus beyond the ranges
\* the packet would match nothing and fall through to kube-proxy (198-202).
DrawsAlwaysLand ==
  pc = "built" =>
    \A d \in 0..(ngMod - 1) :
      \E i \in DOMAIN verdicts : verdicts[i].lo <= d /\ d <= verdicts[i].hi

\* A range always goes to a pod the service has, on a node whose datapoint
\* passed the filter (57-65).
OnlyKeptPods ==
  \A i \in DOMAIN verdicts : verdicts[i].pod \in KeptPods(pods, data)

\* A rule is built only when no usable node is without a latency: one node
\* with latency 0 makes every share 0 and holds the whole service back.
BuiltOnlyMeasured == pc = "built" => Unmeasured(pods, data) = {}

\* Pods of one node get shares that differ by at most one slot and add up to
\* the node's portion, unless the cap cut the node short or there were more
\* pods than slots (141-182).
ShareSplitEvenly ==
  pc = "built" /\ starting < cap =>
    \A n \in KeptNodes :
      \/ SlotsOf(n) = {} /\ NodePortion(n) < pods[n]
      \/ /\ Cardinality(SlotsOf(n)) = NodePortion(n)
         /\ \A i, j \in 0..(pods[n] - 1) :
              Cardinality(SlotsOfPod(<<n, i>>)) <= Cardinality(SlotsOfPod(<<n, j>>)) + 1

\* Rounding, and the cap that stops the last nodes visited, never move a node
\* further than half a slot per usable node, and half a slot of its own, from
\* the share its score earned, as long as it has a slot for each of its pods.
SharesNearScores ==
  pc = "built" =>
    \A n \in KeptNodes : NodePortion(n) >= pods[n] =>
      LET earned == 2 * PerformanceScore(data[n]) * cap
          given == 2 * Cardinality(SlotsOf(n)) * totalScore
          slack == (Cardinality(KeptNodes) + 1) * totalScore
      IN  earned - given <= slack /\ given - earned <= slack
-----------------------------------------------------------------------------
\* The rule as a function from draws to pods.
Draws == [d \in 0..(ngMod - 1) |->
            LET hit == CHOOSE i \in DOMAIN verdicts : d \in verdicts[i].lo..verdicts[i].hi
            IN  verdicts[hit].pod]

\* The loops decide nothing until the function returns, and what they decide
\* is allowed by the abstract specification.
Decision ==
  CASE pc = "skipped" -> [kind |-> "skip", draws |-> << >>]
    [] pc = "built"   -> [kind |-> "rule", draws |-> Draws]
    [] OTHER          -> [kind |-> "pending", draws |-> << >>]

Abstract == INSTANCE RuleChoice WITH decision <- Decision

\* The step machine implements RuleChoice: in particular a call with usable
\* data is skipped only when probability_cap is small (update_nftables.rs:25-209).
ImplementsRuleChoice == Abstract!Spec
-----------------------------------------------------------------------------
\* What the repository says and the code does not do.

\* `numgen random mod 100 vmap { 0-49, 50-74, 75-99 }' (proberv2/docs/
\* SAMPLE.md:311): the modulus is the number of slots in the map, so each
\* slot is drawn.
ModulusCoversMap == pc = "built" => ngMod = starting
=============================================================================
