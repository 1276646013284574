-------------------------------- MODULE Extender --------------------------------
(***************************************************************************)
(* The scheduler extender (scheduler/pkg/extender): an HTTP server whose   *)
(* /filter and /score requests share three maps behind one RWMutex.  Each  *)
(* request first refreshes the cache of scores from the prober of the node *)
(* with most traffic.  The lock is taken for writing and to copy the map   *)
(* reference, not while the nodes of a request are looked up, so a request *)
(* reads a cache that others are changing.  kube-scheduler gives up on a   *)
(* slow request, the handler does not, so requests overlap.                *)
(***************************************************************************)
EXTENDS Integers, FiniteSets

CONSTANTS
  Node,
  Request,       \* the requests under way at once
  Answers,       \* what a prober may answer: of some nodes, [cpu |-> .., latency |-> ..]
  NormMaps,      \* what NormalizedTraffic may return, in [Node -> Nat]
  Penalty,       \* VM_PENALTY or RPI_PENALTY, by the node's name
  CpuThreshold, LatencyThreshold,
  WeightLatency, WeightCpu, WeightTraffic,
  NoScore,       \* a node missing from proberScores, or from an answer
  NoPenalty,     \* a node missing from lastPenalized
  NoNode,        \* "none", what QueryTopNode returns when there is no traffic
  FallbackNode,  \* TOPNODE_FB
  NoRequest,     \* nobody holds the mutex
  MayFail        \* can a query or a fetch fail?

Score == [cpu : Nat, latency : Nat]
Charge == [cpu : Nat, fresh : BOOLEAN]

ASSUME ScoringAssumption ==
  /\ Answers \subseteq [Node -> Score \union {NoScore}]
  /\ NormMaps \subseteq [Node -> Nat]
  /\ Penalty \in [Node -> Nat]
  /\ {CpuThreshold, LatencyThreshold, WeightLatency, WeightCpu, WeightTraffic} \subseteq Nat
ASSUME SentinelAssumption ==
  /\ NoScore \notin Score \union Nat /\ NoPenalty \notin Charge
  /\ NoNode \notin Node /\ NoRequest \notin Request
  /\ FallbackNode \in Node /\ MayFail \in BOOLEAN

VARIABLES
  phase,      \* of the process: warmup, serving
  scores,     \* proberScores
  penalized,  \* lastPenalized; `fresh' until 15 seconds have passed
  norm,       \* cachedTrafficNorm
  lock,       \* the request that holds the mutex for writing
  req         \* the handler of each request: its place and its locals

vars == <<phase, scores, penalized, norm, lock, req>>

NothingFetched == [n \in Node |-> NoScore]
NoTraffic == [n \in Node |-> 0]

IdleRequest ==
  [stage |-> "idle", verb |-> "none", got |-> NothingFetched, left |-> {}, passed |-> {},
   norm |-> NoTraffic, best |-> NoNode, bestScore |-> 0]

Init ==
  /\ phase = "warmup"
  /\ scores = NothingFetched
  /\ penalized = [n \in Node |-> NoPenalty]
  /\ norm = NoTraffic
  /\ lock = NoRequest
  /\ req = [r \in Request |-> IdleRequest]

\* Warmup: the fallback node stands in for a failed query only.  No traffic is
\* the node "none", which has no prober.
WarmupTarget == Node \union {NoNode} \union (IF MayFail THEN {FallbackNode} ELSE {})

Warmup ==
  /\ phase = "warmup"
  /\ phase' = "serving"
  /\ \E target \in WarmupTarget :
       \/ target # NoNode /\ scores' \in Answers
       \/ (target = NoNode \/ MayFail) /\ scores' = scores
  /\ UNCHANGED <<penalized, norm, lock, req>>

\* kube-scheduler asks /filter about all nodes, and /score about those that
\* are left.
Start(r) ==
  /\ phase = "serving"
  /\ req[r].stage = "idle"
  /\ \E verb \in {"filter", "score"}, nodes \in (SUBSET Node) \ {{}} :
       /\ verb = "filter" => nodes = Node
       /\ req' = [req EXCEPT ![r] = [IdleRequest EXCEPT
                     !.verb = verb, !.left = nodes, !.stage = "refresh"]]
  /\ UNCHANGED <<phase, scores, penalized, norm, lock>>

\* A score request goes on to the traffic, a filter request to the lookup.
AfterRefresh(r) == IF req[r].verb = "score" THEN "traffic" ELSE "begin"

\* The top node is queried and its prober asked; both hold no lock.
FetchScores(r) ==
  /\ req[r].stage = "refresh"
  /\ \E answer \in Answers :
       req' = [req EXCEPT ![r].got = answer, ![r].stage = "merge"]
  /\ UNCHANGED <<phase, scores, penalized, norm, lock>>

\* A failed query, no traffic (node "none"), or a failed fetch: the cache stays
\* as it is and the request goes on with it.
RefreshFails(r) ==
  /\ req[r].stage = "refresh"
  /\ req' = [req EXCEPT ![r].stage = AfterRefresh(r)]
  /\ UNCHANGED <<phase, scores, penalized, norm, lock>>

\* Mutant of LockForMerge: the cache is replaced, not added to.
LockForMerge_Replaces(r) ==
  /\ req[r].stage = "merge"
  /\ lock = NoRequest
  /\ lock' = r
  /\ scores' = NothingFetched
  /\ UNCHANGED <<phase, penalized, norm, req>>

LockForMerge(r) ==
  /\ req[r].stage = "merge"
  /\ lock = NoRequest
  /\ lock' = r
  /\ UNCHANGED <<phase, scores, penalized, norm, req>>

Fresh(n) == penalized[n] # NoPenalty /\ penalized[n].fresh

\* Mutant of MergeScore: what the prober says always wins.
MergeScore_IgnoresPenalty(r, n) ==
  /\ lock = r
  /\ req[r].got[n] # NoScore
  /\ scores' = [scores EXCEPT ![n] = req[r].got[n]]
  /\ req' = [req EXCEPT ![r].got[n] = NoScore]
  /\ UNCHANGED <<phase, penalized, norm, lock>>

\* Mutant of MergeScore: a recent penalty is charged again with every fetch.
MergeScore_ChargesAgain(r, n) ==
  /\ lock = r
  /\ req[r].got[n] # NoScore
  /\ LET cpu == IF Fresh(n) THEN IF penalized[n].cpu > Penalty[n] THEN penalized[n].cpu - Penalty[n] ELSE 0
                ELSE req[r].got[n].cpu
     IN  /\ scores' = [scores EXCEPT ![n] = [req[r].got[n] EXCEPT !.cpu = cpu]]
         /\ penalized' = [penalized EXCEPT ![n] = IF Fresh(n) THEN [cpu |-> cpu, fresh |-> TRUE] ELSE NoPenalty]
  /\ req' = [req EXCEPT ![r].got[n] = NoScore]
  /\ UNCHANGED <<phase, norm, lock>>

\* One node of the answer: a recent penalty outlives it, an old one is removed.
\* Readers see the map between two of these steps.
MergeScore(r, n) ==
  /\ lock = r
  /\ req[r].got[n] # NoScore
  /\ scores' = [scores EXCEPT
       ![n] = IF Fresh(n) THEN [req[r].got[n] EXCEPT !.cpu = penalized[n].cpu]
              ELSE req[r].got[n]]
  /\ penalized' = [penalized EXCEPT ![n] = IF Fresh(n) THEN @ ELSE NoPenalty]
  /\ req' = [req EXCEPT ![r].got[n] = NoScore]
  /\ UNCHANGED <<phase, norm, lock>>

\* Mutant of EndMerge: the mutex is not unlocked on the way out.
EndMerge_KeepsLock(r) ==
  /\ lock = r
  /\ req[r].got = NothingFetched
  /\ req' = [req EXCEPT ![r].stage = AfterRefresh(r)]
  /\ UNCHANGED <<phase, scores, penalized, norm, lock>>

EndMerge(r) ==
  /\ lock = r
  /\ req[r].got = NothingFetched
  /\ lock' = NoRequest
  /\ req' = [req EXCEPT ![r].stage = AfterRefresh(r)]
  /\ UNCHANGED <<phase, scores, penalized, norm>>

\* RefreshTrafficData puts a new map in place of the old one, or does nothing.
RefreshTraffic(r) ==
  /\ req[r].stage = "traffic"
  /\ \/ lock = NoRequest /\ norm' \in NormMaps
     \/ MayFail /\ norm' = norm
  /\ req' = [req EXCEPT ![r].stage = "begin"]
  /\ UNCHANGED <<phase, scores, penalized, lock>>

\* The map references are copied under the read lock.  That of the traffic is
\* never written to; that of the scores is the live cache.
BeginLookup(r) ==
  /\ req[r].stage = "begin"
  /\ lock = NoRequest
  /\ req' = [req EXCEPT ![r].stage = IF req[r].verb = "score" THEN "score" ELSE "check",
                        ![r].norm = IF req[r].verb = "score" THEN norm ELSE NoTraffic]
  /\ UNCHANGED <<phase, scores, penalized, norm, lock>>

\* Without any data every node passes.
CheckData(r) ==
  /\ req[r].stage = "check"
  /\ req' = [req EXCEPT
       ![r].stage = "filter",
       ![r].left = IF scores = NothingFetched THEN {} ELSE @,
       ![r].passed = IF scores = NothingFetched THEN req[r].left ELSE @]
  /\ UNCHANGED <<phase, scores, penalized, norm, lock>>

\* Mutant of Passes: the CPU score is not looked at.
Passes_NoCpu(n) == scores[n] # NoScore /\ scores[n].latency >= LatencyThreshold
Passes(n) ==
  /\ scores[n] # NoScore
  /\ scores[n].latency >= LatencyThreshold
  /\ scores[n].cpu >= CpuThreshold

FilterNode(r, n) ==
  /\ req[r].stage = "filter"
  /\ n \in req[r].left
  /\ req' = [req EXCEPT ![r].left = @ \ {n},
                        ![r].passed = IF Passes(n) THEN @ \union {n} ELSE @]
  /\ UNCHANGED <<phase, scores, penalized, norm, lock>>

Respond(r) ==
  /\ \/ req[r].stage = "filter" /\ req[r].left = {}
     \/ req[r].stage = "score" /\ req[r].left = {} /\ req[r].best = NoNode
  /\ req' = [req EXCEPT ![r] = IdleRequest]
  /\ UNCHANGED <<phase, scores, penalized, norm, lock>>

Clamp(s) == IF s > 100 THEN 100 ELSE s

ScoreNode(n, traffic) ==
  IF scores[n] = NoScore THEN 0
  ELSE Clamp(WeightLatency * scores[n].latency + WeightCpu * scores[n].cpu
               + WeightTraffic * traffic[n])

\* The first of the best nodes is kept; a score of 0 is no candidate.
ScoreOne(r, n) ==
  /\ req[r].stage = "score"
  /\ n \in req[r].left
  /\ LET score == ScoreNode(n, req[r].norm)
     IN  req' = [req EXCEPT ![r].left = @ \ {n},
                            ![r].best = IF score > req[r].bestScore THEN n ELSE @,
                            ![r].bestScore = IF score > @ THEN score ELSE @]
  /\ UNCHANGED <<phase, scores, penalized, norm, lock>>

\* Mutant of ApplyCPUPenalty: the score is not floored at 0.
ApplyCPUPenalty_NoFloor(n, cpu) == cpu - Penalty[n]
ApplyCPUPenalty(n, cpu) == IF cpu > Penalty[n] THEN cpu - Penalty[n] ELSE 0

\* Mutant of ApplyPenalty: the first recent charge is the one remembered.
ApplyPenalty_RemembersFirst(r) ==
  /\ req[r].stage = "score" /\ req[r].left = {} /\ req[r].best # NoNode
  /\ lock = NoRequest
  /\ LET n == req[r].best
         cpu == ApplyCPUPenalty(n, scores[n].cpu)
     IN  /\ scores' = [scores EXCEPT ![n].cpu = cpu]
         /\ penalized' = [penalized EXCEPT ![n] = IF Fresh(n) THEN @ ELSE [cpu |-> cpu, fresh |-> TRUE]]
  /\ req' = [req EXCEPT ![r] = IdleRequest]
  /\ UNCHANGED <<phase, norm, lock>>

\* The best node is charged for the pod it is about to get, under the lock and
\* from the score it has by now; then the request is answered.
ApplyPenalty(r) ==
  /\ req[r].stage = "score" /\ req[r].left = {} /\ req[r].best # NoNode
  /\ lock = NoRequest
  /\ LET n == req[r].best
         cpu == ApplyCPUPenalty(n, scores[n].cpu)
     IN  IF scores[n] = NoScore THEN UNCHANGED <<scores, penalized>>
         ELSE /\ scores' = [scores EXCEPT ![n].cpu = cpu]
              /\ penalized' = [penalized EXCEPT ![n] = [cpu |-> cpu, fresh |-> TRUE]]
  /\ req' = [req EXCEPT ![r] = IdleRequest]
  /\ UNCHANGED <<phase, norm, lock>>

\* Fifteen seconds have passed since the penalty.
Expire(n) ==
  /\ Fresh(n)
  /\ penalized' = [penalized EXCEPT ![n].fresh = FALSE]
  /\ UNCHANGED <<phase, scores, norm, lock, req>>

\* The process is killed, or ends itself: Go's runtime may do so when it sees
\* one request read the map while another writes it.  The pod is restarted.
Crash ==
  /\ phase = "serving"
  /\ phase' = "warmup"
  /\ scores' = NothingFetched
  /\ penalized' = [n \in Node |-> NoPenalty]
  /\ norm' = NoTraffic
  /\ lock' = NoRequest
  /\ req' = [r \in Request |-> IdleRequest]

\* The steps of a handler that wait for the mutex, and the others.
Locking(r) == LockForMerge(r) \/ RefreshTraffic(r) \/ BeginLookup(r) \/ ApplyPenalty(r)

Handling(r) ==
  \/ FetchScores(r) \/ RefreshFails(r) \/ EndMerge(r) \/ CheckData(r) \/ Respond(r)
  \/ \E n \in Node : MergeScore(r, n) \/ FilterNode(r, n) \/ ScoreOne(r, n)

Next ==
  \/ Warmup \/ Crash
  \/ \E r \in Request : Start(r) \/ Locking(r) \/ Handling(r)
  \/ \E n \in Node : Expire(n)

Spec == Init /\ [][Next]_vars

\* Queries and fetches have timeouts, and Go's mutex does not starve a waiter.
FairSpec ==
  Spec /\ \A r \in Request : WF_vars(Handling(r)) /\ SF_vars(Locking(r))
-----------------------------------------------------------------------------
\* What a handler may hold.
Handler ==
  [stage : {"idle", "refresh", "merge", "traffic", "begin", "check", "filter", "score"},
   verb : {"none", "filter", "score"},
   got : [Node -> Score \union {NoScore}],
   left : SUBSET Node, passed : SUBSET Node,
   norm : [Node -> Nat],
   best : Node \union {NoNode}, bestScore : 0..100]

\* The values each variable may have; only the merging request holds the lock.
TypeOK ==
  /\ phase \in {"warmup", "serving"}
  /\ scores \in [Node -> Score \union {NoScore}]
  /\ penalized \in [Node -> Charge \union {NoPenalty}]
  /\ norm \in NormMaps \union {NoTraffic}
  /\ lock \in Request \union {NoRequest}
  /\ lock # NoRequest => req[lock].stage = "merge"
  /\ req \in [Request -> Handler]
  /\ \A r \in Request : req[r].passed \intersect req[r].left = {}

\* A recent penalty is what the cache says of the node, whichever fetches, of
\* before or after it, have come in since (routes.go:93-103, score.go:79-101).
PenaltyInForce == \A n \in Node : Fresh(n) => scores[n] # NoScore /\ scores[n].cpu = penalized[n].cpu

\* While a penalty is recent the node's cached CPU score never goes up again:
\* a second penalty is charged on top of the first (score.go:90-92).
NoRecoveryUnderPenalty ==
  [][\A n \in Node : Fresh(n) /\ scores'[n] # NoScore => scores'[n].cpu <= scores[n].cpu]_vars

\* A node charged below the threshold gets through no filter while the penalty
\* is recent, although the filter reads the cache without the lock and the
\* prober may have said otherwise meanwhile (filter.go:48-69).
ChargedNodesFiltered ==
  [][\A r \in Request, n \in Node :
       n \in req'[r].passed \ req[r].passed /\ Fresh(n) => penalized[n].cpu >= CpuThreshold]_vars

\* The node a request has chosen still has a score when it is charged, so the
\* charge is never lost (score.go:83-87).
ChosenNodeIsCached == \A r \in Request : req[r].best # NoNode => scores[req[r].best] # NoScore

\* The cached CPU scores, the recent penalties and the choice of each request,
\* with the rest of the handlers, the mutex and the old penalties hidden.
Ledger == INSTANCE ChargeLedger WITH
  offer <- [n \in Node |-> IF scores[n] = NoScore THEN NoScore ELSE scores[n].cpu],
  charged <- {n \in Node : Fresh(n)},
  chosen <- [r \in Request |-> req[r].best],
  None <- NoScore,
  Nowhere <- NoNode

\* Requests that overlap each charge the node they chose, once, from the score it
\* has by then, and nothing else changes that score while the charge is recent
\* (routes.go:93-103, score.go:51-101).
ImplementsLedger == Ledger!Spec

\* Every request is answered, whatever the others do.
RequestsAnswered == \A r \in Request : req[r].stage # "idle" ~> req[r].stage = "idle"
-----------------------------------------------------------------------------
\* What the repository says and the code does not do.

\* "extender will fetch prober data from configured top node in the beginning
\* of scheduling phase" (routes.go:37): as long as no fetch fails, the cache
\* has data from then on.
CachedFromTheStart == phase = "serving" => scores # NothingFetched
=============================================================================
