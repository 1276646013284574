---------------------------- MODULE ExtenderProofs ----------------------------
(***************************************************************************)
(* What holds of the scheduler extender for any number of nodes, of        *)
(* requests at once and of scores a prober may answer: a charge survives   *)
(* whatever other requests do to the cache.                                *)
(***************************************************************************)
EXTENDS Extender, TLAPS

\* Before the server listens there is no score, no charge and no request.
QuietWarmup ==
  phase = "warmup" => /\ scores = NothingFetched
                      /\ \A n \in Node : penalized[n] = NoPenalty
                      /\ \A r \in Request : req[r] = IdleRequest

IInv == TypeOK /\ QuietWarmup /\ PenaltyInForce /\ ChosenNodeIsCached

\* What of IInv is about the two maps that requests write.
CacheInv ==
  /\ scores \in [Node -> Score \union {NoScore}]
  /\ penalized \in [Node -> Charge \union {NoPenalty}]
  /\ PenaltyInForce
-----------------------------------------------------------------------------
LEMMA IdleTyped == IdleRequest \in Handler /\ IdleRequest.best = NoNode
  BY DEF IdleRequest, Handler, NothingFetched, NoTraffic

LEMMA ProductNat == \A a, b \in Nat : a * b \in Nat
  OBVIOUS

\* A node's score is a percentage, whatever the weights.
LEMMA ScoreRange ==
  ASSUME scores \in [Node -> Score \union {NoScore}],
         NEW n \in Node, NEW traffic \in [Node -> Nat]
  PROVE  /\ ScoreNode(n, traffic) \in 0..100
         /\ ScoreNode(n, traffic) > 0 => scores[n] # NoScore
<1>1. CASE scores[n] = NoScore
  BY <1>1 DEF ScoreNode
<1>2. CASE scores[n] # NoScore
  <2>1. scores[n].latency \in Nat /\ scores[n].cpu \in Nat /\ traffic[n] \in Nat
    BY <1>2 DEF Score
  <2> DEFINE a == WeightLatency * scores[n].latency
             b == WeightCpu * scores[n].cpu
             c == WeightTraffic * traffic[n]
  <2>2. a \in Nat /\ b \in Nat /\ c \in Nat
    BY <2>1, ProductNat, ScoringAssumption
  <2>3. ScoreNode(n, traffic) = Clamp(a + b + c)
    BY <1>2 DEF ScoreNode
  <2> HIDE DEF a, b, c
  <2> QED BY <1>2, <2>2, <2>3 DEF Clamp
<1> QED BY <1>1, <1>2

LEMMA InitIInv == Init => IInv
<1> SUFFICES ASSUME Init PROVE IInv
  OBVIOUS
<1>1. TypeOK
  BY IdleTyped, SentinelAssumption
  DEF Init, TypeOK, NothingFetched, NoTraffic, IdleRequest
<1>2. QuietWarmup
  BY DEF Init, QuietWarmup
<1>3. PenaltyInForce
  BY DEF Init, PenaltyInForce, Fresh
<1>4. ChosenNodeIsCached
  BY IdleTyped DEF Init, ChosenNodeIsCached
<1> QED BY <1>1, <1>2, <1>3, <1>4 DEF IInv

\* A step of a handler that changes its own record and nothing else.
LEMMA OwnStep ==
  ASSUME IInv, phase = "serving",
         NEW r \in Request, NEW h \in Handler,
         req' = [req EXCEPT ![r] = h],
         UNCHANGED <<phase, scores, penalized, norm, lock>>,
         lock = r => h.stage = "merge",
         h.passed \intersect h.left = {},
         h.best # NoNode => scores[h.best] # NoScore
  PROVE  IInv'
<1>1. \A k \in Request : req'[k] = IF k = r THEN h ELSE req[k]
  BY DEF IInv, TypeOK
<1>2. TypeOK'
  BY <1>1 DEF IInv, TypeOK
<1>3. QuietWarmup'
  BY DEF QuietWarmup
<1>4. PenaltyInForce'
  BY DEF IInv, PenaltyInForce, Fresh
<1>5. ChosenNodeIsCached'
  BY <1>1 DEF IInv, ChosenNodeIsCached
<1> QED BY <1>2, <1>3, <1>4, <1>5 DEF IInv

\* A request under way means that the server listens.
LEMMA UnderWay ==
  ASSUME IInv, NEW r \in Request, req[r].stage # "idle"
  PROVE  phase = "serving"
BY DEF IInv, TypeOK, QuietWarmup, IdleRequest

\* A handler's step on the maps: no entry of the cache is lost, and the maps
\* stay in agreement.
LEMMA CacheStep ==
  ASSUME IInv, phase = "serving",
         NEW r \in Request, NEW h \in Handler,
         req' = [req EXCEPT ![r] = h],
         UNCHANGED <<phase, norm>>,
         lock' \in {lock, NoRequest},
         lock' = r => h.stage = "merge",
         h.passed \intersect h.left = {},
         CacheInv',
         \A n \in Node : scores[n] # NoScore => scores'[n] # NoScore,
         h.best # NoNode => scores'[h.best] # NoScore
  PROVE  IInv'
<1>1. \A k \in Request : req'[k] = IF k = r THEN h ELSE req[k]
  BY DEF IInv, TypeOK
<1>2. TypeOK'
  BY <1>1 DEF IInv, TypeOK, CacheInv
<1>3. QuietWarmup'
  BY DEF QuietWarmup
<1>4. ChosenNodeIsCached'
  <2> SUFFICES ASSUME NEW k \in Request, req'[k].best # NoNode
               PROVE  scores'[req'[k].best] # NoScore
    BY DEF ChosenNodeIsCached
  <2>1. CASE k = r
    BY <1>1, <2>1
  <2>2. CASE k # r
    <3>1. req[k].best \in Node /\ scores[req[k].best] # NoScore
      BY <1>1, <2>2 DEF IInv, ChosenNodeIsCached, TypeOK, Handler
    <3> QED BY <1>1, <2>2, <3>1
  <2> QED BY <2>1, <2>2
<1> QED BY <1>2, <1>3, <1>4 DEF IInv, CacheInv

\* A node of a prober's answer is merged.
LEMMA MergeKeeps ==
  ASSUME IInv, NEW r \in Request, NEW n \in Node, MergeScore(r, n)
  PROVE  IInv'
<1> DEFINE h == [req[r] EXCEPT !.got = [@ EXCEPT ![n] = NoScore]]
<1>1. /\ lock = r /\ req[r].stage = "merge" /\ phase = "serving"
      /\ req[r] \in Handler /\ r # NoRequest
  BY UnderWay, SentinelAssumption DEF MergeScore, IInv, TypeOK
<1>2. req[r].got[n] \in Score
  BY <1>1 DEF MergeScore, Handler
<1>3. h \in Handler /\ h.stage = "merge"
  BY <1>1 DEF Handler
<1>4. req' = [req EXCEPT ![r] = h]
  BY <1>1 DEF MergeScore
<1>5. Fresh(n) => penalized[n].cpu \in Nat
  BY DEF Fresh, IInv, TypeOK, Charge
<1>6. scores'[n] \in Score /\ scores'[n] # NoScore
  BY <1>2, <1>5, SentinelAssumption DEF MergeScore, Score, IInv, TypeOK
<1>7. \A k \in Node \ {n} : scores'[k] = scores[k] /\ penalized'[k] = penalized[k]
  BY DEF MergeScore, IInv, TypeOK
<1>8. CacheInv'
  <2>1. penalized' \in [Node -> Charge \union {NoPenalty}]
    BY DEF MergeScore, IInv, TypeOK
  <2>2. scores' \in [Node -> Score \union {NoScore}]
    BY <1>6, <1>7 DEF MergeScore, IInv, TypeOK
  <2>3. Fresh(n)' => scores'[n].cpu = penalized'[n].cpu
    BY <1>2 DEF MergeScore, Fresh, IInv, TypeOK, Score
  <2> QED BY <1>6, <1>7, <2>1, <2>2, <2>3 DEF CacheInv, PenaltyInForce, Fresh, IInv
<1>9. \A k \in Node : scores[k] # NoScore => scores'[k] # NoScore
  BY <1>6, <1>7
<1>10. h.best # NoNode => scores'[h.best] # NoScore
  BY <1>1, <1>9 DEF IInv, ChosenNodeIsCached, Handler
<1>11. h.passed \intersect h.left = {} /\ UNCHANGED <<phase, norm, lock>>
  BY <1>1 DEF MergeScore, IInv, TypeOK, Handler
<1> HIDE DEF h
<1> QED BY <1>1, <1>3, <1>4, <1>8, <1>9, <1>10, <1>11, CacheStep

\* The chosen node is charged.
LEMMA ChargeKeeps ==
  ASSUME IInv, NEW r \in Request, ApplyPenalty(r)
  PROVE  IInv'
<1> DEFINE n == req[r].best
           cpu == ApplyCPUPenalty(n, scores[n].cpu)
<1>1. /\ req[r].stage = "score" /\ phase = "serving"
      /\ n \in Node /\ scores[n] \in Score /\ scores[n] # NoScore
  BY UnderWay DEF ApplyPenalty, IInv, TypeOK, Handler, ChosenNodeIsCached
<1>2. cpu \in Nat
  BY <1>1, ScoringAssumption DEF ApplyCPUPenalty, Score
<1>3. /\ scores' = [scores EXCEPT ![n].cpu = cpu]
      /\ penalized' = [penalized EXCEPT ![n] = [cpu |-> cpu, fresh |-> TRUE]]
      /\ req' = [req EXCEPT ![r] = IdleRequest]
      /\ lock = NoRequest /\ UNCHANGED <<phase, norm, lock>>
  BY <1>1 DEF ApplyPenalty
<1> HIDE DEF cpu
<1>4. scores'[n] \in Score /\ scores'[n].cpu = cpu /\ scores'[n] # NoScore
  BY <1>1, <1>2, <1>3, SentinelAssumption DEF IInv, TypeOK, Score
<1>5. penalized'[n] = [cpu |-> cpu, fresh |-> TRUE] /\ penalized'[n] \in Charge
  BY <1>1, <1>2, <1>3 DEF IInv, TypeOK, Charge
<1> HIDE DEF n
<1>6. \A k \in Node \ {n} : scores'[k] = scores[k] /\ penalized'[k] = penalized[k]
  BY <1>3 DEF IInv, TypeOK
<1>7. CacheInv'
  <2>1. scores' \in [Node -> Score \union {NoScore}]
    BY <1>3, <1>4, <1>6 DEF IInv, TypeOK
  <2>2. penalized' \in [Node -> Charge \union {NoPenalty}]
    BY <1>3, <1>5, <1>6 DEF IInv, TypeOK
  <2>3. PenaltyInForce'
    BY <1>4, <1>5, <1>6 DEF IInv, PenaltyInForce, Fresh
  <2> QED BY <2>1, <2>2, <2>3 DEF CacheInv
<1>8. \A k \in Node : scores[k] # NoScore => scores'[k] # NoScore
  BY <1>4, <1>6
<1>9. IdleRequest.passed \intersect IdleRequest.left = {} /\ r # NoRequest
  BY SentinelAssumption DEF IdleRequest
<1> QED BY <1>1, <1>3, <1>7, <1>8, <1>9, IdleTyped, CacheStep

\* The steps of a handler that touch nothing but its own record.
LEMMA OwnStepsKeep ==
  ASSUME IInv, NEW r \in Request,
         \/ FetchScores(r) \/ RefreshFails(r) \/ BeginLookup(r) \/ CheckData(r) \/ Respond(r)
         \/ \E n \in Node : FilterNode(r, n) \/ ScoreOne(r, n)
  PROVE  IInv'
<1>1. req[r] \in Handler /\ req \in [Request -> Handler]
  BY DEF IInv, TypeOK
<1>2. lock = r => req[r].stage = "merge"
  BY SentinelAssumption DEF IInv, TypeOK
<1>3. req[r].passed \intersect req[r].left = {}
  BY DEF IInv, TypeOK
<1>4. req[r].best # NoNode => scores[req[r].best] # NoScore
  BY DEF IInv, ChosenNodeIsCached
<1>5. AfterRefresh(r) \in {"traffic", "begin"}
  BY DEF AfterRefresh
<1>6. CASE FetchScores(r)
  <2>1. PICK answer \in Answers :
          req' = [req EXCEPT ![r].got = answer, ![r].stage = "merge"]
    BY <1>6 DEF FetchScores
  <2> DEFINE h == [req[r] EXCEPT !.got = answer, !.stage = "merge"]
  <2>2. h \in Handler
    BY <1>1, ScoringAssumption DEF Handler
  <2>3. req' = [req EXCEPT ![r] = h]
    BY <2>1, <1>1
  <2>4. h.passed = req[r].passed /\ h.left = req[r].left /\ h.best = req[r].best /\ h.stage = "merge"
    BY <1>1 DEF Handler
  <2>5. phase = "serving" /\ UNCHANGED <<phase, scores, penalized, norm, lock>>
    BY <1>6, UnderWay DEF FetchScores
  <2> HIDE DEF h
  <2> QED BY <1>3, <1>4, <2>2, <2>3, <2>4, <2>5, OwnStep
<1>7. CASE RefreshFails(r)
  <2> DEFINE h == [req[r] EXCEPT !.stage = AfterRefresh(r)]
  <2>2. h \in Handler
    BY <1>1, <1>5 DEF Handler
  <2>3. req' = [req EXCEPT ![r] = h]
    BY <1>7, <1>1 DEF RefreshFails
  <2>4. h.passed = req[r].passed /\ h.left = req[r].left /\ h.best = req[r].best
    BY <1>1 DEF Handler
  <2>5. phase = "serving" /\ lock # r /\ UNCHANGED <<phase, scores, penalized, norm, lock>>
    BY <1>2, <1>7, UnderWay DEF RefreshFails
  <2> HIDE DEF h
  <2> QED BY <1>3, <1>4, <2>2, <2>3, <2>4, <2>5, OwnStep
<1>8. CASE BeginLookup(r)
  <2> DEFINE stage == IF req[r].verb = "score" THEN "score" ELSE "check"
             traffic == IF req[r].verb = "score" THEN norm ELSE NoTraffic
             h == [req[r] EXCEPT !.stage = stage, !.norm = traffic]
  <2>1. norm \in [Node -> Nat] /\ NoTraffic \in [Node -> Nat]
    BY ScoringAssumption DEF IInv, TypeOK, NoTraffic
  <2>2. h \in Handler
    BY <1>1, <2>1 DEF Handler
  <2>3. req' = [req EXCEPT ![r] = h]
    BY <1>8, <1>1 DEF BeginLookup
  <2>4. h.passed = req[r].passed /\ h.left = req[r].left /\ h.best = req[r].best
    BY <1>1 DEF Handler
  <2>5. phase = "serving" /\ lock # r /\ UNCHANGED <<phase, scores, penalized, norm, lock>>
    BY <1>2, <1>8, UnderWay DEF BeginLookup
  <2> HIDE DEF h
  <2> QED BY <1>3, <1>4, <2>2, <2>3, <2>4, <2>5, OwnStep
<1>9. CASE CheckData(r)
  <2> DEFINE left == IF scores = NothingFetched THEN {} ELSE req[r].left
             passed == IF scores = NothingFetched THEN req[r].left ELSE req[r].passed
             h == [req[r] EXCEPT !.stage = "filter", !.left = left, !.passed = passed]
  <2>1. left \subseteq Node /\ passed \subseteq Node /\ passed \intersect left = {}
    BY <1>1, <1>3 DEF Handler
  <2> HIDE DEF left, passed
  <2>2. h \in Handler
    BY <1>1, <2>1 DEF Handler
  <2>3. req' = [req EXCEPT ![r] = h]
    BY <1>9, <1>1 DEF CheckData, left, passed
  <2>4. h.passed = passed /\ h.left = left /\ h.best = req[r].best
    BY <1>1 DEF Handler
  <2>5. phase = "serving" /\ lock # r /\ UNCHANGED <<phase, scores, penalized, norm, lock>>
    BY <1>2, <1>9, UnderWay DEF CheckData
  <2> HIDE DEF h
  <2> QED BY <1>4, <2>1, <2>2, <2>3, <2>4, <2>5, OwnStep
<1>10. CASE Respond(r)
  <2>1. phase = "serving" /\ lock # r /\ UNCHANGED <<phase, scores, penalized, norm, lock>>
    BY <1>2, <1>10, UnderWay DEF Respond
  <2>2. req' = [req EXCEPT ![r] = IdleRequest]
    BY <1>10 DEF Respond
  <2>3. IdleRequest.passed \intersect IdleRequest.left = {}
    BY DEF IdleRequest
  <2> QED BY <2>1, <2>2, <2>3, IdleTyped, OwnStep
<1>11. CASE \E n \in Node : FilterNode(r, n)
  <2>1. PICK n \in Node : FilterNode(r, n)
    BY <1>11
  <2> DEFINE left == req[r].left \ {n}
             passed == IF Passes(n) THEN req[r].passed \union {n} ELSE req[r].passed
             h == [req[r] EXCEPT !.left = left, !.passed = passed]
  <2>2. left \subseteq Node /\ passed \subseteq Node /\ passed \intersect left = {}
    BY <1>1, <1>3 DEF Handler
  <2>3. req' = [req EXCEPT ![r] = h]
    BY <2>1, <1>1 DEF FilterNode
  <2> HIDE DEF left, passed
  <2>4. h \in Handler
    BY <1>1, <2>2 DEF Handler
  <2>5. h.passed = passed /\ h.left = left /\ h.best = req[r].best
    BY <1>1 DEF Handler
  <2>6. phase = "serving" /\ lock # r /\ UNCHANGED <<phase, scores, penalized, norm, lock>>
    BY <1>2, <2>1, UnderWay DEF FilterNode
  <2> HIDE DEF h
  <2> QED BY <1>4, <2>2, <2>3, <2>4, <2>5, <2>6, OwnStep
<1>12. CASE \E n \in Node : ScoreOne(r, n)
  <2>1. PICK n \in Node : ScoreOne(r, n)
    BY <1>12
  <2> DEFINE score == ScoreNode(n, req[r].norm)
             best == IF score > req[r].bestScore THEN n ELSE req[r].best
             top == IF score > req[r].bestScore THEN score ELSE req[r].bestScore
             h == [req[r] EXCEPT !.left = @ \ {n}, !.best = best, !.bestScore = top]
  <2>2. score \in 0..100 /\ (score > 0 => scores[n] # NoScore)
    BY <1>1, ScoreRange DEF IInv, TypeOK, Handler
  <2>3. req' = [req EXCEPT ![r] = h]
    BY <2>1, <1>1 DEF ScoreOne
  <2> HIDE DEF score
  <2>4. /\ best \in Node \union {NoNode} /\ top \in 0..100
        /\ best # NoNode => scores[best] # NoScore
    BY <1>1, <1>4, <2>2 DEF Handler
  <2> HIDE DEF best, top
  <2>5. h \in Handler
    BY <1>1, <2>4 DEF Handler
  <2>6. h.passed = req[r].passed /\ h.left = req[r].left \ {n} /\ h.best = best
    BY <1>1 DEF Handler
  <2>7. phase = "serving" /\ lock # r /\ UNCHANGED <<phase, scores, penalized, norm, lock>>
    BY <1>2, <2>1, UnderWay DEF ScoreOne
  <2> HIDE DEF h
  <2> QED BY <1>3, <2>3, <2>4, <2>5, <2>6, <2>7, OwnStep
<1> QED BY <1>6, <1>7, <1>8, <1>9, <1>10, <1>11, <1>12

\* The steps around a merge and of the traffic, which use the mutex.
LEMMA LockStepsKeep ==
  ASSUME IInv, NEW r \in Request,
         LockForMerge(r) \/ EndMerge(r) \/ RefreshTraffic(r)
  PROVE  IInv'
<1>1. req[r] \in Handler /\ req \in [Request -> Handler]
  BY DEF IInv, TypeOK
<1>2. r # NoRequest /\ (lock = r => req[r].stage = "merge")
  BY SentinelAssumption DEF IInv, TypeOK
<1>3. req[r].passed \intersect req[r].left = {}
  BY DEF IInv, TypeOK
<1>4. req[r].best # NoNode => scores[req[r].best] # NoScore
  BY DEF IInv, ChosenNodeIsCached
<1>5. CASE LockForMerge(r)
  <2>1. TypeOK'
    BY <1>5 DEF LockForMerge, IInv, TypeOK
  <2> QED
    BY <1>5, <2>1 DEF LockForMerge, IInv, QuietWarmup, PenaltyInForce, Fresh, ChosenNodeIsCached
<1>6. CASE EndMerge(r)
  <2> DEFINE h == [req[r] EXCEPT !.stage = AfterRefresh(r)]
  <2>1. h \in Handler
    BY <1>1 DEF AfterRefresh, Handler
  <2>2. h.passed = req[r].passed /\ h.left = req[r].left /\ h.best = req[r].best
    BY <1>1 DEF Handler
  <2>3. /\ req' = [req EXCEPT ![r] = h]
        /\ lock' = NoRequest /\ UNCHANGED <<phase, scores, penalized, norm>>
    BY <1>1, <1>6 DEF EndMerge
  <2>4. phase = "serving"
    BY <1>2, <1>6, UnderWay DEF EndMerge
  <2>5. CacheInv'
    BY <2>3 DEF IInv, TypeOK, CacheInv, PenaltyInForce, Fresh
  <2> HIDE DEF h
  <2> QED BY <1>2, <1>3, <1>4, <2>1, <2>2, <2>3, <2>4, <2>5, CacheStep
<1>7. CASE RefreshTraffic(r)
  <2> DEFINE h == [req[r] EXCEPT !.stage = "begin"]
  <2>1. h \in Handler
    BY <1>1 DEF Handler
  <2>2. h.passed = req[r].passed /\ h.left = req[r].left /\ h.best = req[r].best
    BY <1>1 DEF Handler
  <2>3. req' = [req EXCEPT ![r] = h] /\ UNCHANGED <<phase, scores, penalized, lock>>
    BY <1>1, <1>7 DEF RefreshTraffic
  <2>4. norm' \in NormMaps \union {NoTraffic}
    BY <1>7 DEF RefreshTraffic, IInv, TypeOK
  <2>5. phase = "serving" /\ lock # r
    BY <1>2, <1>7, UnderWay DEF RefreshTraffic
  <2> HIDE DEF h
  <2>6. \A k \in Request : req'[k] = IF k = r THEN h ELSE req[k]
    BY <1>1, <2>3
  <2>7. TypeOK'
    BY <1>3, <2>1, <2>2, <2>3, <2>4, <2>5, <2>6 DEF IInv, TypeOK
  <2>8. ChosenNodeIsCached'
    BY <1>4, <2>2, <2>3, <2>6 DEF IInv, ChosenNodeIsCached
  <2> QED BY <2>3, <2>5, <2>7, <2>8 DEF IInv, QuietWarmup, PenaltyInForce, Fresh
<1> QED BY <1>5, <1>6, <1>7

LEMMA StartShape ==
  ASSUME NEW r \in Request, Start(r)
  PROVE  \E verb \in {"filter", "score"}, nodes \in SUBSET Node :
           req' = [req EXCEPT ![r] = [IdleRequest EXCEPT
                     !.verb = verb, !.left = nodes, !.stage = "refresh"]]
BY DEF Start

\* A request arrives.
LEMMA StartKeeps ==
  ASSUME IInv, NEW r \in Request, Start(r)
  PROVE  IInv'
<1>1. PICK verb \in {"filter", "score"}, nodes \in SUBSET Node :
        req' = [req EXCEPT ![r] = [IdleRequest EXCEPT
                  !.verb = verb, !.left = nodes, !.stage = "refresh"]]
  BY StartShape
<1> DEFINE h == [IdleRequest EXCEPT !.verb = verb, !.left = nodes, !.stage = "refresh"]
<1>2. h \in Handler /\ h.passed = {} /\ h.best = NoNode
  BY IdleTyped DEF Handler, IdleRequest
<1>3. phase = "serving" /\ lock # r /\ UNCHANGED <<phase, scores, penalized, norm, lock>>
  BY SentinelAssumption DEF Start, IInv, TypeOK
<1>4. req' = [req EXCEPT ![r] = h]
  BY <1>1
<1> HIDE DEF h
<1> QED BY <1>2, <1>3, <1>4, OwnStep

\* Time passes for a penalty.
LEMMA ExpireKeeps ==
  ASSUME IInv, NEW n \in Node, Expire(n)
  PROVE  IInv'
<1>1. penalized[n] \in Charge /\ phase \in {"warmup", "serving"}
  BY DEF Expire, Fresh, IInv, TypeOK
<1>2. penalized'[n] = [penalized[n] EXCEPT !.fresh = FALSE] /\ penalized'[n] \in Charge
  BY <1>1 DEF Expire, IInv, TypeOK, Charge
<1>3. \A k \in Node \ {n} : penalized'[k] = penalized[k]
  BY DEF Expire, IInv, TypeOK
<1>4. UNCHANGED <<phase, scores, norm, lock, req>> /\ ~Fresh(n)'
  BY <1>1, <1>2 DEF Expire, Fresh, Charge
<1>5. TypeOK'
  BY <1>2, <1>3, <1>4 DEF Expire, IInv, TypeOK
<1>6. phase # "warmup"
  BY DEF Expire, Fresh, IInv, QuietWarmup
<1>7. PenaltyInForce'
  BY <1>3, <1>4 DEF IInv, PenaltyInForce, Fresh
<1> QED BY <1>4, <1>5, <1>6, <1>7 DEF IInv, QuietWarmup, ChosenNodeIsCached

\* The server starts, or starts again.
LEMMA LifeKeeps ==
  ASSUME IInv, Warmup \/ Crash
  PROVE  IInv'
<1>1. CASE Warmup
  <2>1. /\ phase' = "serving" /\ UNCHANGED <<penalized, norm, lock, req>>
        /\ \A n \in Node : penalized[n] = NoPenalty
        /\ \A r \in Request : req[r] = IdleRequest
    BY <1>1 DEF Warmup, IInv, QuietWarmup
  <2>2. scores' \in [Node -> Score \union {NoScore}]
    BY <1>1, ScoringAssumption DEF Warmup, IInv, TypeOK
  <2>3. TypeOK'
    BY <2>1, <2>2 DEF IInv, TypeOK
  <2>4. PenaltyInForce' /\ ChosenNodeIsCached'
    BY <2>1, IdleTyped DEF PenaltyInForce, Fresh, ChosenNodeIsCached
  <2> QED BY <2>1, <2>3, <2>4 DEF IInv, QuietWarmup
<1>2. CASE Crash
  <2>1. TypeOK'
    BY <1>2, IdleTyped, SentinelAssumption
    DEF Crash, TypeOK, NothingFetched, NoTraffic, IdleRequest
  <2>2. QuietWarmup'
    BY <1>2 DEF Crash, QuietWarmup
  <2>3. PenaltyInForce' /\ ChosenNodeIsCached'
    BY <1>2, IdleTyped DEF Crash, PenaltyInForce, Fresh, ChosenNodeIsCached
  <2> QED BY <2>1, <2>2, <2>3 DEF IInv
<1> QED BY <1>1, <1>2

LEMMA NextIInv == IInv /\ [Next]_vars => IInv'
<1> SUFFICES ASSUME IInv, [Next]_vars PROVE IInv'
  OBVIOUS
<1>1. CASE Warmup \/ Crash
  BY <1>1, LifeKeeps
<1>2. ASSUME NEW r \in Request, Start(r) PROVE IInv'
  BY <1>2, StartKeeps
<1>3. ASSUME NEW r \in Request, Locking(r) PROVE IInv'
  BY <1>3, LockStepsKeep, OwnStepsKeep, ChargeKeeps DEF Locking
<1>4. ASSUME NEW r \in Request, Handling(r) PROVE IInv'
  BY <1>4, LockStepsKeep, OwnStepsKeep, MergeKeeps DEF Handling
<1>5. ASSUME NEW n \in Node, Expire(n) PROVE IInv'
  BY <1>5, ExpireKeeps
<1>6. CASE UNCHANGED vars
  BY <1>6 DEF vars, IInv, TypeOK, QuietWarmup, PenaltyInForce, Fresh, ChosenNodeIsCached
<1> QED BY <1>1, <1>2, <1>3, <1>4, <1>5, <1>6 DEF Next
-----------------------------------------------------------------------------
\* The strengthened invariant holds for as long as the extender runs.
LEMMA Invariance == Spec => []IInv
<1>1. Init => IInv
  BY InitIInv
<1>2. IInv /\ [Next]_vars => IInv'
  BY NextIInv
<1> QED BY <1>1, <1>2, PTL DEF Spec

\* CPU scores never fall below 0 and the sum of a node's weighted scores never
\* passes 100; only the request that merges holds the mutex (score.go:90-92).
THEOREM ExtenderTyping == Spec => []TypeOK
<1>1. IInv => TypeOK
  BY DEF IInv
<1> QED BY <1>1, Invariance, PTL

\* A charge is what the cache says of its node for 15 seconds, for any number
\* of requests and fetches in any order (routes.go:93-103, score.go:79-101).
THEOREM ChargesStayInForce == Spec => []PenaltyInForce
<1>1. IInv => PenaltyInForce
  BY DEF IInv
<1> QED BY <1>1, Invariance, PTL

\* No request loses the node it has chosen before it charges it
\* (score.go:65-87).
THEOREM NoChargeIsLost == Spec => []ChosenNodeIsCached
<1>1. IInv => ChosenNodeIsCached
  BY DEF IInv
<1> QED BY <1>1, Invariance, PTL

\* No step raises the CPU score of a node that was charged recently: fetches
\* are corrected and a second charge is added to the first (score.go:90-92).
THEOREM ChargedScoreNeverRises == Spec => NoRecoveryUnderPenalty
<1> DEFINE Falls == \A n \in Node : Fresh(n) /\ scores'[n] # NoScore => scores'[n].cpu <= scores[n].cpu
<1>1. IInv /\ [Next]_vars => Falls
  <2> SUFFICES ASSUME IInv, [Next]_vars, NEW n \in Node, Fresh(n), scores'[n] # NoScore
               PROVE  scores'[n].cpu <= scores[n].cpu
    OBVIOUS
  <2>1. scores[n] \in Score /\ scores[n] # NoScore /\ scores[n].cpu = penalized[n].cpu
    BY DEF IInv, TypeOK, PenaltyInForce
  <2>2. scores[n].cpu \in Nat
    BY <2>1 DEF Score
  <2>3. CASE scores'[n] = scores[n]
    BY <2>2, <2>3
  <2>4. ASSUME NEW r \in Request, NEW k \in Node, MergeScore(r, k) PROVE scores'[n].cpu <= scores[n].cpu
    <3>1. CASE n = k
      <4>1. req[r].got[n] \in Score
        BY <2>4, <3>1 DEF MergeScore, IInv, TypeOK, Handler
      <4>2. scores'[n] = [req[r].got[n] EXCEPT !.cpu = penalized[n].cpu]
        BY <2>4, <3>1 DEF MergeScore, IInv, TypeOK
      <4> QED BY <2>1, <2>2, <4>1, <4>2 DEF Score
    <3>2. CASE n # k
      BY <2>2, <2>4, <3>2 DEF MergeScore, IInv, TypeOK
    <3> QED BY <3>1, <3>2
  <2>5. ASSUME NEW r \in Request, ApplyPenalty(r) PROVE scores'[n].cpu <= scores[n].cpu
    <3> DEFINE k == req[r].best
               cpu == ApplyCPUPenalty(k, scores[k].cpu)
    <3>1. k \in Node /\ scores[k] # NoScore
      BY <2>5 DEF ApplyPenalty, IInv, TypeOK, Handler, ChosenNodeIsCached
    <3>2. scores' = [scores EXCEPT ![k].cpu = cpu]
      BY <2>5, <3>1 DEF ApplyPenalty
    <3>3. CASE n = k
      <4>1. cpu <= scores[n].cpu
        BY <2>2, <3>1, <3>3, ScoringAssumption DEF ApplyCPUPenalty
      <4> HIDE DEF cpu
      <4>2. scores'[n].cpu = cpu
        BY <2>1, <3>2, <3>3 DEF IInv, TypeOK, Score
      <4> QED BY <4>1, <4>2
    <3> HIDE DEF cpu, k
    <3>4. CASE n # k
      BY <2>2, <3>2, <3>4 DEF IInv, TypeOK
    <3> QED BY <3>3, <3>4
  <2>6. ASSUME Warmup \/ Crash PROVE scores'[n].cpu <= scores[n].cpu
    <3>1. phase # "warmup"
      BY DEF IInv, QuietWarmup, Fresh
    <3>2. ~Crash
      BY DEF Crash, NothingFetched
    <3> QED BY <2>6, <3>1, <3>2 DEF Warmup
  <2>7. CASE \A m \in Node : scores'[m] = scores[m]
    BY <2>3, <2>7
  <2>8. ASSUME NEW r \in Request, Locking(r), ~ApplyPenalty(r) PROVE scores' = scores
    BY <2>8 DEF Locking, LockForMerge, RefreshTraffic, BeginLookup
  <2>9. ASSUME NEW r \in Request, Handling(r), \A k \in Node : ~MergeScore(r, k) PROVE scores' = scores
    BY <2>9 DEF Handling, FetchScores, RefreshFails, EndMerge, CheckData, Respond, FilterNode, ScoreOne
  <2>10. ASSUME NEW r \in Request, Start(r) PROVE scores' = scores
    BY <2>10 DEF Start
  <2>11. ASSUME NEW k \in Node, Expire(k) PROVE scores' = scores
    BY <2>11 DEF Expire
  <2>12. UNCHANGED vars => scores' = scores
    BY DEF vars
  <2> QED BY <2>3, <2>4, <2>5, <2>6, <2>8, <2>9, <2>10, <2>11, <2>12 DEF Next
<1>2. IInv /\ [Next]_vars => [Falls]_vars
  BY <1>1
<1> QED BY <1>2, Invariance, PTL DEF Spec, NoRecoveryUnderPenalty

\* A filter lets no node through that was charged below the threshold within the
\* last 15 seconds, although it reads the cache without the lock
\* (filter.go:48-69).
THEOREM ChargedNodesAreFiltered == Spec => ChargedNodesFiltered
<1> DEFINE Filtered ==
      \A r \in Request, n \in Node :
        n \in req'[r].passed \ req[r].passed /\ Fresh(n) => penalized[n].cpu >= CpuThreshold
<1>1. IInv /\ [Next]_vars => Filtered
  <2> SUFFICES ASSUME IInv, [Next]_vars, NEW r \in Request, NEW n \in Node,
                      n \in req'[r].passed, n \notin req[r].passed, Fresh(n)
               PROVE  penalized[n].cpu >= CpuThreshold
    OBVIOUS
  <2>1. scores[n] # NoScore /\ scores[n].cpu = penalized[n].cpu
    BY DEF IInv, PenaltyInForce
  <2>2. IdleRequest.passed = {}
    BY DEF IdleRequest
  <2>3. ASSUME NEW k \in Request, NEW m \in Node, FilterNode(k, m) PROVE penalized[n].cpu >= CpuThreshold
    <3>1. req'[r].passed \subseteq req[r].passed \union (IF Passes(m) THEN {m} ELSE {})
      BY <2>3 DEF FilterNode, IInv, TypeOK, Handler
    <3>2. Passes(n)
      BY <3>1
    <3> QED BY <2>1, <3>2 DEF Passes
  <2>4. ASSUME NEW k \in Request, CheckData(k) PROVE FALSE
    <3>1. scores # NothingFetched
      BY <2>1 DEF NothingFetched
    <3> QED BY <2>4, <3>1 DEF CheckData, IInv, TypeOK, Handler
  <2>5. ASSUME NEW k \in Request,
               req' = [req EXCEPT ![k] = IdleRequest] PROVE FALSE
    BY <2>2, <2>5 DEF IInv, TypeOK
  <2>6. ASSUME NEW k \in Request, req'[k].passed = req[k].passed,
               \A j \in Request \ {k} : req'[j] = req[j] PROVE FALSE
    BY <2>6
  <2>7. ASSUME NEW k \in Request, Start(k) PROVE FALSE
    <3>1. PICK verb \in {"filter", "score"}, nodes \in SUBSET Node :
        req' = [req EXCEPT ![k] = [IdleRequest EXCEPT
                  !.verb = verb, !.left = nodes, !.stage = "refresh"]]
      BY <2>7, StartShape
    <3> QED BY <3>1, <2>2 DEF IInv, TypeOK, IdleRequest
  <2>8. ASSUME NEW k \in Request, Locking(k) PROVE FALSE
    <3>1. CASE LockForMerge(k)
      BY <3>1 DEF LockForMerge
    <3>2. CASE RefreshTraffic(k)
      BY <3>2, <2>6 DEF RefreshTraffic, IInv, TypeOK, Handler
    <3>3. CASE BeginLookup(k)
      BY <3>3, <2>6 DEF BeginLookup, IInv, TypeOK, Handler
    <3>4. CASE ApplyPenalty(k)
      BY <3>4, <2>5 DEF ApplyPenalty
    <3> QED BY <2>8, <3>1, <3>2, <3>3, <3>4 DEF Locking
  <2>9. ASSUME NEW k \in Request, Handling(k) PROVE penalized[n].cpu >= CpuThreshold
    <3>1. CASE FetchScores(k)
      <4>1. PICK answer \in Answers :
              req' = [req EXCEPT ![k].got = answer, ![k].stage = "merge"]
        BY <3>1 DEF FetchScores
      <4> QED BY <4>1, <2>6 DEF IInv, TypeOK, Handler
    <3>2. CASE RefreshFails(k) \/ EndMerge(k)
      BY <3>2, <2>6 DEF RefreshFails, EndMerge, IInv, TypeOK, Handler
    <3>3. CASE Respond(k)
      BY <3>3, <2>5 DEF Respond
    <3>4. ASSUME NEW m \in Node, MergeScore(k, m) PROVE FALSE
      BY <3>4, <2>6 DEF MergeScore, IInv, TypeOK, Handler
    <3>5. ASSUME NEW m \in Node, ScoreOne(k, m) PROVE FALSE
      <4> DEFINE score == ScoreNode(m, req[k].norm)
      <4>1. req' = [req EXCEPT
                ![k].left = @ \ {m},
                ![k].best = IF score > req[k].bestScore THEN m ELSE @,
                ![k].bestScore = IF score > @ THEN score ELSE @]
        BY <3>5 DEF ScoreOne
      <4> HIDE DEF score
      <4> QED BY <4>1, <2>6 DEF IInv, TypeOK, Handler
    <3> QED BY <2>9, <2>3, <2>4, <3>1, <3>2, <3>3, <3>4, <3>5 DEF Handling
  <2>10. ASSUME Warmup \/ Crash \/ UNCHANGED vars \/ \E m \in Node : Expire(m) PROVE FALSE
    <3>1. CASE Crash
      BY <3>1, <2>2 DEF Crash
    <3> QED BY <2>10, <3>1 DEF Warmup, vars, Expire
  <2> QED BY <2>7, <2>8, <2>9, <2>10 DEF Next
<1>2. IInv /\ [Next]_vars => [Filtered]_vars
  BY <1>1
<1> QED BY <1>2, Invariance, PTL DEF Spec, ChargedNodesFiltered
-----------------------------------------------------------------------------
\* What the ledger sees of the two maps.
LedgerOffer(s, n) == IF s[n] = NoScore THEN NoScore ELSE s[n].cpu

\* A request chooses while it scores, and has nothing chosen before.
ChoiceInv == \A r \in Request : req[r].stage # "score" => req[r].best = NoNode

SameChoices == \A k \in Request : req'[k].best = req[k].best

\* The steps of a handler that neither score a node nor charge one.
OtherStep(r) ==
  \/ Start(r) \/ LockForMerge(r) \/ RefreshTraffic(r) \/ BeginLookup(r)
  \/ FetchScores(r) \/ RefreshFails(r) \/ EndMerge(r) \/ CheckData(r) \/ Respond(r)
  \/ \E n \in Node : MergeScore(r, n) \/ FilterNode(r, n)

LEMMA OtherStepsKeepChoices ==
  ASSUME IInv, ChoiceInv, NEW r \in Request, OtherStep(r)
  PROVE  ChoiceInv' /\ SameChoices
<1>1. req \in [Request -> Handler] /\ req[r] \in Handler
  BY DEF IInv, TypeOK
<1>2. IdleRequest.best = NoNode
  BY IdleTyped
<1>3. CASE UNCHANGED req
  BY <1>3 DEF ChoiceInv, SameChoices
<1>4. ASSUME req[r].best = NoNode, req'[r].best = NoNode,
             \A k \in Request \ {r} : req'[k] = req[k]
      PROVE  ChoiceInv' /\ SameChoices
  BY <1>4 DEF ChoiceInv, SameChoices
<1>5. ASSUME req[r].stage # "score", req'[r].best = req[r].best,
             \A k \in Request \ {r} : req'[k] = req[k]
      PROVE  ChoiceInv' /\ SameChoices
  BY <1>4, <1>5 DEF ChoiceInv
<1>6. CASE Start(r)
  <2>1. PICK verb \in {"filter", "score"}, nodes \in SUBSET Node :
          req' = [req EXCEPT ![r] = [IdleRequest EXCEPT
                    !.verb = verb, !.left = nodes, !.stage = "refresh"]]
    BY <1>6, StartShape
  <2>2. req'[r].best = NoNode /\ \A k \in Request \ {r} : req'[k] = req[k]
    BY <1>1, <1>2, <2>1 DEF IdleRequest
  <2>3. req[r].stage # "score"
    BY <1>6 DEF Start
  <2> QED BY <1>4, <2>2, <2>3 DEF ChoiceInv
<1>7. CASE LockForMerge(r)
  BY <1>3, <1>7 DEF LockForMerge
<1>8. CASE RefreshTraffic(r) \/ BeginLookup(r) \/ RefreshFails(r)
  <2>1. /\ req[r].stage # "score"
        /\ \A k \in Request \ {r} : req'[k] = req[k]
    BY <1>1, <1>8 DEF RefreshTraffic, BeginLookup, RefreshFails
  <2>2. req'[r].best = req[r].best
    <3>1. CASE RefreshTraffic(r)
      BY <1>1, <3>1 DEF RefreshTraffic, Handler
    <3>2. CASE RefreshFails(r)
      BY <1>1, <3>2 DEF RefreshFails, Handler
    <3>3. CASE BeginLookup(r)
      <4> DEFINE stage == IF req[r].verb = "score" THEN "score" ELSE "check"
                 traffic == IF req[r].verb = "score" THEN norm ELSE NoTraffic
      <4>1. req' = [req EXCEPT ![r].stage = stage, ![r].norm = traffic]
        BY <3>3 DEF BeginLookup
      <4> HIDE DEF stage, traffic
      <4> QED BY <1>1, <4>1 DEF Handler
    <3> QED BY <1>8, <3>1, <3>2, <3>3
  <2> QED BY <1>5, <2>1, <2>2
<1>9. CASE FetchScores(r)
  <2>1. PICK answer \in Answers :
          req' = [req EXCEPT ![r].got = answer, ![r].stage = "merge"]
    BY <1>9 DEF FetchScores
  <2> QED BY <1>1, <1>5, <1>9, <2>1 DEF FetchScores, Handler
<1>10. CASE EndMerge(r)
  <2>1. req[r].stage = "merge"
    BY <1>10, SentinelAssumption DEF EndMerge, IInv, TypeOK
  <2> QED BY <1>1, <1>5, <1>10, <2>1 DEF EndMerge, Handler
<1>11. CASE CheckData(r)
  <2>1. req'[r].best = req[r].best /\ \A k \in Request \ {r} : req'[k] = req[k]
    BY <1>1, <1>11 DEF CheckData, Handler
  <2> QED BY <1>5, <1>11, <2>1 DEF CheckData
<1>12. CASE Respond(r)
  <2>1. req'[r] = IdleRequest /\ \A k \in Request \ {r} : req'[k] = req[k]
    BY <1>1, <1>12 DEF Respond
  <2>2. req[r].best = NoNode
    BY <1>12 DEF Respond, ChoiceInv
  <2> QED BY <1>2, <1>4, <2>1, <2>2
<1>13. ASSUME NEW n \in Node, MergeScore(r, n) PROVE ChoiceInv' /\ SameChoices
  <2>1. req[r].stage = "merge"
    BY <1>13, SentinelAssumption DEF MergeScore, IInv, TypeOK
  <2>2. req'[r].best = req[r].best /\ \A k \in Request \ {r} : req'[k] = req[k]
    BY <1>1, <1>13 DEF MergeScore, Handler
  <2> QED BY <1>5, <2>1, <2>2
<1>14. ASSUME NEW n \in Node, FilterNode(r, n) PROVE ChoiceInv' /\ SameChoices
  <2>1. req'[r].best = req[r].best /\ \A k \in Request \ {r} : req'[k] = req[k]
    BY <1>1, <1>14 DEF FilterNode, Handler
  <2> QED BY <1>5, <1>14, <2>1 DEF FilterNode
<1> QED BY <1>6, <1>7, <1>8, <1>9, <1>10, <1>11, <1>12, <1>13, <1>14 DEF OtherStep

\* What the scoring of a node does to the choices.
LEMMA ScoringChooses ==
  ASSUME IInv, ChoiceInv, NEW r \in Request, NEW n \in Node, ScoreOne(r, n)
  PROVE  /\ ChoiceInv'
         /\ \A k \in Request \ {r} : req'[k] = req[k]
         /\ req'[r].best = req[r].best \/ (req'[r].best = n /\ scores[n] # NoScore)
<1>1. req \in [Request -> Handler] /\ req[r] \in Handler
  BY DEF IInv, TypeOK
<1> DEFINE score == ScoreNode(n, req[r].norm)
<1>2. req' = [req EXCEPT
          ![r].left = @ \ {n},
          ![r].best = IF score > req[r].bestScore THEN n ELSE @,
          ![r].bestScore = IF score > @ THEN score ELSE @]
  BY DEF ScoreOne
<1>3. score \in 0..100 /\ (score > 0 => scores[n] # NoScore)
  BY <1>1, ScoreRange DEF IInv, TypeOK, Handler
<1> HIDE DEF score
<1>4. /\ \A k \in Request \ {r} : req'[k] = req[k]
      /\ req'[r].stage = "score"
      /\ req'[r].best = IF score > req[r].bestScore THEN n ELSE req[r].best
  BY <1>1, <1>2 DEF ScoreOne, Handler
<1>5. ChoiceInv'
  BY <1>4 DEF ChoiceInv
<1>6. score > req[r].bestScore => score > 0
  BY <1>1, <1>3 DEF Handler
<1> QED BY <1>3, <1>4, <1>5, <1>6

LEMMA ChargeEndsChoice ==
  ASSUME IInv, ChoiceInv, NEW r \in Request, ApplyPenalty(r)
  PROVE  /\ ChoiceInv'
         /\ \A k \in Request \ {r} : req'[k] = req[k]
         /\ req'[r].best = NoNode
<1>1. req' = [req EXCEPT ![r] = IdleRequest] /\ req \in [Request -> Handler]
  BY DEF ApplyPenalty, IInv, TypeOK
<1> QED BY <1>1, IdleTyped DEF ChoiceInv

LEMMA ChoiceStep == IInv /\ ChoiceInv /\ [Next]_vars => ChoiceInv'
<1> SUFFICES ASSUME IInv, ChoiceInv, [Next]_vars PROVE ChoiceInv'
  OBVIOUS
<1>1. CASE Warmup \/ UNCHANGED vars \/ \E n \in Node : Expire(n)
  <2>1. UNCHANGED req
    BY <1>1 DEF Warmup, vars, Expire
  <2> QED BY <2>1 DEF ChoiceInv
<1>2. CASE Crash
  BY <1>2, IdleTyped DEF Crash, ChoiceInv
<1>3. ASSUME NEW r \in Request, Start(r) \/ Locking(r) \/ Handling(r) PROVE ChoiceInv'
  BY <1>3, OtherStepsKeepChoices, ScoringChooses, ChargeEndsChoice DEF OtherStep, Locking, Handling
<1> QED BY <1>1, <1>2, <1>3 DEF Next

LEMMA LedgerReads ==
  ASSUME IInv, NEW n \in Node
  PROVE  /\ LedgerOffer(scores, n) \in Nat \union {NoScore}
         /\ LedgerOffer(scores, n) = NoScore <=> scores[n] = NoScore
BY SentinelAssumption DEF LedgerOffer, IInv, TypeOK, Score

\* A step that keeps the recent penalties, the scores of their nodes and the
\* choices is the ledger's Hear.
LEMMA HearStep ==
  ASSUME IInv, IInv', SameChoices,
         \A n \in Node : Fresh(n)' <=> Fresh(n),
         \A n \in Node : scores[n] # NoScore => scores'[n] # NoScore,
         \A n \in Node : Fresh(n) => LedgerOffer(scores', n) = LedgerOffer(scores, n)
  PROVE  Ledger!Hear
<1>1. \A n \in Node : LedgerOffer(scores', n) \in Nat \union {NoScore}
  BY SentinelAssumption DEF LedgerOffer, IInv, TypeOK, Score
<1>2. \A n \in Node : LedgerOffer(scores, n) # NoScore => LedgerOffer(scores', n) # NoScore
  BY SentinelAssumption DEF LedgerOffer, IInv, TypeOK, Score
<1>3. {n \in Node : Fresh(n)}' = {n \in Node : Fresh(n)}
  OBVIOUS
<1>4. [r \in Request |-> req'[r].best] = [r \in Request |-> req[r].best]
  BY DEF SameChoices
<1> QED BY <1>1, <1>2, <1>3, <1>4 DEF Ledger!Hear, Ledger!Cpu, LedgerOffer

\* A merge of one node is the ledger's Hear.
LEMMA MergeHears ==
  ASSUME IInv, IInv', SameChoices, NEW r \in Request, NEW k \in Node, MergeScore(r, k)
  PROVE  Ledger!Hear
<1>1. req[r].got[k] \in Score /\ \A n \in Node \ {k} : scores'[n] = scores[n] /\ penalized'[n] = penalized[n]
  BY SentinelAssumption DEF MergeScore, IInv, TypeOK, Handler
<1>2. Fresh(k)' <=> Fresh(k)
  BY DEF MergeScore, Fresh, IInv, TypeOK
<1>3. \A n \in Node : Fresh(n)' <=> Fresh(n)
  BY <1>1, <1>2 DEF Fresh
<1>4. Fresh(k) => penalized[k].cpu \in Nat
  BY DEF Fresh, IInv, TypeOK, Charge
<1>5. scores'[k] \in Score /\ scores'[k] # NoScore
  BY <1>1, <1>4, SentinelAssumption DEF MergeScore, Score, IInv, TypeOK
<1>6. Fresh(k) => LedgerOffer(scores', k) = LedgerOffer(scores, k)
  <2> SUFFICES ASSUME Fresh(k) PROVE scores'[k].cpu = scores[k].cpu /\ scores[k] # NoScore
    BY <1>5 DEF LedgerOffer
  <2>1. Fresh(k)' /\ penalized'[k].cpu = penalized[k].cpu
    BY <1>2 DEF MergeScore, IInv, TypeOK
  <2> QED BY <2>1 DEF IInv, PenaltyInForce
<1> QED BY <1>1, <1>3, <1>5, <1>6, HearStep DEF LedgerOffer

\* Charging the chosen node is the ledger's Place.
LEMMA ChargePlaces ==
  ASSUME IInv, ChoiceInv, NEW r \in Request, ApplyPenalty(r)
  PROVE  Ledger!Place(r)
<1>0. PICK n \in Node : n = req[r].best
  BY DEF ApplyPenalty, IInv, TypeOK, Handler
<1> DEFINE cpu == ApplyCPUPenalty(n, scores[n].cpu)
<1>1. n \in Node /\ scores[n] \in Score /\ scores[n] # NoScore
  BY <1>0 DEF ApplyPenalty, IInv, TypeOK, Handler, ChosenNodeIsCached
<1>2. /\ scores' = [scores EXCEPT ![n].cpu = cpu]
      /\ penalized' = [penalized EXCEPT ![n] = [cpu |-> cpu, fresh |-> TRUE]]
  BY <1>0, <1>1 DEF ApplyPenalty
<1>3. cpu \in Nat /\ cpu = IF scores[n].cpu > Penalty[n] THEN scores[n].cpu - Penalty[n] ELSE 0
  BY <1>1, ScoringAssumption DEF ApplyCPUPenalty, Score
<1> HIDE DEF cpu
<1>4. scores'[n] \in Score /\ scores'[n].cpu = cpu /\ scores'[n] # NoScore
  BY <1>1, <1>2, <1>3, SentinelAssumption DEF IInv, TypeOK, Score
<1>5. \A k \in Node \ {n} : scores'[k] = scores[k] /\ penalized'[k] = penalized[k]
  BY <1>2 DEF IInv, TypeOK
<1>6. penalized'[n] # NoPenalty /\ penalized'[n].fresh
  <2>1. penalized'[n] = [cpu |-> cpu, fresh |-> TRUE]
    BY <1>1, <1>2 DEF IInv, TypeOK
  <2>2. [cpu |-> cpu, fresh |-> TRUE] \in Charge
    BY <1>3 DEF Charge
  <2>3. penalized'[n] # NoPenalty
    BY <2>1, <2>2, SentinelAssumption
  <2>4. penalized'[n].fresh
    BY <2>1
  <2> QED BY <2>3, <2>4
<1>7. {k \in Node : Fresh(k)}' = {k \in Node : Fresh(k)} \union {n}
  BY <1>1, <1>5, <1>6 DEF Fresh
<1> DEFINE o == [k \in Node |-> IF scores[k] = NoScore THEN NoScore ELSE scores[k].cpu]
           p == [k \in Node |-> IF scores'[k] = NoScore THEN NoScore ELSE scores'[k].cpu]
<1>8. o[n] = scores[n].cpu /\ o[n] # NoScore
  BY <1>1, SentinelAssumption DEF Score
<1>9. p = [o EXCEPT ![n] = IF @ > Penalty[n] THEN @ - Penalty[n] ELSE 0]
  <2>1. p[n] = IF o[n] > Penalty[n] THEN o[n] - Penalty[n] ELSE 0
    BY <1>1, <1>3, <1>4, <1>8
  <2>2. \A k \in Node \ {n} : p[k] = o[k]
    BY <1>5
  <2> QED BY <1>1, <2>1, <2>2
<1> DEFINE c == [k \in Request |-> req[k].best]
<1>10. c[r] = n /\ n # NoNode /\ [k \in Request |-> req'[k].best] = [c EXCEPT ![r] = NoNode]
  BY <1>0, <1>1, ChargeEndsChoice, SentinelAssumption
<1> QED BY <1>7, <1>9, <1>10 DEF Ledger!Place

LEMMA LedgerStep == IInv /\ IInv' /\ ChoiceInv /\ [Next]_vars => [Ledger!Next]_(Ledger!ledger)
<1> SUFFICES ASSUME IInv, IInv', ChoiceInv, [Next]_vars
             PROVE  Ledger!Next \/ UNCHANGED Ledger!ledger
  OBVIOUS
<1>1. ASSUME UNCHANGED <<scores, penalized>>, SameChoices PROVE UNCHANGED Ledger!ledger
  <2>1. [r \in Request |-> req'[r].best] = [r \in Request |-> req[r].best]
    BY <1>1 DEF SameChoices
  <2> QED BY <1>1, <2>1 DEF Ledger!ledger, Fresh
<1>2. CASE Warmup
  <2>1. \A n \in Node : scores[n] = NoScore /\ ~Fresh(n) /\ ~Fresh(n)'
    BY <1>2 DEF Warmup, IInv, QuietWarmup, NothingFetched, Fresh
  <2>2. SameChoices
    BY <1>2 DEF Warmup, SameChoices
  <2> QED BY <2>1, <2>2, HearStep DEF Ledger!Next
<1>3. CASE Crash
  <2>1. \A n \in Node : scores'[n] = NoScore /\ ~Fresh(n)'
    BY <1>3 DEF Crash, NothingFetched, Fresh
  <2>2. \A r \in Request : req'[r].best = NoNode
    BY <1>3, IdleTyped DEF Crash
  <2> QED BY <2>1, <2>2 DEF Ledger!Next, Ledger!Restart
<1>4. ASSUME NEW r \in Request, NEW n \in Node, ScoreOne(r, n)
      PROVE  Ledger!Next \/ UNCHANGED Ledger!ledger
  <2>1. UNCHANGED <<scores, penalized>>
    BY <1>4 DEF ScoreOne
  <2>2. CASE req'[r].best = req[r].best
    BY <1>1, <1>4, <2>1, <2>2, ScoringChooses DEF SameChoices
  <2>3. CASE req'[r].best = n /\ scores[n] # NoScore
    <3> DEFINE c == [k \in Request |-> req[k].best]
    <3>1. [k \in Request |-> req'[k].best] = [c EXCEPT ![r] = n]
      BY <1>4, <2>3, ScoringChooses
    <3>2. LedgerOffer(scores, n) # NoScore
      BY <2>3, LedgerReads
    <3>3. Ledger!Choose(r, n)
      BY <2>1, <3>1, <3>2 DEF Ledger!Choose, LedgerOffer, Fresh
    <3> QED BY <3>3 DEF Ledger!Next
  <2> QED BY <1>4, <2>2, <2>3, ScoringChooses
<1>5. ASSUME NEW r \in Request, NEW n \in Node, MergeScore(r, n)
      PROVE  Ledger!Next
  BY <1>5, MergeHears, OtherStepsKeepChoices DEF OtherStep, Ledger!Next
<1>6. ASSUME NEW r \in Request, Start(r) \/ Locking(r) \/ Handling(r)
      PROVE  Ledger!Next \/ UNCHANGED Ledger!ledger
  <2>1. CASE ApplyPenalty(r)
    BY <2>1, ChargePlaces DEF Ledger!Next
  <2>2. CASE \/ Start(r) \/ LockForMerge(r) \/ RefreshTraffic(r) \/ BeginLookup(r)
             \/ FetchScores(r) \/ RefreshFails(r) \/ EndMerge(r) \/ CheckData(r) \/ Respond(r)
             \/ \E n \in Node : FilterNode(r, n)
    <3>1. ASSUME Start(r) PROVE UNCHANGED <<scores, penalized>>
      BY <3>1 DEF Start
    <3>2. UNCHANGED <<scores, penalized>>
      BY <2>2, <3>1 DEF LockForMerge, RefreshTraffic, BeginLookup, FetchScores, RefreshFails,
                        EndMerge, CheckData, Respond, FilterNode
    <3> QED BY <1>1, <2>2, <3>2, OtherStepsKeepChoices DEF OtherStep
  <2> QED BY <1>4, <1>5, <1>6, <2>1, <2>2 DEF Locking, Handling
<1>7. ASSUME NEW n \in Node, Expire(n) PROVE Ledger!Settle(n)
  <2>1. penalized[n] \in Charge
    BY <1>7 DEF Expire, Fresh, IInv, TypeOK
  <2>2. ~Fresh(n)' /\ \A k \in Node \ {n} : penalized'[k] = penalized[k]
    BY <1>7, <2>1 DEF Expire, Fresh, IInv, TypeOK, Charge
  <2>3. {k \in Node : Fresh(k)}' = {k \in Node : Fresh(k)} \ {n}
    BY <2>2 DEF Fresh
  <2> QED BY <1>7, <2>3 DEF Expire, Ledger!Settle
<1>8. CASE UNCHANGED vars
  BY <1>1, <1>8 DEF vars, SameChoices
<1> QED BY <1>2, <1>3, <1>6, <1>7, <1>8 DEF Next, Ledger!Next

\* The extender implements the ledger for any number of nodes, of overlapping
\* requests and of scores: merges node by node, lookups without the lock and
\* penalties of different ages add up to one charge for each request that has
\* chosen a node (routes.go:86-105, score.go:37-101).
THEOREM ExtenderImplementsLedger == Spec => ImplementsLedger
<1>1. Init => Ledger!Init /\ ChoiceInv
  BY IdleTyped DEF Init, NothingFetched, Fresh, Ledger!Init, ChoiceInv
<1>2. IInv /\ IInv' /\ ChoiceInv /\ [Next]_vars => [Ledger!Next]_(Ledger!ledger)
  BY LedgerStep
<1>3. IInv /\ ChoiceInv /\ [Next]_vars => ChoiceInv'
  BY ChoiceStep
<1> QED BY <1>1, <1>2, <1>3, Invariance, PTL DEF Spec, ImplementsLedger, Ledger!Spec
=============================================================================
