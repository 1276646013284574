--------------------------- MODULE DeschedulerProofs ---------------------------
(***************************************************************************)
(* What holds of the descheduler for any number of loops, nodes, pods,     *)
(* policies and changes of them: which loop runs, what it may evict, how   *)
(* often, and what becomes of the requests it has sent.                    *)
(***************************************************************************)
EXTENDS Descheduler, SequenceTheorems, FiniteSetTheorems, TLAPS

\* What the handler makes of an object's numbers.
Converted(spec) ==
  [intervalSeconds |-> NestedInt64(spec.intervalSeconds),
   idleCPUThreshold |-> NestedInt64(spec.idleCPUThreshold)]

\* What runs is what the object says, or the informer still holds the object's
\* last spec.
Followed ==
  object \in Specs =>
    IF events = << >> THEN isRunning = object.enabled /\ policy = Converted(object)
    ELSE events[Len(events)] = object

IInv == TypeOK /\ OneLoop /\ Followed
-----------------------------------------------------------------------------
LEMMA NoLoopTyped == NoLoop \in Goroutine /\ NoLoop.stage = "off"
  BY DEF NoLoop, Goroutine

\* The last element of a queue after an event is added or taken.
LEMMA AppendLast ==
  ASSUME events \in Seq(Specs \union {NoSpec}), NEW spec \in Specs \union {NoSpec}
  PROVE  /\ Append(events, spec) \in Seq(Specs \union {NoSpec}) /\ Append(events, spec) # << >>
         /\ Append(events, spec)[Len(Append(events, spec))] = spec
  OBVIOUS

LEMMA TailLast ==
  ASSUME events \in Seq(Specs \union {NoSpec}), events # << >>
  PROVE  /\ Head(events) \in Specs \union {NoSpec}
         /\ Tail(events) \in Seq(Specs \union {NoSpec})
         /\ Tail(events) = << >> => Head(events) = events[Len(events)]
         /\ Tail(events) # << >> => Tail(events)[Len(Tail(events))] = events[Len(events)]
<1> DEFINE tail == Tail(events)
           n == Len(events)
           m == Len(tail)
<1>1. n \in Nat /\ n > 0
  BY EmptySeq, LenProperties
<1>2. /\ Head(events) \in Specs \union {NoSpec} /\ tail \in Seq(Specs \union {NoSpec}) /\ m = n - 1
      /\ \A i \in 1..m : tail[i] = events[i + 1]
  BY HeadTailProperties
<1>3. Head(events) = events[1]
  OBVIOUS
<1>4. tail = << >> <=> m = 0
  BY <1>2, EmptySeq
<1> HIDE DEF tail, n, m
<1>5. tail = << >> => n = 1
  BY <1>1, <1>2, <1>4
<1>6. tail # << >> => m \in 1..m /\ m + 1 = n
  BY <1>1, <1>2, <1>4
<1>7. tail # << >> => tail[m] = events[n]
  BY <1>2, <1>6
<1> QED BY <1>2, <1>3, <1>5, <1>7 DEF tail, n, m

LEMMA InitIInv == Init => IInv
<1> SUFFICES ASSUME Init PROVE IInv
  OBVIOUS
<1>1. TypeOK
  <2>1. events \in Seq(Specs \union {NoSpec}) /\ policy \in [intervalSeconds : Int, idleCPUThreshold : Int]
    BY EmptySeq DEF Init, Started, NoPolicy
  <2>2. loops \in [Loop -> Goroutine] /\ \A l \in Loop : loops[l].stage = "off"
    BY NoLoopTyped DEF Init, Started
  <2>3. {changes, shifts, sent, evictions, crashes} \subseteq Nat /\ requests = {}
    BY DEF Init
  <2> QED BY <2>1, <2>2, <2>3 DEF Init, Started, TypeOK, InCycle
<1>2. OneLoop
  BY NoLoopTyped DEF Init, Started, OneLoop, Live
<1>3. Followed
  BY ClusterAssumption DEF Init, Followed
<1> QED BY <1>1, <1>2, <1>3 DEF IInv

\* A step of a loop, which neither starts, cancels nor ends it.
LEMMA LoopStep ==
  ASSUME IInv, NEW l \in Loop, NEW g \in Goroutine,
         loops[l].stage # "off",
         loops' = [loops EXCEPT ![l] = g],
         g.stage # "off", g.cancelled = loops[l].cancelled,
         g.stage \in InCycle => g.top \in Node,
         g.stage \in {"list", "evict"} => g.worst \in Node,
         g.stage = "evict" => g.target \in Pod,
         UNCHANGED <<clusterVars, controller, crashes>>,
         prevTopNode' \in Node \union {NoNode},
         where' \in [Pod -> Node], sent' \in Nat, evictions' \in Nat,
         requests' \subseteq [id : 1..sent', target : Pod]
  PROVE  IInv'
<1> USE DEF clusterVars, controller
<1>1. \A k \in Loop : loops'[k] = IF k = l THEN g ELSE loops[k]
  BY DEF IInv, TypeOK
<1>2. TypeOK'
  BY <1>1 DEF IInv, TypeOK
<1>3. \A k \in Loop : Live(k)' <=> Live(k)
  BY <1>1 DEF Live
<1>4. OneLoop'
  BY <1>3 DEF IInv, OneLoop
<1>5. Followed'
  BY DEF IInv, Followed
<1> QED BY <1>2, <1>4, <1>5 DEF IInv

LEMMA CycleKeeps ==
  ASSUME IInv, NEW l \in Loop, Cycle(l), ~TickerPanics(l)
  PROVE  IInv'
<1> USE DEF InCycle, serverVars
<1>1. /\ loops[l] \in Goroutine /\ loops \in [Loop -> Goroutine]
      /\ prevTopNode \in Node \union {NoNode} /\ topNode \in Node \union {NoNode}
      /\ where \in [Pod -> Node] /\ sent \in Nat /\ evictions \in Nat
      /\ requests \subseteq [id : 1..sent, target : Pod]
      /\ loops[l].stage \in InCycle => loops[l].top \in Node
      /\ loops[l].stage \in {"list", "evict"} => loops[l].worst \in Node
      /\ loops[l].stage = "evict" => loops[l].target \in Pod
  BY DEF IInv, TypeOK
<1>2. /\ Waiting(l) \in Goroutine /\ Waiting(l).stage = "select"
      /\ Waiting(l).cancelled = loops[l].cancelled
  BY <1>1 DEF Waiting, NoLoop, Goroutine
<1>3. CASE NewTicker(l)
  <2> DEFINE g == [loops[l] EXCEPT !.stage = "select"]
  <2>1. g \in Goroutine /\ g.stage = "select" /\ g.cancelled = loops[l].cancelled
    BY <1>1 DEF Goroutine
  <2>2. loops' = [loops EXCEPT ![l] = g] /\ loops[l].stage # "off"
    BY <1>1, <1>3 DEF NewTicker, Goes
  <2>3. UNCHANGED <<clusterVars, controller, prevTopNode, serverVars, crashes>>
    BY <1>3 DEF NewTicker, Goes
  <2> HIDE DEF g
  <2> QED BY <1>1, <2>1, <2>2, <2>3, LoopStep
<1>4. CASE NothingToDo(l) \/ FetchFails(l)
  <2>1. loops' = [loops EXCEPT ![l] = Waiting(l)] /\ loops[l].stage # "off"
    BY <1>4 DEF NothingToDo, FetchFails, EndCycle
  <2>2. UNCHANGED <<clusterVars, controller, prevTopNode, serverVars, crashes>>
    BY <1>4 DEF NothingToDo, FetchFails, EndCycle
  <2> QED BY <1>1, <1>2, <2>1, <2>2, LoopStep
<1>5. CASE RecordFirst(l)
  <2>1. /\ loops' = [loops EXCEPT ![l] = Waiting(l)] /\ loops[l].stage # "off"
        /\ prevTopNode' = topNode
        /\ UNCHANGED <<clusterVars, controller, serverVars, crashes>>
    BY <1>5 DEF RecordFirst
  <2> QED BY <1>1, <1>2, <2>1, LoopStep
<1>6. CASE DetectShift(l)
  <2> DEFINE g == [loops[l] EXCEPT !.stage = "fetch", !.top = topNode]
  <2>1. /\ g \in Goroutine /\ g.stage = "fetch" /\ g.cancelled = loops[l].cancelled
        /\ g.top = topNode /\ topNode \in Node
    BY <1>1, <1>6 DEF Goroutine, DetectShift
  <2>2. loops' = [loops EXCEPT ![l] = g] /\ loops[l].stage # "off"
    BY <1>1, <1>6 DEF DetectShift
  <2>3. UNCHANGED <<clusterVars, controller, prevTopNode, serverVars, crashes>>
    BY <1>6 DEF DetectShift
  <2> HIDE DEF g
  <2> QED BY <1>1, <2>1, <2>2, <2>3, LoopStep
<1>7. CASE PickWorst(l)
  <2>1. PICK n \in Node : loops' = [loops EXCEPT ![l].stage = "list", ![l].worst = n]
    BY <1>7 DEF PickWorst
  <2> DEFINE g == [loops[l] EXCEPT !.stage = "list", !.worst = n]
  <2>2. loops[l].stage = "fetch" /\ UNCHANGED <<clusterVars, controller, prevTopNode, serverVars, crashes>>
    BY <1>7 DEF PickWorst
  <2>3. /\ g \in Goroutine /\ g.stage = "list" /\ g.cancelled = loops[l].cancelled
        /\ g.top = loops[l].top /\ g.worst = n
    BY <1>1 DEF Goroutine
  <2>4. loops' = [loops EXCEPT ![l] = g]
    BY <1>1, <2>1
  <2> HIDE DEF g
  <2> QED BY <1>1, <2>2, <2>3, <2>4, LoopStep
<1>8. CASE PickIdlePod(l)
  <2>1. PICK p \in Pod : loops' = [loops EXCEPT ![l].stage = "evict", ![l].target = p]
    BY <1>8 DEF PickIdlePod, Idle
  <2> DEFINE g == [loops[l] EXCEPT !.stage = "evict", !.target = p]
  <2>2. loops[l].stage = "list" /\ UNCHANGED <<clusterVars, controller, prevTopNode, serverVars, crashes>>
    BY <1>8 DEF PickIdlePod
  <2>3. /\ g \in Goroutine /\ g.stage = "evict" /\ g.cancelled = loops[l].cancelled
        /\ g.top = loops[l].top /\ g.worst = loops[l].worst /\ g.target = p
    BY <1>1 DEF Goroutine
  <2>4. loops' = [loops EXCEPT ![l] = g]
    BY <1>1, <2>1
  <2> HIDE DEF g
  <2> QED BY <1>1, <2>2, <2>3, <2>4, LoopStep
<1>9. CASE NoIdlePod(l)
  <2> DEFINE g == [loops[l] EXCEPT !.stage = "record"]
  <2>1. /\ g \in Goroutine /\ g.stage = "record" /\ g.cancelled = loops[l].cancelled
        /\ g.top = loops[l].top
    BY <1>1 DEF Goroutine
  <2>2. loops' = [loops EXCEPT ![l] = g] /\ loops[l].stage = "list"
    BY <1>1, <1>9 DEF NoIdlePod, Goes
  <2>3. UNCHANGED <<clusterVars, controller, prevTopNode, serverVars, crashes>>
    BY <1>9 DEF NoIdlePod, Goes
  <2> HIDE DEF g
  <2> QED BY <1>1, <2>1, <2>2, <2>3, LoopStep
<1>10. CASE SendEviction(l)
  <2> DEFINE g == [loops[l] EXCEPT !.stage = "answer", !.target = NoPod, !.call = sent + 1]
             r == [id |-> sent + 1, target |-> loops[l].target]
  <2>1. sent + 1 \in Nat /\ sent + 1 \in 1..(sent + 1)
    BY <1>1
  <2>2. /\ g \in Goroutine /\ g.stage = "answer" /\ g.cancelled = loops[l].cancelled
        /\ g.top = loops[l].top
    BY <1>1, <2>1 DEF Goroutine
  <2>3. /\ loops' = [loops EXCEPT ![l] = g] /\ loops[l].stage = "evict"
        /\ requests' = requests \union {r} /\ sent' = sent + 1
    BY <1>1, <1>10 DEF SendEviction
  <2>4. UNCHANGED <<clusterVars, controller, prevTopNode, where, evictions, crashes>>
    BY <1>10 DEF SendEviction
  <2>5. requests' \subseteq [id : 1..sent', target : Pod]
    <3>1. loops[l].target \in Pod
      BY <1>1, <2>3
    <3>2. r \in [id : 1..(sent + 1), target : Pod]
      BY <2>1, <3>1
    <3>3. \A i \in 1..sent : i \in 1..(sent + 1)
      BY <1>1
    <3>4. requests \subseteq [id : 1..(sent + 1), target : Pod]
      BY <1>1, <3>3
    <3> HIDE DEF r
    <3> QED BY <2>3, <3>2, <3>4
  <2> HIDE DEF g, r
  <2> QED BY <1>1, <2>1, <2>2, <2>3, <2>4, <2>5, LoopStep
<1>11. CASE SendFails(l) \/ CallReturns(l)
  <2> DEFINE g == [loops[l] EXCEPT !.stage = "record", !.target = loops'[l].target, !.call = loops'[l].call]
  <2>1. /\ loops[l].stage \in {"evict", "answer"}
        /\ loops'[l].target \in Pod \union {NoPod} /\ loops'[l].call \in Nat
        /\ loops' = [loops EXCEPT ![l] = g]
    <3>1. CASE SendFails(l)
      BY <1>1, <3>1 DEF SendFails, Goroutine
    <3>2. CASE CallReturns(l)
      BY <1>1, <3>2 DEF CallReturns, Goroutine
    <3> QED BY <1>11, <3>1, <3>2
  <2>2. /\ g \in Goroutine /\ g.stage = "record" /\ g.cancelled = loops[l].cancelled
        /\ g.top = loops[l].top
    BY <1>1, <2>1 DEF Goroutine
  <2>3. UNCHANGED <<clusterVars, controller, prevTopNode, serverVars, crashes>>
    BY <1>11 DEF SendFails, CallReturns
  <2> HIDE DEF g
  <2> QED BY <1>1, <2>1, <2>2, <2>3, LoopStep
<1>12. CASE RecordTop(l)
  <2>1. /\ loops' = [loops EXCEPT ![l] = Waiting(l)] /\ loops[l].stage = "record"
        /\ prevTopNode' = loops[l].top
        /\ UNCHANGED <<clusterVars, controller, serverVars, crashes>>
    BY <1>12 DEF RecordTop
  <2> QED BY <1>1, <1>2, <2>1, LoopStep
<1> QED
  BY <1>3, <1>4, <1>5, <1>6, <1>7, <1>8, <1>9, <1>10, <1>11, <1>12 DEF Cycle

\* What becomes of a request.
LEMMA ServerKeeps ==
  ASSUME IInv, NEW r \in requests, Evict(r) \/ EvictionFails(r)
  PROVE  IInv'
<1>1. r \in [id : 1..sent, target : Pod] /\ where \in [Pod -> Node] /\ evictions \in Nat
  BY DEF IInv, TypeOK
<1>2. /\ UNCHANGED <<clusterVars, controller, loops, prevTopNode, sent, crashes>>
      /\ requests' = requests \ {r}
  BY DEF Evict, EvictionFails
<1>3. where' \in [Pod -> Node] /\ evictions' \in Nat
  BY <1>1 DEF Evict, EvictionFails
<1>4. TypeOK'
  BY <1>2, <1>3 DEF clusterVars, controller, IInv, TypeOK
<1>5. OneLoop' /\ Followed'
  BY <1>2 DEF clusterVars, controller, IInv, OneLoop, Live, Followed
<1> QED BY <1>4, <1>5 DEF IInv

\* The select of a loop: on to a cycle, or the end.
LEMMA SelectKeeps ==
  ASSUME IInv, NEW l \in Loop, TickLoop(l) \/ StopLoop(l)
  PROVE  IInv'
<1>1. /\ loops[l] \in Goroutine /\ loops \in [Loop -> Goroutine]
      /\ prevTopNode \in Node \union {NoNode} /\ where \in [Pod -> Node]
      /\ sent \in Nat /\ evictions \in Nat /\ requests \subseteq [id : 1..sent, target : Pod]
  BY DEF IInv, TypeOK
<1>2. CASE TickLoop(l)
  <2> DEFINE g == [loops[l] EXCEPT !.stage = "query"]
  <2>1. g \in Goroutine /\ g.stage = "query" /\ g.cancelled = loops[l].cancelled
    BY <1>1 DEF Goroutine
  <2>2. loops' = [loops EXCEPT ![l] = g] /\ loops[l].stage # "off"
    BY <1>1, <1>2 DEF TickLoop, Goes
  <2>3. UNCHANGED <<clusterVars, controller, prevTopNode, serverVars, crashes>>
    BY <1>2 DEF TickLoop, Goes
  <2> HIDE DEF g
  <2> QED BY <1>1, <2>1, <2>2, <2>3, LoopStep DEF InCycle, serverVars
<1>3. CASE StopLoop(l)
  <2>1. \A k \in Loop : loops'[k] = IF k = l THEN NoLoop ELSE loops[k]
    BY <1>1, <1>3 DEF StopLoop
  <2>2. \A k \in Loop : Live(k)' <=> Live(k)
    BY <1>3, <2>1, NoLoopTyped DEF Live, StopLoop
  <2>3. TypeOK'
    BY <1>3, <2>1, NoLoopTyped DEF StopLoop, clusterVars, controller, serverVars, IInv, TypeOK, InCycle
  <2> QED BY <1>3, <2>2, <2>3 DEF StopLoop, clusterVars, controller, serverVars, IInv, OneLoop, Followed
<1> QED BY <1>2, <1>3

\* Changes of the policy object and of the traffic.
LEMMA ClusterKeeps ==
  ASSUME IInv,
         \/ \E spec \in Specs \union {NoSpec} : ApplyPolicy(spec)
         \/ DeletePolicy \/ Resync
         \/ \E n \in Node : Shift(n)
  PROVE  IInv'
<1>1. /\ object \in Specs \union {NoSpec, Absent} /\ events \in Seq(Specs \union {NoSpec})
      /\ Absent \notin Specs
  BY ClusterAssumption DEF IInv, TypeOK
<1>2. CASE \E spec \in Specs \union {NoSpec} : ApplyPolicy(spec)
  <2>1. PICK spec \in Specs \union {NoSpec} : ApplyPolicy(spec)
    BY <1>2
  <2>2. /\ events' \in Seq(Specs \union {NoSpec}) /\ events' # << >> /\ events'[Len(events')] = spec
        /\ object' = spec
    BY <1>1, <2>1, AppendLast DEF ApplyPolicy
  <2>3. TypeOK'
    BY <2>1, <2>2 DEF ApplyPolicy, serverVars, IInv, TypeOK
  <2>4. OneLoop'
    BY <2>1 DEF ApplyPolicy, IInv, OneLoop, Live
  <2> QED BY <2>2, <2>3, <2>4 DEF IInv, Followed
<1>3. CASE DeletePolicy
  <2>1. events' \in Seq(Specs \union {NoSpec}) /\ object' = Absent
    BY <1>1, <1>3, AppendLast DEF DeletePolicy
  <2>2. TypeOK'
    BY <1>3, <2>1 DEF DeletePolicy, serverVars, IInv, TypeOK
  <2> QED BY <1>1, <1>3, <2>1, <2>2 DEF DeletePolicy, IInv, OneLoop, Live, Followed
<1>4. CASE Resync
  <2>1. /\ events' = <<object>> /\ object \in Specs \union {NoSpec} /\ object' = object
    BY <1>1, <1>4 DEF Resync, clusterVars
  <2>2. events' \in Seq(Specs \union {NoSpec}) /\ events' # << >> /\ events'[Len(events')] = object'
    BY <2>1
  <2>3. TypeOK'
    BY <1>4, <2>2 DEF Resync, clusterVars, serverVars, IInv, TypeOK
  <2> QED BY <1>4, <2>2, <2>3 DEF Resync, IInv, OneLoop, Live, Followed
<1>5. CASE \E n \in Node : Shift(n)
  <2>1. TypeOK'
    BY <1>5 DEF Shift, controller, serverVars, IInv, TypeOK
  <2> QED BY <1>5, <2>1 DEF Shift, controller, IInv, OneLoop, Live, Followed
<1> QED BY <1>2, <1>3, <1>4, <1>5

\* The handler of the informer's events, for an object with a spec.
LEMMA HandlerKeeps ==
  ASSUME IInv, HandlePolicyEvent, Head(events) # NoSpec
  PROVE  IInv'
<1> DEFINE spec == Head(events)
<1>1. /\ events \in Seq(Specs \union {NoSpec}) /\ events # << >> /\ events' = Tail(events)
      /\ loops \in [Loop -> Goroutine] /\ isRunning \in BOOLEAN
      /\ OneLoop
  BY DEF HandlePolicyEvent, IInv, TypeOK
<1>2. spec \in Specs /\ spec.enabled \in BOOLEAN /\ Converted(spec) \in [intervalSeconds : Int, idleCPUThreshold : Int]
  BY <1>1, TailLast, PolicyAssumption DEF Converted, NestedInt64
<1>3. /\ policy' = Converted(spec) /\ Switch(spec.enabled)
      /\ UNCHANGED <<object, changes, topNode, shifts, prevTopNode, requests, where, sent, evictions, crashes>>
  BY DEF HandlePolicyEvent, SetPolicy, Converted, clusterVars, serverVars
<1>4. /\ isRunning' = spec.enabled /\ OneLoop' /\ loops' \in [Loop -> Goroutine]
      /\ current' \in Loop \union {"none"}
      /\ \A k \in Loop : /\ loops'[k].stage \in {loops[k].stage, "start"}
                         /\ loops'[k].top = loops[k].top \/ loops'[k].stage = "start"
                         /\ loops'[k].worst = loops[k].worst \/ loops'[k].stage = "start"
                         /\ loops'[k].target = loops[k].target \/ loops'[k].stage = "start"
  <2> HIDE DEF spec
  <2>1. CASE spec.enabled /\ StartLoop
    <3>1. PICK l \in Loop : /\ loops[l].stage = "off" /\ current' = l
                            /\ loops' = [loops EXCEPT ![l] = [NoLoop EXCEPT !.stage = "start"]]
      BY <2>1 DEF StartLoop
    <3> DEFINE g == [NoLoop EXCEPT !.stage = "start"]
    <3>2. g \in Goroutine /\ g.stage = "start" /\ g.cancelled = FALSE
      BY DEF NoLoop, Goroutine
    <3>3. \A k \in Loop : loops'[k] = IF k = l THEN g ELSE loops[k]
      BY <1>1, <3>1
    <3> HIDE DEF g
    <3>4. ~isRunning /\ isRunning' = TRUE
      BY <2>1 DEF StartLoop
    <3>5. \A k \in Loop : ~Live(k)
      BY <1>1, <3>4 DEF OneLoop
    <3>6. \A k \in Loop : Live(k)' <=> k = l
      BY <3>2, <3>3, <3>5 DEF Live
    <3>7. OneLoop'
      BY <3>1, <3>4, <3>6 DEF OneLoop
    <3>8. loops' \in [Loop -> Goroutine]
      BY <1>1, <3>1, <3>2 DEF g
    <3> QED BY <1>2, <2>1, <3>1, <3>2, <3>3, <3>4, <3>7, <3>8
  <2>2. CASE ~spec.enabled /\ CancelLoop
    <3>1. isRunning /\ isRunning' = FALSE /\ current' = current
          /\ loops' = [loops EXCEPT ![current].cancelled = TRUE]
      BY <2>2 DEF CancelLoop
    <3>2. current \in Loop /\ \A k \in Loop : Live(k) <=> k = current
      BY <1>1, <3>1 DEF OneLoop
    <3> DEFINE g == [loops[current] EXCEPT !.cancelled = TRUE]
    <3>3. /\ g \in Goroutine /\ g.cancelled = TRUE /\ g.stage = loops[current].stage
          /\ g.top = loops[current].top /\ g.worst = loops[current].worst
          /\ g.target = loops[current].target
      BY <1>1, <3>2 DEF Goroutine
    <3>4. \A k \in Loop : loops'[k] = IF k = current THEN g ELSE loops[k]
      BY <1>1, <3>1, <3>2
    <3> HIDE DEF g
    <3>5. \A k \in Loop : ~Live(k)'
      BY <3>2, <3>3, <3>4 DEF Live
    <3>6. OneLoop'
      BY <3>1, <3>5 DEF OneLoop
    <3>7. loops' \in [Loop -> Goroutine]
      BY <1>1, <3>1, <3>2, <3>3 DEF g
    <3> QED BY <1>2, <2>2, <3>1, <3>2, <3>3, <3>4, <3>6, <3>7
  <2>3. CASE spec.enabled = isRunning /\ UNCHANGED <<loops, isRunning, current>>
    BY <1>1, <2>3 DEF IInv, TypeOK, OneLoop, Live
  <2> QED BY <1>3, <2>1, <2>2, <2>3 DEF Switch
<1>5. TypeOK'
  <2>1. events' \in Seq(Specs \union {NoSpec}) /\ policy' \in [intervalSeconds : Int, idleCPUThreshold : Int]
    BY <1>1, <1>2, <1>3, TailLast
  <2>2. isRunning' \in BOOLEAN
    BY <1>2, <1>4
  <2> HIDE DEF spec
  <2>3. \A k \in Loop :
          /\ loops'[k].stage \in InCycle => loops'[k].top \in Node
          /\ loops'[k].stage \in {"list", "evict"} => loops'[k].worst \in Node
          /\ loops'[k].stage = "evict" => loops'[k].target \in Pod
    BY <1>4 DEF IInv, TypeOK, InCycle
  <2> QED BY <1>3, <1>4, <2>1, <2>2, <2>3 DEF IInv, TypeOK
<1>6. Followed'
  <2> SUFFICES ASSUME object' \in Specs
               PROVE IF events' = << >>
                     THEN isRunning' = object'.enabled /\ policy' = Converted(object')
                     ELSE events'[Len(events')] = object'
    BY DEF Followed, Converted
  <2>1. object' = object /\ events[Len(events)] = object
    BY <1>1, <1>3 DEF IInv, Followed
  <2>2. CASE events' = << >>
    <3>1. spec = object
      BY <1>1, <2>1, <2>2, TailLast
    <3> QED BY <1>3, <1>4, <2>1, <2>2, <3>1
  <2>3. CASE events' # << >>
    BY <1>1, <2>1, <2>3, TailLast
  <2> QED BY <2>2, <2>3
<1> QED BY <1>4, <1>5, <1>6 DEF IInv

LEMMA NoSpecKeeps ==
  ASSUME IInv, HandlePolicyEvent, Head(events) = NoSpec
  PROVE  IInv'
<1>1. /\ events \in Seq(Specs \union {NoSpec}) /\ events # << >> /\ events' = Tail(events)
      /\ UNCHANGED <<policy, loops, isRunning, current, object, changes, topNode, shifts,
                     prevTopNode, requests, where, sent, evictions, crashes>>
  BY DEF HandlePolicyEvent, clusterVars, serverVars, IInv, TypeOK
<1>2. /\ events' \in Seq(Specs \union {NoSpec})
      /\ events' = << >> => events[Len(events)] = NoSpec
      /\ events' # << >> => events'[Len(events')] = events[Len(events)]
  BY <1>1, TailLast
<1>3. TypeOK' /\ OneLoop'
  BY <1>1, <1>2 DEF IInv, TypeOK, OneLoop, Live
<1>4. object \in Specs => events[Len(events)] = object /\ object # NoSpec
  BY <1>1, ClusterAssumption DEF IInv, Followed
<1>5. Followed'
  BY <1>1, <1>2, <1>4 DEF Followed
<1> QED BY <1>3, <1>5 DEF IInv

\* The process starts again.
LEMMA RestartKeeps ==
  ASSUME IInv, Forgotten, crashes' \in Nat
  PROVE  IInv'
<1>1. \A l \in Loop : loops'[l] = NoLoop
  BY DEF Forgotten
<1>2. object' = object /\ events' = IF object = Absent THEN << >> ELSE <<object>>
  BY DEF Forgotten, clusterVars
<1>3. /\ events' \in Seq(Specs \union {NoSpec})
      /\ object' \in Specs => events' # << >> /\ events'[Len(events')] = object'
  <2>1. CASE object = Absent
    <3>1. events' = << >> /\ object' \notin Specs
      BY <1>2, <2>1, ClusterAssumption
    <3> QED BY <3>1, EmptySeq
  <2>2. CASE object # Absent
    <3>1. events' = <<object>> /\ object \in Specs \union {NoSpec}
      BY <1>2, <2>2 DEF IInv, TypeOK
    <3>2. /\ <<object>> \in Seq(Specs \union {NoSpec}) /\ <<object>> # << >>
          /\ <<object>>[Len(<<object>>)] = object
      BY <3>1
    <3> QED BY <1>2, <3>1, <3>2
  <2> QED BY <2>1, <2>2
<1>4. TypeOK'
  <2>1. /\ UNCHANGED <<object, changes, topNode, shifts, requests, where, sent, evictions>>
        /\ policy' = NoPolicy /\ isRunning' = FALSE /\ current' = "none" /\ prevTopNode' = NoNode
        /\ loops' = [l \in Loop |-> NoLoop]
    BY DEF Forgotten, clusterVars, serverVars
  <2>2. policy' \in [intervalSeconds : Int, idleCPUThreshold : Int]
    BY <2>1 DEF NoPolicy
  <2>3. loops' \in [Loop -> Goroutine]
    BY <2>1, NoLoopTyped
  <2> QED BY <1>1, <1>3, <2>1, <2>2, <2>3, NoLoopTyped DEF IInv, TypeOK, InCycle
<1>5. OneLoop'
  BY <1>1, NoLoopTyped DEF Forgotten, OneLoop, Live
<1>6. Followed'
  BY <1>3 DEF Followed
<1> QED BY <1>4, <1>5, <1>6 DEF IInv

LEMMA NextIInv == IInv /\ [Next]_vars => IInv'
<1> SUFFICES ASSUME IInv, [Next]_vars PROVE IInv'
  OBVIOUS
<1>1. crashes \in Nat
  BY DEF IInv, TypeOK
<1>2. CASE Restart
  <2>1. crashes' \in Nat
    BY <1>1, <1>2 DEF Restart
  <2> QED BY <1>2, <2>1, RestartKeeps DEF Restart
<1>3. ASSUME NEW l \in Loop, TickerPanics(l) PROVE IInv'
  BY <1>1, <1>3, RestartKeeps DEF TickerPanics
<1>4. ASSUME NEW l \in Loop, Cycle(l), ~TickerPanics(l) PROVE IInv'
  BY <1>4, CycleKeeps
<1>5. ASSUME NEW l \in Loop, StopLoop(l) \/ TickLoop(l) PROVE IInv'
  BY <1>5, SelectKeeps
<1>6. CASE HandlePolicyEvent
  BY <1>6, HandlerKeeps, NoSpecKeeps
<1>7. ASSUME NEW r \in requests, Evict(r) \/ EvictionFails(r) PROVE IInv'
  BY <1>7, ServerKeeps
<1>8. CASE (\E spec \in Specs \union {NoSpec} : ApplyPolicy(spec)) \/ DeletePolicy \/ Resync \/ (\E n \in Node : Shift(n))
  BY <1>8, ClusterKeeps
<1>9. CASE UNCHANGED vars
  BY <1>9 DEF vars, clusterVars, controller, serverVars, IInv, TypeOK, OneLoop, Live, Followed
<1> QED BY <1>2, <1>3, <1>4, <1>5, <1>6, <1>7, <1>8, <1>9 DEF Next
-----------------------------------------------------------------------------
\* The strengthened invariant holds for as long as the descheduler runs.
LEMMA Invariance == Spec => []IInv
<1>1. Init => IInv
  BY InitIInv
<1>2. IInv /\ [Next]_vars => IInv'
  BY NextIInv
<1> QED BY <1>1, <1>2, PTL DEF Spec

\* A loop that acts on a shift always knows the node it will record and the pod
\* it is about to evict (evaluate.go:44-107).
THEOREM DeschedulerTyping == Spec => []TypeOK
<1>1. IInv => TypeOK
  BY DEF IInv
<1> QED BY <1>1, Invariance, PTL

\* Whatever policies come and go, and however slowly cancelled loops end, one
\* loop is at work while isRunning is set, the one that cancelFunc stops, and
\* none otherwise (controller.go:93-109).
THEOREM AtMostOneLoop == Spec => []OneLoop
<1>1. IInv => OneLoop
  BY DEF IInv
<1> QED BY <1>1, Invariance, PTL

\* With every event handled, the controller does what the object says, for any
\* history of changes, missed deletions, resyncs and restarts, objects without a
\* spec among them: it runs when it should and has the object's numbers, but
\* takes a threshold that is not whole as 0, for which no pod is idle
\* (controller.go:80-109).
THEOREM FollowsPolicy == Spec => []QuietFollowsPolicy
<1>1. IInv => QuietFollowsPolicy
  <2> SUFFICES ASSUME IInv, events = << >>, object \in Specs
               PROVE  /\ isRunning = object.enabled
                      /\ policy.intervalSeconds = object.intervalSeconds
                      /\ object.idleCPUThreshold \in Int =>
                           policy.idleCPUThreshold = object.idleCPUThreshold
                      /\ object.idleCPUThreshold \notin Int => \A n \in Node : Idle(n) = {}
    BY DEF QuietFollowsPolicy
  <2>1. isRunning = object.enabled /\ policy = Converted(object)
    BY DEF IInv, Followed
  <2>2. object.intervalSeconds \in Int
    BY PolicyAssumption
  <2>3. policy.intervalSeconds = object.intervalSeconds
    BY <2>1, <2>2 DEF Converted, NestedInt64
  <2>4. object.idleCPUThreshold \in Int => policy.idleCPUThreshold = object.idleCPUThreshold
    BY <2>1 DEF Converted, NestedInt64
  <2>5. ASSUME object.idleCPUThreshold \notin Int, NEW n \in Node PROVE Idle(n) = {}
    <3>1. policy.idleCPUThreshold = 0
      BY <2>1, <2>5 DEF Converted, NestedInt64
    <3>2. \A q \in Pod : ~(Usage[q] < 0)
      BY ClusterAssumption
    <3> QED BY <3>1, <3>2 DEF Idle
  <2> QED BY <2>1, <2>3, <2>4, <2>5
<1> QED BY <1>1, Invariance, PTL
-----------------------------------------------------------------------------
\* A request is either on its way, or was carried out once, or never will be.
Accounted == IsFiniteSet(requests) /\ evictions + Cardinality(requests) <= sent

\* What has been evicted, and what still may be without another request.
Pending == evictions + Cardinality(requests)

LEMMA RequestsNext ==
  ASSUME IInv, IsFiniteSet(requests), [Next]_vars
  PROVE  /\ IsFiniteSet(requests') /\ {sent', Pending, Pending'} \subseteq Nat
         /\ \/ Pending' <= Pending /\ sent' = sent
            \/ Pending' <= Pending + 1 /\ sent' = sent + 1 /\ isRunning
<1>1. /\ sent \in Nat /\ evictions \in Nat /\ Cardinality(requests) \in Nat
  BY FS_CardinalityType DEF IInv, TypeOK
<1>2. ASSUME NEW l \in Loop, SendEviction(l)
      PROVE  /\ IsFiniteSet(requests') /\ {sent', Pending, Pending'} \subseteq Nat
             /\ Pending' <= Pending + 1 /\ sent' = sent + 1 /\ isRunning
  <2>1. Live(l)
    BY <1>2 DEF SendEviction, Live
  <2>2. isRunning
    BY <2>1 DEF IInv, OneLoop
  <2>3. PICK r : requests' = requests \union {r} /\ evictions' = evictions /\ sent' = sent + 1
    BY <1>2 DEF SendEviction
  <2>4. /\ IsFiniteSet(requests')
        /\ Cardinality(requests') \in {Cardinality(requests), Cardinality(requests) + 1}
    BY <2>3, FS_AddElement
  <2> QED BY <1>1, <2>2, <2>3, <2>4 DEF Pending
<1>3. ASSUME NEW r \in requests, Evict(r) \/ EvictionFails(r)
      PROVE  /\ IsFiniteSet(requests') /\ {sent', Pending, Pending'} \subseteq Nat
             /\ Pending' <= Pending /\ sent' = sent
  <2>1. requests' = requests \ {r} /\ evictions' \in {evictions, evictions + 1} /\ sent' = sent
    BY <1>3 DEF Evict, EvictionFails
  <2>2. IsFiniteSet(requests') /\ Cardinality(requests') = Cardinality(requests) - 1
    BY <2>1, FS_RemoveElement
  <2>3. Cardinality(requests') \in Nat
    BY <2>2, FS_CardinalityType
  <2> QED BY <1>1, <2>1, <2>2, <2>3 DEF Pending
<1>4. ASSUME UNCHANGED serverVars
      PROVE  /\ IsFiniteSet(requests') /\ {sent', Pending, Pending'} \subseteq Nat
             /\ Pending' <= Pending /\ sent' = sent
  BY <1>1, <1>4 DEF serverVars, Pending
<1>5. ASSUME NEW l \in Loop, Cycle(l), ~SendEviction(l) PROVE UNCHANGED serverVars
  BY <1>5 DEF Cycle, NewTicker, TickerPanics, NothingToDo, RecordFirst, DetectShift, FetchFails,
     PickWorst, PickIdlePod, NoIdlePod, SendFails, CallReturns, RecordTop, EndCycle, Goes, Forgotten
<1>6. ASSUME NEW l \in Loop, StopLoop(l) \/ TickLoop(l) PROVE UNCHANGED serverVars
  BY <1>6 DEF StopLoop, TickLoop, Goes
<1>7. ASSUME \/ \E spec \in Specs \union {NoSpec} : ApplyPolicy(spec)
             \/ \E n \in Node : Shift(n)
             \/ DeletePolicy \/ Resync \/ HandlePolicyEvent \/ Restart \/ UNCHANGED vars
      PROVE  UNCHANGED serverVars
  BY <1>7 DEF ApplyPolicy, DeletePolicy, Resync, HandlePolicyEvent, Restart, Forgotten, Shift, vars
<1> QED BY <1>2, <1>3, <1>4, <1>5, <1>6, <1>7 DEF Next

LEMMA AccountedAlways == Spec => []Accounted
<1>1. Init => Accounted
  <2> SUFFICES ASSUME Init PROVE Accounted
    OBVIOUS
  <2>1. requests = {} /\ sent = 0 /\ evictions = 0
    BY DEF Init
  <2> QED BY <2>1, FS_EmptySet DEF Accounted
<1>2. IInv /\ Accounted /\ [Next]_vars => Accounted'
  <2> SUFFICES ASSUME IInv, Accounted, [Next]_vars PROVE Accounted'
    OBVIOUS
  <2>1. sent \in Nat /\ Pending <= sent
    BY DEF IInv, TypeOK, Accounted, Pending
  <2>2. IsFiniteSet(requests') /\ Pending' <= sent'
    BY <2>1, RequestsNext DEF Accounted
  <2> QED BY <2>2 DEF Accounted, Pending
<1> QED BY <1>1, <1>2, Invariance, PTL DEF Spec

\* With isRunning reset, nothing is sent any more: pods are evicted by requests
\* that were on their way before, one each at most (evaluate.go:102,
\* eviction.go:32, controller.go:107-108).
THEOREM NothingSentWhenDisabled == Spec => DisabledSendsNothing
<1> DEFINE Sends == ~isRunning =>
             evictions' + Cardinality(requests') <= evictions + Cardinality(requests)
<1>1. IInv /\ Accounted /\ [Next]_vars => Sends
  <2> SUFFICES ASSUME IInv, Accounted, [Next]_vars, ~isRunning PROVE Pending' <= Pending
    BY DEF Pending
  <2> QED BY RequestsNext DEF Accounted
<1>2. IInv /\ Accounted /\ [Next]_vars => [Sends]_vars
  BY <1>1
<1> QED BY <1>2, Invariance, AccountedAlways, PTL DEF Spec, DisabledSendsNothing
-----------------------------------------------------------------------------
\* Requests and shifts, when no two loops are in a cycle at once.  A shift that
\* is not recorded yet has room for one more request; a loop that has sent one,
\* or given up, has taken it.
AtWork == {l \in Loop : loops[l].stage \in {"query"} \union InCycle}
Acting == {l \in Loop : loops[l].stage \in InCycle}

SendsAnswerShifts == sent = 0 \/ sent < shifts

ShiftsCounted ==
  /\ \A k, l \in AtWork : k = l
  /\ topNode # NoNode => shifts > 0
  /\ SendsAnswerShifts
  /\ prevTopNode # NoNode => topNode # NoNode /\ sent < shifts
  /\ prevTopNode \notin {NoNode, topNode} /\ Acting = {} => sent + 1 < shifts
  /\ \A l \in Acting :
       /\ topNode # NoNode
       /\ loops[l].stage \notin {"answer", "record"} =>
            sent + 1 < shifts /\ (loops[l].top # topNode => sent + 2 < shifts)
       /\ loops[l].stage \in {"answer", "record"} =>
            sent < shifts /\ (loops[l].top # topNode => sent + 1 < shifts)

\* When one loop is at work, it is the only one a step of its cycle is about.
LEMMA OnlyOneWorks ==
  ASSUME IInv, ShiftsCounted, NEW l \in AtWork, NEW g \in Goroutine,
         loops' = [loops EXCEPT ![l] = g]
  PROVE  /\ l \in Loop /\ loops'[l] = g
         /\ Acting = IF loops[l].stage \in InCycle THEN {l} ELSE {}
         /\ Acting' = IF g.stage \in InCycle THEN {l} ELSE {}
         /\ \A k, m \in AtWork' : k = m
<1>1. l \in Loop /\ \A k \in Loop : loops'[k] = IF k = l THEN g ELSE loops[k]
  BY DEF AtWork, IInv, TypeOK
<1>2. \A k \in Loop \ {l} : loops[k].stage \notin {"query"} \union InCycle
  BY DEF AtWork, ShiftsCounted
<1>3. \A k \in Loop \ {l} : loops'[k].stage \notin {"query"} \union InCycle
  BY <1>1, <1>2
<1>4. Acting = IF loops[l].stage \in InCycle THEN {l} ELSE {}
  BY <1>1, <1>2 DEF Acting
<1>5. Acting' = IF g.stage \in InCycle THEN {l} ELSE {}
  BY <1>1, <1>3 DEF Acting
<1>6. \A k, m \in AtWork' : k = m
  BY <1>1, <1>3 DEF AtWork
<1> QED BY <1>1, <1>4, <1>5, <1>6

LEMMA CountInCycle ==
  ASSUME IInv, ShiftsCounted, NEW l \in Loop, Cycle(l), loops[l].stage # "start"
  PROVE  ShiftsCounted'
<1> USE DEF InCycle
<1>1. l \in AtWork
  BY DEF AtWork, Cycle, NewTicker, TickerPanics, NothingToDo, RecordFirst, DetectShift, FetchFails,
     PickWorst, PickIdlePod, NoIdlePod, SendEviction, SendFails, CallReturns, RecordTop
<1>2. /\ loops[l] \in Goroutine /\ loops \in [Loop -> Goroutine]
      /\ shifts \in Nat /\ sent \in Nat
      /\ topNode \in Node \union {NoNode} /\ prevTopNode \in Node \union {NoNode}
  BY DEF IInv, TypeOK
<1>3. /\ Waiting(l) \in Goroutine /\ Waiting(l).stage = "select"
  BY <1>2 DEF Waiting, NoLoop, Goroutine
<1>4. CASE (NothingToDo(l) \/ FetchFails(l))
  <2>1. /\ loops' = [loops EXCEPT ![l] = Waiting(l)] /\ loops[l].stage \in {"query", "fetch"}
        /\ UNCHANGED <<topNode, shifts, prevTopNode, sent>>
    BY <1>4 DEF NothingToDo, FetchFails, EndCycle, clusterVars, serverVars
  <2>2. Acting' = {} /\ (\A k, m \in AtWork' : k = m)
        /\ Acting = IF loops[l].stage = "fetch" THEN {l} ELSE {}
    BY <1>1, <1>3, <2>1, OnlyOneWorks
  <2> QED BY <1>2, <2>1, <2>2 DEF ShiftsCounted, SendsAnswerShifts
<1>5. CASE RecordFirst(l)
  <2>1. /\ loops' = [loops EXCEPT ![l] = Waiting(l)] /\ loops[l].stage = "query"
        /\ topNode # NoNode /\ prevTopNode' = topNode
        /\ UNCHANGED <<topNode, shifts, sent>>
    BY <1>5 DEF RecordFirst, clusterVars, serverVars
  <2>2. Acting' = {} /\ (\A k, m \in AtWork' : k = m)
    BY <1>1, <1>3, <2>1, OnlyOneWorks
  <2> QED BY <1>2, <2>1, <2>2 DEF ShiftsCounted, SendsAnswerShifts
<1>6. CASE DetectShift(l)
  <2> DEFINE g == [loops[l] EXCEPT !.stage = "fetch", !.top = topNode]
  <2>1. /\ loops' = [loops EXCEPT ![l] = g] /\ loops[l].stage = "query"
        /\ topNode # NoNode /\ prevTopNode \notin {NoNode, topNode}
        /\ UNCHANGED <<topNode, shifts, prevTopNode, sent>>
    BY <1>2, <1>6 DEF DetectShift, clusterVars, serverVars
  <2>2. g \in Goroutine /\ g.stage = "fetch" /\ g.top = topNode
    BY <1>2 DEF Goroutine
  <2> HIDE DEF g
  <2>3. /\ Acting' = {l} /\ loops'[l] = g /\ (\A k, m \in AtWork' : k = m) /\ Acting = {}
    BY <1>1, <2>1, <2>2, OnlyOneWorks
  <2> QED BY <1>2, <2>1, <2>2, <2>3 DEF ShiftsCounted, SendsAnswerShifts
<1>7. CASE PickWorst(l) \/ PickIdlePod(l)
  <2>1. PICK n \in Node, p \in Pod \union {NoPod}, stage \in {"list", "evict"} :
          loops' = [loops EXCEPT ![l] = [@ EXCEPT !.stage = stage, !.worst = n, !.target = p]]
    <3>1. CASE PickWorst(l)
      <4>1. PICK n \in Node : loops' = [loops EXCEPT ![l].stage = "list", ![l].worst = n]
        BY <3>1 DEF PickWorst
      <4>2. loops' = [loops EXCEPT ![l] = [@ EXCEPT !.stage = "list", !.worst = n, !.target = loops[l].target]]
        BY <1>2, <4>1 DEF Goroutine
      <4>3. loops[l].target \in Pod \union {NoPod}
        BY <1>2 DEF Goroutine
      <4> QED BY <4>2, <4>3
    <3>2. CASE PickIdlePod(l)
      <4>1. PICK p \in Pod : loops' = [loops EXCEPT ![l].stage = "evict", ![l].target = p]
        BY <3>2 DEF PickIdlePod, Idle
      <4>2. loops' = [loops EXCEPT ![l] = [@ EXCEPT !.stage = "evict", !.worst = loops[l].worst, !.target = p]]
        BY <1>2, <4>1 DEF Goroutine
      <4>3. loops[l].worst \in Node
        BY <3>2 DEF PickIdlePod, IInv, TypeOK
      <4> QED BY <4>2, <4>3
    <3> QED BY <1>7, <3>1, <3>2
  <2> DEFINE g == [loops[l] EXCEPT !.stage = stage, !.worst = n, !.target = p]
  <2>2. /\ g \in Goroutine /\ g.stage \in {"list", "evict"} /\ g.top = loops[l].top
    BY <1>2 DEF Goroutine
  <2>3. /\ loops' = [loops EXCEPT ![l] = g] /\ loops[l].stage \in {"fetch", "list"}
        /\ UNCHANGED <<topNode, shifts, prevTopNode, sent>>
    BY <1>2, <1>7, <2>1 DEF PickWorst, PickIdlePod, clusterVars, serverVars
  <2> HIDE DEF g
  <2>4. /\ Acting' = {l} /\ loops'[l] = g /\ (\A k, m \in AtWork' : k = m) /\ Acting = {l}
    BY <1>1, <2>2, <2>3, OnlyOneWorks
  <2> QED BY <1>2, <2>2, <2>3, <2>4 DEF ShiftsCounted, SendsAnswerShifts
<1>8. CASE NoIdlePod(l) \/ SendFails(l) \/ CallReturns(l)
  <2>1. PICK t \in Pod \union {NoPod}, c \in Nat :
          loops' = [loops EXCEPT ![l] = [@ EXCEPT !.stage = "record", !.target = t, !.call = c]]
    <3>1. loops[l].target \in Pod \union {NoPod} /\ loops[l].call \in Nat
      BY <1>2 DEF Goroutine
    <3>2. CASE NoIdlePod(l)
      <4>1. loops' = [loops EXCEPT ![l] = [@ EXCEPT !.stage = "record", !.target = loops[l].target, !.call = loops[l].call]]
        BY <1>2, <3>2 DEF NoIdlePod, Goes, Goroutine
      <4> QED BY <3>1, <4>1
    <3>3. CASE SendFails(l)
      <4>1. loops' = [loops EXCEPT ![l] = [@ EXCEPT !.stage = "record", !.target = NoPod, !.call = loops[l].call]]
        BY <1>2, <3>3 DEF SendFails, Goroutine
      <4> QED BY <3>1, <4>1
    <3>4. CASE CallReturns(l)
      <4>1. loops' = [loops EXCEPT ![l] = [@ EXCEPT !.stage = "record", !.target = loops[l].target, !.call = 0]]
        BY <1>2, <3>4 DEF CallReturns, Goroutine
      <4> QED BY <3>1, <4>1
    <3> QED BY <1>8, <3>2, <3>3, <3>4
  <2>2. loops[l].stage \in {"list", "evict", "answer"} /\ UNCHANGED <<topNode, shifts, prevTopNode, sent>>
    BY <1>8 DEF NoIdlePod, Goes, SendFails, CallReturns, clusterVars, serverVars
  <2> DEFINE g == [loops[l] EXCEPT !.stage = "record", !.target = t, !.call = c]
  <2>3. g \in Goroutine /\ g.stage = "record" /\ g.top = loops[l].top
    BY <1>2 DEF Goroutine
  <2>4. loops' = [loops EXCEPT ![l] = g]
    BY <1>2, <2>1
  <2> HIDE DEF g
  <2>5. /\ Acting' = {l} /\ loops'[l] = g /\ (\A k, m \in AtWork' : k = m) /\ Acting = {l}
    BY <1>1, <2>2, <2>3, <2>4, OnlyOneWorks
  <2> QED BY <1>2, <2>2, <2>3, <2>5 DEF ShiftsCounted, SendsAnswerShifts
<1>9. CASE RecordTop(l)
  <2>1. /\ loops' = [loops EXCEPT ![l] = Waiting(l)] /\ loops[l].stage = "record"
        /\ prevTopNode' = loops[l].top
        /\ UNCHANGED <<topNode, shifts, sent>>
    BY <1>9 DEF RecordTop, clusterVars, serverVars
  <2>2. Acting' = {} /\ (\A k, m \in AtWork' : k = m) /\ Acting = {l}
    BY <1>1, <1>3, <2>1, OnlyOneWorks
  <2> QED BY <1>2, <2>1, <2>2 DEF ShiftsCounted, SendsAnswerShifts
<1>10. CASE SendEviction(l)
  <2> DEFINE g == [loops[l] EXCEPT !.stage = "answer", !.target = NoPod, !.call = sent + 1]
  <2>1. /\ loops' = [loops EXCEPT ![l] = g] /\ loops[l].stage = "evict"
        /\ sent' = sent + 1 /\ UNCHANGED <<topNode, shifts, prevTopNode>>
    BY <1>2, <1>10 DEF SendEviction, clusterVars
  <2>2. sent + 1 \in Nat
    BY <1>2
  <2>3. g \in Goroutine /\ g.stage = "answer" /\ g.top = loops[l].top
    BY <1>2, <2>2 DEF Goroutine
  <2> HIDE DEF g
  <2>4. /\ Acting' = {l} /\ loops'[l] = g /\ (\A k, m \in AtWork' : k = m) /\ Acting = {l}
    BY <1>1, <2>1, <2>3, OnlyOneWorks
  <2> QED BY <1>2, <2>1, <2>3, <2>4 DEF ShiftsCounted, SendsAnswerShifts
<1> QED
  BY <1>4, <1>5, <1>6, <1>7, <1>8, <1>9, <1>10 DEF Cycle, NewTicker, TickerPanics

\* A step after which the same loops are at work as before, for the same shifts.
LEMMA CountElsewhere ==
  ASSUME ShiftsCounted, AtWork' \subseteq AtWork, Acting' = Acting,
         \A l \in Acting : loops'[l].stage = loops[l].stage /\ loops'[l].top = loops[l].top,
         UNCHANGED <<topNode, shifts, prevTopNode, sent>>
  PROVE  ShiftsCounted'
BY DEF ShiftsCounted, SendsAnswerShifts

LEMMA CountNext == ~Overlap /\ IInv /\ ShiftsCounted /\ [Next]_vars => ShiftsCounted'
<1> SUFFICES ASSUME ~Overlap, IInv, ShiftsCounted, [Next]_vars PROVE ShiftsCounted'
  OBVIOUS
<1> USE DEF InCycle
<1>1. /\ loops \in [Loop -> Goroutine] /\ shifts \in Nat /\ sent \in Nat
  BY DEF IInv, TypeOK
<1>2. CASE Restart \/ \E l \in Loop : TickerPanics(l)
  <2>1. /\ \A l \in Loop : loops'[l] = NoLoop
        /\ prevTopNode' = NoNode /\ UNCHANGED <<topNode, shifts, sent>>
    BY <1>2 DEF Restart, TickerPanics, Forgotten, clusterVars, serverVars
  <2>2. AtWork' = {} /\ Acting' = {}
    BY <2>1, NoLoopTyped DEF AtWork, Acting
  <2> QED BY <2>1, <2>2 DEF ShiftsCounted, SendsAnswerShifts
<1>3. ASSUME NEW l \in Loop, Cycle(l), loops[l].stage # "start" PROVE ShiftsCounted'
  BY <1>3, CountInCycle
<1>4. ASSUME NEW l \in Loop, NewTicker(l) \/ StopLoop(l) PROVE ShiftsCounted'
  <2>1. /\ loops[l].stage \notin {"query"} \union InCycle
        /\ loops'[l].stage \notin {"query"} \union InCycle
        /\ \A k \in Loop \ {l} : loops'[k] = loops[k]
        /\ UNCHANGED <<topNode, shifts, prevTopNode, sent>>
    BY <1>1, <1>4, NoLoopTyped DEF NewTicker, StopLoop, Goes, clusterVars, serverVars, Goroutine
  <2>2. AtWork' = AtWork /\ Acting' = Acting /\ l \notin Acting
    BY <2>1 DEF AtWork, Acting
  <2>3. \A k \in Acting : k \in Loop \ {l}
    BY <2>2 DEF Acting
  <2> QED BY <2>1, <2>2, <2>3, CountElsewhere
<1>5. ASSUME NEW l \in Loop, TickLoop(l) PROVE ShiftsCounted'
  <2>1. /\ loops'[l].stage = "query" /\ loops[l].stage = "select"
        /\ \A k \in Loop \ {l} : loops'[k] = loops[k] /\ loops[k].stage \in {"off", "start", "select"}
        /\ UNCHANGED <<topNode, shifts, prevTopNode, sent>>
    BY <1>1, <1>5 DEF TickLoop, Goes, clusterVars, serverVars, Goroutine
  <2>2. AtWork' = {l} /\ Acting = {} /\ Acting' = {}
    BY <2>1 DEF AtWork, Acting
  <2> QED BY <2>1, <2>2 DEF ShiftsCounted, SendsAnswerShifts
<1>6. CASE HandlePolicyEvent
  <2>1. \A k \in Loop :
          \/ loops'[k].stage = "start" /\ loops[k].stage = "off"
          \/ loops'[k].stage = loops[k].stage /\ loops'[k].top = loops[k].top
    <3>1. CASE StartLoop
      BY <1>1, <3>1 DEF StartLoop, NoLoop
    <3>2. CASE CancelLoop
      BY <1>1, <3>2 DEF CancelLoop, Goroutine
    <3>3. CASE UNCHANGED loops
      BY <3>3
    <3> QED BY <1>6, <3>1, <3>2, <3>3 DEF HandlePolicyEvent, Switch
  <2>2. AtWork' = AtWork /\ Acting' = Acting
    BY <2>1 DEF AtWork, Acting
  <2>3. \A k \in Acting : loops'[k].stage = loops[k].stage /\ loops'[k].top = loops[k].top
    BY <2>1 DEF Acting
  <2>4. UNCHANGED <<topNode, shifts, prevTopNode, sent>>
    BY <1>6 DEF HandlePolicyEvent, clusterVars, serverVars
  <2> QED BY <2>2, <2>3, <2>4, CountElsewhere
<1>7. CASE (\E spec \in Specs \union {NoSpec} : ApplyPolicy(spec)) \/ DeletePolicy \/ Resync \/ UNCHANGED vars
  <2>1. UNCHANGED <<loops, topNode, shifts, prevTopNode, sent>>
    BY <1>7 DEF ApplyPolicy, DeletePolicy, Resync, vars, clusterVars, serverVars
  <2>2. AtWork' = AtWork /\ Acting' = Acting
    BY <2>1 DEF AtWork, Acting
  <2> QED BY <2>1, <2>2, CountElsewhere
<1>8. ASSUME NEW n \in Node, Shift(n) PROVE ShiftsCounted'
  <2>1. /\ UNCHANGED <<loops, prevTopNode, sent>> /\ shifts' = shifts + 1
        /\ topNode' = n /\ n # topNode /\ topNode' # NoNode
    BY <1>8, ClusterAssumption DEF Shift, serverVars
  <2>2. AtWork' = AtWork /\ Acting' = Acting
    BY <2>1 DEF AtWork, Acting
  <2> QED BY <1>1, <2>1, <2>2 DEF ShiftsCounted, SendsAnswerShifts
<1>9. ASSUME NEW r \in requests, Evict(r) \/ EvictionFails(r) PROVE ShiftsCounted'
  <2>1. UNCHANGED <<loops, topNode, shifts, prevTopNode, sent>>
    BY <1>9 DEF Evict, EvictionFails, clusterVars
  <2>2. AtWork' = AtWork /\ Acting' = Acting
    BY <2>1 DEF AtWork, Acting
  <2> QED BY <2>1, <2>2, CountElsewhere
<1>10. ASSUME NEW l \in Loop, Cycle(l) PROVE ShiftsCounted'
  <2>1. CASE loops[l].stage # "start"
    BY <1>3, <1>10, <2>1
  <2>2. CASE loops[l].stage = "start"
    <3>1. NewTicker(l) \/ TickerPanics(l)
      BY <1>10, <2>2
      DEF Cycle, NothingToDo, RecordFirst, DetectShift, FetchFails, PickWorst, PickIdlePod,
          NoIdlePod, SendEviction, SendFails, CallReturns, RecordTop
    <3> QED BY <1>2, <1>4, <3>1
  <2> QED BY <2>1, <2>2
<1> QED
  BY <1>2, <1>4, <1>5, <1>6, <1>7, <1>8, <1>9, <1>10 DEF Next

\* If no loop ticks while a cancelled one is in its cycle, there is no more than
\* one eviction for each change of the top node after the first, over any
\* failures and restarts, and whatever becomes of the requests that were sent
\* (evaluate.go:44-107).
THEOREM OneEvictionPerShift == ~Overlap => (Spec => []EvictionsAnswerShifts)
<1> SUFFICES ASSUME ~Overlap PROVE Spec => []EvictionsAnswerShifts
  OBVIOUS
<1>1. Init => ShiftsCounted
  <2> SUFFICES ASSUME Init PROVE ShiftsCounted
    OBVIOUS
  <2>1. AtWork = {} /\ Acting = {}
    BY NoLoopTyped DEF Init, Started, AtWork, Acting, InCycle
  <2> QED BY <2>1 DEF Init, Started, ShiftsCounted, SendsAnswerShifts
<1>2. IInv /\ ShiftsCounted /\ [Next]_vars => ShiftsCounted'
  BY CountNext
<1>3. IInv /\ Accounted /\ ShiftsCounted => EvictionsAnswerShifts
  <2> SUFFICES ASSUME IInv, Accounted, ShiftsCounted PROVE EvictionsAnswerShifts
    OBVIOUS
  <2>1. /\ sent \in Nat /\ evictions \in Nat /\ shifts \in Nat /\ Cardinality(requests) \in Nat
    BY FS_CardinalityType DEF IInv, TypeOK, Accounted
  <2>2. evictions <= sent
    BY <2>1 DEF Accounted
  <2> QED BY <2>1, <2>2 DEF ShiftsCounted, SendsAnswerShifts, EvictionsAnswerShifts
<1> QED BY <1>1, <1>2, <1>3, Invariance, AccountedAlways, PTL DEF Spec
=============================================================================
