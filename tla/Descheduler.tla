------------------------------ MODULE Descheduler ------------------------------
(***************************************************************************)
(* The adaptive descheduler (scheduler/pkg/descheduler): an informer       *)
(* handles the events of the policy object one after the other and starts  *)
(* and stops an evaluation loop, a goroutine of its own.  A loop that was  *)
(* cancelled goes on until it is back in its select; only the calls that   *)
(* carry its context fail at once.  An eviction is a request to the API    *)
(* server: once it was sent, neither cancelling the call nor an error that *)
(* the client sees takes it back.  Loops and handler share `policy' and    *)
(* `prevTopNode' without a lock.                                           *)
(***************************************************************************)
EXTENDS Integers, Sequences, FiniteSets

CONSTANTS
  Node, Pod,
  Usage,            \* CPU of each pod, in millicores
  Loop,             \* bound: loops that exist at once
  Specs,            \* specs of the policy: enabled, intervalSeconds, idleCPUThreshold
  Fraction,         \* numbers that are not whole, as the schema lets a threshold be
  NoSpec,           \* an object without a spec, which the schema does not require
  Absent, NoNode, NoPod,
  MaxPolicyChanges, \* bound: changes of the policy object
  MaxShifts,        \* bound: changes of the top node
  MaxCrashes,       \* bound: restarts of the process
  MayFail,          \* can calls to the API server, Influx and the probers fail?
  Overlap           \* can a loop tick while a cancelled one is in its cycle?

ASSUME PolicyAssumption ==
  Specs \subseteq [enabled : BOOLEAN, intervalSeconds : Int, idleCPUThreshold : Int \union Fraction]
ASSUME ClusterAssumption ==
  /\ Usage \in [Pod -> Nat] /\ NoNode \notin Node /\ NoPod \notin Pod
  /\ Absent \notin Specs \union {NoSpec} /\ NoSpec \notin Specs /\ MayFail \in BOOLEAN /\ Overlap \in BOOLEAN
  /\ {MaxPolicyChanges, MaxShifts, MaxCrashes} \subseteq Nat

VARIABLES
  object,       \* the LatencyDeschedulerPolicy object
  events,       \* the specs of the objects that the informer has still to deliver
  changes,      \* how often object has changed
  policy,       \* d.policy
  isRunning,    \* d.isRunning
  current,      \* the loop that d.cancelFunc cancels
  loops,        \* every loop: its place, whether it is cancelled, its locals
  prevTopNode,
  topNode,      \* the node with most traffic, beyond WARMUP_THRESHOLD; or none
  requests,     \* eviction requests on their way to the API server
  where,        \* the node each pod runs on
  sent, evictions,   \* requests sent, and those carried out
  shifts, crashes    \* how often each has happened

clusterVars == <<object, changes, topNode, shifts>>
controller == <<events, policy, isRunning, current>>
serverVars == <<requests, where, sent, evictions>>
vars == <<clusterVars, controller, loops, prevTopNode, serverVars, crashes>>

NoPolicy == [intervalSeconds |-> 0, idleCPUThreshold |-> 0]
NoLoop == [stage |-> "off", cancelled |-> FALSE, top |-> NoNode, worst |-> NoNode,
           target |-> NoPod, call |-> 0]
Live(l) == loops[l].stage # "off" /\ ~loops[l].cancelled

Started ==
  /\ policy = NoPolicy
  /\ isRunning = FALSE
  /\ current = "none"
  /\ loops = [l \in Loop |-> NoLoop]
  /\ prevTopNode = NoNode

Init ==
  /\ object = Absent /\ changes = 0
  /\ events = << >>
  /\ Started
  /\ topNode = NoNode /\ shifts = 0
  /\ requests = {} /\ sent = 0 /\ evictions = 0
  /\ where \in [Pod -> Node]
  /\ crashes = 0
-----------------------------------------------------------------------------
\* The object is created or updated.
ApplyPolicy(spec) ==
  /\ changes < MaxPolicyChanges
  /\ object # spec
  /\ object' = spec
  /\ changes' = changes + 1
  /\ events' = Append(events, spec)
  /\ UNCHANGED <<policy, isRunning, current, loops, prevTopNode, topNode, shifts,
                 serverVars, crashes>>

\* The handler of a deletion is given the last object, enabled or not; after a
\* missed deletion it is a tombstone, which is refused as an invalid object.
DeletePolicy ==
  /\ changes < MaxPolicyChanges
  /\ object # Absent
  /\ object' = Absent
  /\ changes' = changes + 1
  /\ \/ events' = Append(events, object)
     \/ events' = events
  /\ UNCHANGED <<policy, isRunning, current, loops, prevTopNode, topNode, shifts,
                 serverVars, crashes>>

\* Every five minutes the informer delivers the object once more.
Resync ==
  /\ events = << >>
  /\ object # Absent
  /\ events' = <<object>>
  /\ UNCHANGED <<clusterVars, policy, isRunning, current, loops, prevTopNode,
                 serverVars, crashes>>

Shift(n) ==
  /\ shifts < MaxShifts
  /\ n # topNode
  /\ topNode' = n
  /\ shifts' = shifts + 1
  /\ UNCHANGED <<object, changes, controller, loops, prevTopNode, serverVars, crashes>>
-----------------------------------------------------------------------------
\* A number that is not whole is an error for NestedInt64, which the caller
\* drops: it goes on with 0.
NestedInt64(x) == IF x \in Int THEN x ELSE 0

\* Mutant of SetPolicy: a loop that runs keeps the policy it was started with.
SetPolicy_OnStart(spec) ==
  policy' = IF isRunning THEN policy
            ELSE [intervalSeconds |-> NestedInt64(spec.intervalSeconds),
                  idleCPUThreshold |-> NestedInt64(spec.idleCPUThreshold)]
\* The policy is written whether a loop is reading it or not.
SetPolicy(spec) ==
  policy' = [intervalSeconds |-> NestedInt64(spec.intervalSeconds),
             idleCPUThreshold |-> NestedInt64(spec.idleCPUThreshold)]

StartLoop ==
  /\ ~isRunning
  /\ \E l \in Loop :
       /\ loops[l].stage = "off"
       /\ loops' = [loops EXCEPT ![l] = [NoLoop EXCEPT !.stage = "start"]]
       /\ current' = l
  /\ isRunning' = TRUE

\* Mutants of CancelLoop: the flag is not reset; cancelFunc is not called.
CancelLoop_KeepsFlag ==
  /\ isRunning
  /\ loops' = [loops EXCEPT ![current].cancelled = TRUE]
  /\ UNCHANGED <<isRunning, current>>
CancelLoop_NoCancel ==
  /\ isRunning
  /\ isRunning' = FALSE
  /\ UNCHANGED <<loops, current>>
CancelLoop ==
  /\ isRunning
  /\ loops' = [loops EXCEPT ![current].cancelled = TRUE]
  /\ isRunning' = FALSE
  /\ UNCHANGED current

\* A loop that runs is left alone by any policy that is enabled.
Switch(enabled) ==
  \/ enabled /\ StartLoop
  \/ ~enabled /\ CancelLoop
  \/ enabled = isRunning /\ UNCHANGED <<loops, isRunning, current>>

\* handlePolicyEvent: the type of the event is only logged; an object without a
\* spec changes nothing.
HandlePolicyEvent ==
  /\ events # << >>
  /\ events' = Tail(events)
  /\ \/ Head(events) = NoSpec /\ UNCHANGED <<policy, loops, isRunning, current>>
     \/ Head(events) # NoSpec /\ SetPolicy(Head(events)) /\ Switch(Head(events).enabled)
  /\ UNCHANGED <<clusterVars, prevTopNode, serverVars, crashes>>

\* The step of a loop that only changes its own record.
Goes(l, stage) ==
  /\ loops' = [loops EXCEPT ![l].stage = stage]
  /\ UNCHANGED <<clusterVars, controller, prevTopNode, serverVars, crashes>>

\* NewTicker: it panics when the interval, as it is by now, is not positive.
NewTicker(l) ==
  /\ loops[l].stage = "start"
  /\ policy.intervalSeconds > 0
  /\ Goes(l, "select")

StopLoop(l) ==
  /\ loops[l].stage = "select"
  /\ loops[l].cancelled
  /\ loops' = [loops EXCEPT ![l] = NoLoop]
  /\ UNCHANGED <<clusterVars, controller, prevTopNode, serverVars, crashes>>

\* With both ready, select may take the ticker after the cancellation.
TickLoop(l) ==
  /\ loops[l].stage = "select"
  /\ Overlap \/ \A k \in Loop \ {l} : loops[k].stage \in {"off", "start", "select"}
  /\ Goes(l, "query")

Waiting(l) == [NoLoop EXCEPT !.stage = "select", !.cancelled = loops[l].cancelled]

EndCycle(l) ==
  /\ loops' = [loops EXCEPT ![l] = Waiting(l)]
  /\ UNCHANGED <<clusterVars, controller, prevTopNode, serverVars, crashes>>

\* Too little traffic, or a failed query.
NothingToDo(l) ==
  /\ loops[l].stage = "query"
  /\ topNode = NoNode \/ topNode = prevTopNode \/ MayFail
  /\ EndCycle(l)

RecordFirst(l) ==
  /\ loops[l].stage = "query"
  /\ topNode # NoNode
  /\ prevTopNode = NoNode
  /\ prevTopNode' = topNode
  /\ loops' = [loops EXCEPT ![l] = Waiting(l)]
  /\ UNCHANGED <<clusterVars, controller, serverVars, crashes>>

\* Mutant of DetectShift: the top node is not kept.
DetectShift_NoTop(l) ==
  /\ loops[l].stage = "query"
  /\ topNode # NoNode /\ prevTopNode \notin {NoNode, topNode}
  /\ loops' = [loops EXCEPT ![l].stage = "fetch"]
  /\ UNCHANGED <<clusterVars, controller, prevTopNode, serverVars, crashes>>
DetectShift(l) ==
  /\ loops[l].stage = "query"
  /\ topNode # NoNode /\ prevTopNode \notin {NoNode, topNode}
  /\ loops' = [loops EXCEPT ![l].stage = "fetch", ![l].top = topNode]
  /\ UNCHANGED <<clusterVars, controller, prevTopNode, serverVars, crashes>>

\* The fetch does not carry the context.  Without scores the shift is left for
\* the next cycle.
FetchFails(l) ==
  /\ MayFail
  /\ loops[l].stage = "fetch"
  /\ EndCycle(l)

\* Which node scores worst depends on the answer.
PickWorst(l) ==
  /\ loops[l].stage = "fetch"
  /\ \E n \in Node : loops' = [loops EXCEPT ![l].stage = "list", ![l].worst = n]
  /\ UNCHANGED <<clusterVars, controller, prevTopNode, serverVars, crashes>>

\* Listing the pods and their metrics, with the context.
Idle(n) == {p \in Pod : where[p] = n /\ Usage[p] < policy.idleCPUThreshold}

PickIdlePod(l) ==
  /\ loops[l].stage = "list"
  /\ ~loops[l].cancelled
  /\ \E p \in Idle(loops[l].worst) :
       /\ \A q \in Idle(loops[l].worst) : Usage[p] <= Usage[q]
       /\ loops' = [loops EXCEPT ![l].stage = "evict", ![l].target = p]
  /\ UNCHANGED <<clusterVars, controller, prevTopNode, serverVars, crashes>>

NoIdlePod(l) ==
  /\ loops[l].stage = "list"
  /\ loops[l].cancelled \/ MayFail \/ Idle(loops[l].worst) = {}
  /\ Goes(l, "record")

\* Mutant of SendEviction: the call does not carry the loop's context.
SendEviction_NoContext(l) ==
  /\ loops[l].stage = "evict"
  /\ sent' = sent + 1
  /\ requests' = requests \union {[id |-> sent + 1, target |-> loops[l].target]}
  /\ loops' = [loops EXCEPT ![l].stage = "answer", ![l].target = NoPod, ![l].call = sent + 1]
  /\ UNCHANGED <<clusterVars, controller, prevTopNode, where, evictions, crashes>>

\* A call whose context is cancelled sends nothing.
SendEviction(l) ==
  /\ loops[l].stage = "evict"
  /\ ~loops[l].cancelled
  /\ sent' = sent + 1
  /\ requests' = requests \union {[id |-> sent + 1, target |-> loops[l].target]}
  /\ loops' = [loops EXCEPT ![l].stage = "answer", ![l].target = NoPod, ![l].call = sent + 1]
  /\ UNCHANGED <<clusterVars, controller, prevTopNode, where, evictions, crashes>>

SendFails(l) ==
  /\ loops[l].stage = "evict"
  /\ loops[l].cancelled \/ MayFail
  /\ loops' = [loops EXCEPT ![l].stage = "record", ![l].target = NoPod]
  /\ UNCHANGED <<clusterVars, controller, prevTopNode, serverVars, crashes>>

\* The API server carries a request out whatever has become of its sender.  The
\* pod's controller makes another, which the scheduler places anywhere.
Evict(r) ==
  /\ requests' = requests \ {r}
  /\ \E n \in Node : where' = [where EXCEPT ![r.target] = n]
  /\ evictions' = evictions + 1
  /\ UNCHANGED <<clusterVars, controller, loops, prevTopNode, sent, crashes>>

\* The server refuses (the pod is gone, a disruption budget), or the request is lost.
EvictionFails(r) ==
  /\ MayFail
  /\ requests' = requests \ {r}
  /\ UNCHANGED <<clusterVars, controller, loops, prevTopNode, where, sent, evictions, crashes>>

Served(l) == \A r \in requests : r.id # loops[l].call

\* The call ends with the server's answer, or with an error while the request
\* is still on its way: its context is cancelled, or the connection breaks.
CallReturns(l) ==
  /\ loops[l].stage = "answer"
  /\ Served(l) \/ loops[l].cancelled \/ MayFail
  /\ loops' = [loops EXCEPT ![l].stage = "record", ![l].call = 0]
  /\ UNCHANGED <<clusterVars, controller, prevTopNode, serverVars, crashes>>

\* Mutant of RecordTop: only the first top node is ever recorded.
RecordTop_Forgets(l) == loops[l].stage = "record" /\ EndCycle(l)

\* The shift counts as dealt with, whether a pod was evicted or not.
RecordTop(l) ==
  /\ loops[l].stage = "record"
  /\ prevTopNode' = loops[l].top
  /\ loops' = [loops EXCEPT ![l] = Waiting(l)]
  /\ UNCHANGED <<clusterVars, controller, serverVars, crashes>>

Forgotten ==
  /\ policy' = NoPolicy
  /\ isRunning' = FALSE
  /\ current' = "none"
  /\ loops' = [l \in Loop |-> NoLoop]
  /\ prevTopNode' = NoNode
  /\ events' = IF object = Absent THEN << >> ELSE <<object>>
  /\ UNCHANGED <<clusterVars, serverVars>>

\* The process ends, by a signal or a crash, and is started again; the informer
\* then adds what it lists.
Restart ==
  /\ crashes < MaxCrashes
  /\ crashes' = crashes + 1
  /\ Forgotten

\* The panic of NewTicker ends the process as well.
TickerPanics(l) ==
  /\ loops[l].stage = "start"
  /\ policy.intervalSeconds <= 0
  /\ Forgotten
  /\ UNCHANGED crashes

\* What a loop does by itself between a tick and its select, and on its start.
Cycle(l) ==
  \/ NewTicker(l) \/ TickerPanics(l)
  \/ NothingToDo(l) \/ RecordFirst(l) \/ DetectShift(l)
  \/ FetchFails(l) \/ PickWorst(l) \/ PickIdlePod(l) \/ NoIdlePod(l)
  \/ SendEviction(l) \/ SendFails(l) \/ CallReturns(l) \/ RecordTop(l)

Next ==
  \/ \E spec \in Specs \union {NoSpec} : ApplyPolicy(spec)
  \/ DeletePolicy \/ Resync \/ HandlePolicyEvent \/ Restart
  \/ \E n \in Node : Shift(n)
  \/ \E l \in Loop : StopLoop(l) \/ TickLoop(l) \/ Cycle(l)
  \/ \E r \in requests : Evict(r) \/ EvictionFails(r)

Spec == Init /\ [][Next]_vars

\* The informer delivers, goroutines run, every call has an end (the queries a
\* timeout, those to the API server at the latest their cancellation), and a
\* select with two branches ready does not take the same one for ever.
FairSpec ==
  /\ Spec
  /\ WF_vars(HandlePolicyEvent)
  /\ \A l \in Loop : WF_vars(Cycle(l)) /\ SF_vars(StopLoop(l))
-----------------------------------------------------------------------------
\* What the goroutine of a loop may hold.
Goroutine ==
  [stage : {"off", "start", "select", "query", "fetch", "list", "evict", "answer", "record"},
   cancelled : BOOLEAN,
   top : Node \union {NoNode}, worst : Node \union {NoNode}, target : Pod \union {NoPod},
   call : Nat]

InCycle == {"fetch", "list", "evict", "answer", "record"}

\* The values each variable may have; a cycle that acts knows for which node.
TypeOK ==
  /\ object \in Specs \union {NoSpec, Absent}
  /\ events \in Seq(Specs \union {NoSpec})
  /\ policy \in [intervalSeconds : Int, idleCPUThreshold : Int]
  /\ isRunning \in BOOLEAN /\ current \in Loop \union {"none"}
  /\ loops \in [Loop -> Goroutine]
  /\ \A l \in Loop :
       /\ loops[l].stage \in InCycle => loops[l].top \in Node
       /\ loops[l].stage \in {"list", "evict"} => loops[l].worst \in Node
       /\ loops[l].stage = "evict" => loops[l].target \in Pod
  /\ {prevTopNode, topNode} \subseteq Node \union {NoNode}
  /\ {changes, shifts, sent, evictions, crashes} \subseteq Nat
  /\ requests \subseteq [id : 1..sent, target : Pod]
  /\ where \in [Pod -> Node]

\* The controller's flag stands for exactly one loop that is not cancelled, the
\* one its cancelFunc belongs to: no policy leaves two at work, or one that
\* nothing can stop (controller.go:93-109).
OneLoop == {l \in Loop : Live(l)} = IF isRunning THEN {current} ELSE {}

\* Once the events are handled, the loop runs if the object says so, and works
\* with the object's numbers, also after the object was deleted, missed, made
\* anew, or the process was restarted (controller.go:80-109); but a threshold
\* that is not whole counts as 0, so that no pod is idle.  Of an object without
\* a spec nothing is said: what came before it stays.  Nor is it said that the
\* loop's ticker has the interval, as a running one keeps that of its start.
QuietFollowsPolicy ==
  events = << >> /\ object \in Specs =>
    /\ isRunning = object.enabled
    /\ policy.intervalSeconds = object.intervalSeconds
    /\ IF object.idleCPUThreshold \in Int
       THEN policy.idleCPUThreshold = object.idleCPUThreshold
       ELSE \A n \in Node : Idle(n) = {}

\* Once a disabling policy was handled, no pod is evicted but by a request that
\* was on its way to the API server by then, and each such request evicts one
\* pod at most, whether the call was cancelled, failed or died with the process
\* (controller.go:107-108, evaluate.go:102, eviction.go:32).
DisabledSendsNothing ==
  [][~isRunning =>
       evictions' + Cardinality(requests') <= evictions + Cardinality(requests)]_vars

\* As long as no loop ticks while a cancelled one is in its cycle (Overlap is
\* FALSE), fewer pods are evicted than the top node changes: over any number of
\* loops, failures, restarts, and requests that outlive the call that sent them
\* (evaluate.go:44-107).
EvictionsAnswerShifts == evictions = 0 \/ evictions < shifts

\* A policy that is disabled for good stops every loop (controller.go:103-109).
DisableTakesEffect ==
  <>[](object \in Specs /\ ~object.enabled) => <>[](\A l \in Loop : loops[l].stage = "off")
=============================================================================
