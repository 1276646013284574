---------------------------- MODULE ProberNodeProofs ----------------------------
(***************************************************************************)
(* What holds of a proberv2 process and the ruleset it leaves behind, for  *)
(* any nodes, pods, nodeports, events and length of the channel, over any  *)
(* number of failed commands, crashes and restarts.                        *)
(***************************************************************************)
EXTENDS ProberNode, SequenceTheorems, TLAPS

\* Outside of a run of the actor its memory is empty.
Memory ==
  phase \in {"starting", "down"} =>
    /\ \A p \in Port : services[p] = NoService
    /\ round = {} /\ job = A!Idle

\* What setup has installed when it is about to issue its next command.
Progress ==
  /\ phase = "starting" /\ setup \notin {"node_ip", "delete", "failed"} =>
       /\ nft.elements = {} /\ nft.chain = NoChain
       /\ nft.jumps = IF setup \in {"lookup", "done"} THEN 1 ELSE 0
       /\ nft.lookups = IF setup = "done" THEN 1 ELSE 0
       /\ setup # "table" => nft.table
       /\ setup \notin {"table", "map"} => nft.map
       /\ setup \notin {"table", "map", "set"} => nft.set
       /\ setup \notin {"table", "map", "set", "chains"} => nft.base

\* An update under way is of a service that the actor knows and that may have a
\* rule, and its earlier commands have been applied.
Work ==
  /\ \A p \in round : services[p] # NoService
  /\ \A p \in Port : job # A!Idle /\ job.port = p =>
       /\ services[p] # NoService
       /\ A!CanUpdate(services[p])
       /\ job.targets \subseteq A!UsablePods(services[p])
  /\ job.stage = "rule" => nft.chain.kind # "absent"
  /\ job.stage = "element" => nft.chain.kind = "rule"

IInv ==
  /\ TypeOK /\ Memory /\ Progress /\ Work
  /\ GotoLeadsToRule /\ NothingFromEarlierRuns /\ BaseRulesetOnce-----------------------------------------------------------------------------
LEMMA NoRulesetTyped == NoRuleset \in Ruleset /\ NoRuleset.elements = {} /\ NoRuleset.chain = NoChain
  BY DEF NoRuleset, NoChain, Ruleset, Chain

LEMMA InitIInv == Init => IInv
<1> SUFFICES ASSUME Init PROVE IInv
  OBVIOUS
<1>1. queue \in [{"actor"} -> Receiver] /\ Len(queue["actor"].msgs) <= Capacity
  <2>1. Unsubscribed \in Receiver /\ Unsubscribed.msgs = << >>
    BY EmptySeq DEF Unsubscribed, Receiver
  <2> QED BY <2>1, CapacityAssumption DEF Init
<1>2. TypeOK
  BY <1>1, NoRulesetTyped DEF Init, A!ActorInit, A!NoNodes, A!Idle, TypeOK, Job
<1>3. Memory /\ Progress /\ Work
  BY DEF Init, A!ActorInit, A!Idle, Memory, Progress, Work
<1>4. GotoLeadsToRule /\ NothingFromEarlierRuns /\ BaseRulesetOnce
  BY NoRulesetTyped
  DEF Init, GotoLeadsToRule, NothingFromEarlierRuns, BaseRulesetOnce, Serving
<1> QED BY <1>2, <1>3, <1>4 DEF IInv

\* The commands of setup_nftables.
LEMMA SetupKeeps ==
  ASSUME IInv, SettingUp
  PROVE  IInv'
<1>1. /\ phase = "starting" /\ phase' = "starting" /\ UNCHANGED memory
      /\ nft \in Ruleset /\ Progress /\ GotoLeadsToRule
  BY DEF SettingUp, IInv, TypeOK
<1> DEFINE Good == /\ setup' \in {"node_ip", "delete", "table", "map", "set", "chains", "jump",
                                  "lookup", "done", "failed"}
                   /\ nft' \in Ruleset /\ Progress' /\ GotoLeadsToRule'
<1>2. Good
  <2>1. CASE S!ReadNodeIp \/ S!SetupError
    <3>1. nft' = nft /\ setup' \in {"delete", "failed"}
      BY <2>1 DEF S!ReadNodeIp, S!SetupError
    <3> QED BY <1>1, <3>1 DEF Progress, GotoLeadsToRule
  <2>2. CASE S!DeleteTable
    <3>1. setup' = "table" /\ nft' = NoRuleset
      BY <2>2 DEF S!DeleteTable, S!NoRuleset, S!NoChain, NoRuleset, NoChain
    <3> QED BY <3>1, NoRulesetTyped DEF Progress, GotoLeadsToRule, NoRuleset
  <2>3. CASE S!CreateTable
    BY <1>1, <2>3 DEF S!CreateTable, S!Apply, S!AddTable, Ruleset, Progress, GotoLeadsToRule
  <2>4. CASE S!CreateMap
    BY <1>1, <2>4 DEF S!CreateMap, S!Apply, S!AddMap, Ruleset, Progress, GotoLeadsToRule
  <2>5. CASE S!CreateSet
    BY <1>1, <2>5 DEF S!CreateSet, S!Apply, S!AddSet, Ruleset, Progress, GotoLeadsToRule
  <2>6. CASE S!CreateChains
    BY <1>1, <2>6 DEF S!CreateChains, S!Apply, S!AddBaseChains, Ruleset, Progress, GotoLeadsToRule
  <2>7. CASE S!CreateJump
    BY <1>1, <2>7 DEF S!CreateJump, S!Apply, S!AddJump, Ruleset, Progress, GotoLeadsToRule
  <2>8. CASE S!CreateLookup
    BY <1>1, <2>8 DEF S!CreateLookup, S!Apply, S!AddLookup, Ruleset, Progress, GotoLeadsToRule
  <2> QED BY <2>1, <2>2, <2>3, <2>4, <2>5, <2>6, <2>7, <2>8 DEF SettingUp, S!SetupNext
<1>3. TypeOK' /\ Memory'
  BY <1>1, <1>2 DEF memory, IInv, TypeOK, Memory
<1>4. Work'
  BY <1>1 DEF memory, IInv, Memory, Work, A!Idle
<1>5. NothingFromEarlierRuns' /\ BaseRulesetOnce'
  BY <1>1 DEF NothingFromEarlierRuns, BaseRulesetOnce, Serving
<1> QED BY <1>2, <1>3, <1>4, <1>5 DEF IInv

\* An update's decision stands as long as scores and services do.
LEMMA SameChoice ==
  ASSUME UNCHANGED <<data, services>>, NEW p \in Port
  PROVE  /\ A!CanUpdate(services[p])' <=> A!CanUpdate(services[p])
         /\ A!UsablePods(services[p])' = A!UsablePods(services[p])
BY DEF A!CanUpdate, A!UsablePods, A!PodCount, A!Datapoints

\* The life of the process around setup and actor.
LEMMA LifeKeeps ==
  ASSUME IInv, Dispatch \/ Signal \/ ActorStops \/ Die \/ Restart
  PROVE  IInv'
<1>1. /\ Subscribed \in Receiver /\ Subscribed.msgs = << >>
      /\ Unsubscribed \in Receiver /\ Unsubscribed.msgs = << >>
  BY EmptySeq DEF Subscribed, Unsubscribed, Receiver
<1>2. nft' = nft /\ GotoLeadsToRule'
  BY DEF Dispatch, Signal, ActorStops, Die, Restart, IInv, GotoLeadsToRule
<1>3. CASE Dispatch
  <2>1. TypeOK'
    BY <1>1, <1>3, CapacityAssumption DEF Dispatch, IInv, TypeOK
  <2>2. Memory' /\ Progress'
    BY <1>3 DEF Dispatch, Memory, Progress
  <2>3. Work'
    BY <1>3 DEF Dispatch, IInv, Memory, Work, A!Idle
  <2>4. NothingFromEarlierRuns' /\ BaseRulesetOnce'
    BY <1>3 DEF Dispatch, IInv, Progress, NothingFromEarlierRuns, BaseRulesetOnce, NoChain
  <2> QED BY <1>2, <2>1, <2>2, <2>3, <2>4 DEF IInv
<1>4. CASE Signal \/ ActorStops
  <2>1. /\ phase \in {"running", "exiting"} /\ phase' \in {"exiting", "stopped"}
        /\ UNCHANGED <<setup, queue, data, services, round, job, nft>>
    BY <1>4 DEF Signal, ActorStops, memory
  <2>2. TypeOK' /\ Memory' /\ Progress'
    BY <2>1 DEF IInv, TypeOK, Memory, Progress
  <2>3. Work'
    BY <2>1, SameChoice DEF IInv, Work
  <2>4. NothingFromEarlierRuns' /\ BaseRulesetOnce'
    BY <2>1 DEF IInv, NothingFromEarlierRuns, BaseRulesetOnce, Serving
  <2> QED BY <1>2, <2>2, <2>3, <2>4 DEF IInv
<1>5. CASE Die \/ Restart
  <2>1. /\ queue' \in [{"actor"} -> Receiver] /\ Len(queue'["actor"].msgs) <= Capacity
        /\ data' \in [Node -> ScorePair \union {NoData, NoKey}]
    BY <1>1, <1>5, CapacityAssumption DEF Die, MemoryLost, Restart, memory, IInv, TypeOK, A!NoNodes
  <2>2. /\ phase' \in {"starting", "down"} /\ setup' \in {setup, "node_ip"}
        /\ phase' = "starting" => setup' = "node_ip"
        /\ services' \in [Port -> {NoService}] /\ round' = {} /\ job' = A!Idle
    BY <1>5 DEF Die, MemoryLost, Restart, memory, IInv, TypeOK, Memory
  <2>3. A!Idle \in Job /\ A!Idle.stage = "idle"
    BY DEF A!Idle, Job
  <2>4. TypeOK' /\ Memory' /\ Progress'
    BY <1>2, <2>1, <2>2, <2>3 DEF IInv, TypeOK, Memory, Progress
  <2>5. Work'
    BY <2>2, <2>3 DEF Work
  <2>6. NothingFromEarlierRuns' /\ BaseRulesetOnce'
    BY <2>2 DEF NothingFromEarlierRuns, BaseRulesetOnce, Serving
  <2> QED BY <1>2, <2>4, <2>5, <2>6 DEF IInv
<1> QED BY <1>3, <1>4, <1>5-----------------------------------------------------------------------------
QueueTyped(q) == q \in [{"actor"} -> Receiver] /\ Len(q["actor"].msgs) <= Capacity

\* A receiver never holds more than the channel keeps, whoever sends.
LEMMA SendTyped ==
  ASSUME QueueTyped(queue), NEW e \in Events
  PROVE  QueueTyped(Send(queue, e))
<1> DEFINE q == queue["actor"]
<1>1. q \in Receiver /\ q.msgs \in Seq(Events) /\ Len(q.msgs) \in Nat /\ Len(q.msgs) <= Capacity
  BY DEF QueueTyped, Receiver
<1>2. Capacity \in Nat /\ Capacity > 0
  BY CapacityAssumption
<1>3. Send(queue, e) = [r \in {"actor"} |-> Receive(queue[r], e)]
  BY DEF Send, QueueTyped
<1> HIDE DEF q
<1>4. Receive(q, e) \in Receiver /\ Len(Receive(q, e).msgs) <= Capacity
  <2>1. CASE ~q.open
    BY <1>1, <2>1 DEF Receive
  <2>2. CASE q.open /\ Len(q.msgs) < Capacity
    <3>1. Receive(q, e) = [q EXCEPT !.msgs = Append(q.msgs, e)]
      BY <1>1, <2>2 DEF Receive, Receiver
    <3>2. Append(q.msgs, e) \in Seq(Events) /\ Len(Append(q.msgs, e)) = Len(q.msgs) + 1
      BY <1>1, AppendProperties
    <3>3. Receive(q, e) \in Receiver /\ Receive(q, e).msgs = Append(q.msgs, e)
      BY <1>1, <3>1, <3>2 DEF Receiver
    <3> QED BY <1>1, <1>2, <2>2, <3>2, <3>3
  <2>3. CASE q.open /\ ~(Len(q.msgs) < Capacity)
    <3>1. Receive(q, e) = [q EXCEPT !.msgs = Append(Tail(q.msgs), e), !.lagged = TRUE]
      BY <1>1, <2>3 DEF Receive, Receiver
    <3>2. q.msgs # << >>
      BY <1>1, <1>2, <2>3, EmptySeq
    <3>3. Tail(q.msgs) \in Seq(Events) /\ Len(Tail(q.msgs)) = Len(q.msgs) - 1
      BY <1>1, <3>2, HeadTailProperties
    <3>4. /\ Append(Tail(q.msgs), e) \in Seq(Events)
          /\ Len(Append(Tail(q.msgs), e)) = Len(Tail(q.msgs)) + 1
      BY <3>3, AppendProperties
    <3>5. Receive(q, e) \in Receiver /\ Receive(q, e).msgs = Append(Tail(q.msgs), e)
      BY <1>1, <3>1, <3>4 DEF Receiver
    <3> QED BY <1>1, <1>2, <3>3, <3>4, <3>5
  <2> QED BY <2>1, <2>2, <2>3
<1> QED BY <1>3, <1>4 DEF QueueTyped, q

LEMMA TakeTyped ==
  ASSUME QueueTyped(queue), A!CanTake(queue, "actor")
  PROVE  QueueTyped(A!Take(queue, "actor")) /\ A!Event \in Events
<1> DEFINE q == queue["actor"]
<1>1. q \in Receiver /\ q.msgs \in Seq(Events) /\ Len(q.msgs) \in Nat /\ Len(q.msgs) <= Capacity
  BY DEF QueueTyped, Receiver
<1>2. q.msgs # << >>
  BY DEF A!CanTake
<1>3. /\ Head(q.msgs) \in Events /\ Tail(q.msgs) \in Seq(Events)
      /\ Len(Tail(q.msgs)) = Len(q.msgs) - 1
  BY <1>1, <1>2, HeadTailProperties
<1>4. A!Take(queue, "actor") = [r \in {"actor"} |-> [q EXCEPT !.msgs = Tail(q.msgs)]]
  BY <1>1 DEF A!Take, QueueTyped, Receiver
<1>5. A!Event = Head(q.msgs)
  BY DEF A!Event
<1> HIDE DEF q
<1>6. [q EXCEPT !.msgs = Tail(q.msgs)] \in Receiver /\ [q EXCEPT !.msgs = Tail(q.msgs)].msgs = Tail(q.msgs)
  BY <1>1, <1>3 DEF Receiver
<1>7. Capacity \in Nat /\ Len(Tail(q.msgs)) <= Capacity
  BY <1>1, <1>3, CapacityAssumption
<1> QED BY <1>3, <1>4, <1>5, <1>6, <1>7 DEF QueueTyped

LEMMA SkipTyped ==
  ASSUME QueueTyped(queue)
  PROVE  QueueTyped(A!SkipLagged(queue, "actor"))
<1> DEFINE q == queue["actor"]
<1>1. q \in Receiver /\ Len(q.msgs) <= Capacity
  BY DEF QueueTyped
<1>2. A!SkipLagged(queue, "actor") = [r \in {"actor"} |-> [q EXCEPT !.lagged = FALSE]]
  BY DEF A!SkipLagged, QueueTyped
<1> HIDE DEF q
<1>3. [q EXCEPT !.lagged = FALSE] \in Receiver /\ [q EXCEPT !.lagged = FALSE].msgs = q.msgs
  BY <1>1 DEF Receiver
<1> QED BY <1>1, <1>2, <1>3 DEF QueueTyped

\* What an event of each kind carries.
LEMMA EventShape ==
  ASSUME NEW e \in Events
  PROVE  /\ e.kind = "service" => e.svc \in ServiceSnapshot
         /\ e.kind = "latency" => e.node \in Node /\ e.value \in Samples.latency
         /\ e.kind = "cpu" => e.node \in Node /\ e.value \in Samples.cpu
         /\ e.kind = "joined" => e.node \in Node
  BY DEF Events, ServiceSnapshot, A!ServiceChanged, A!Latency, A!Cpu, A!NodeJoined

\* A step of the actor that issues no command and has no update under way
\* before or after.
LEMMA IdleStep ==
  ASSUME IInv, phase \in {"running", "exiting"},
         UNCHANGED <<phase, setup, job, nft>>, job = A!Idle,
         QueueTyped(queue)',
         data' \in [Node -> ScorePair \union {NoData, NoKey}],
         services' \in [Port -> ServiceSnapshot \union {NoService}],
         \A p \in Port : services[p] # NoService => services'[p] # NoService,
         round' \subseteq Port,
         \A p \in round' : services'[p] # NoService
  PROVE  IInv'
<1>1. TypeOK'
  BY DEF IInv, TypeOK, QueueTyped
<1>2. Memory' /\ Progress'
  BY DEF Memory, Progress
<1>3. Work'
  BY DEF Work, A!Idle
<1>4. GotoLeadsToRule' /\ BaseRulesetOnce'
  BY DEF IInv, GotoLeadsToRule, BaseRulesetOnce, Serving
<1>5. NothingFromEarlierRuns'
  BY DEF IInv, NothingFromEarlierRuns, Serving
<1> QED BY <1>1, <1>2, <1>3, <1>4, <1>5 DEF IInv

\* Events that are sent while the actor is at work on others.
LEMMA ArrivalKeeps ==
  ASSUME IInv, Arrival
  PROVE  IInv'
<1>1. PICK e \in Events : queue' = Send(queue, e)
  BY DEF Arrival
<1>2. QueueTyped(queue)'
  BY <1>1, SendTyped DEF IInv, TypeOK, QueueTyped
<1>3. /\ phase \in {"running", "exiting"}
      /\ UNCHANGED <<phase, setup, data, services, round, job, nft>>
  BY DEF Arrival
<1>4. TypeOK' /\ Memory' /\ Progress'
  BY <1>2, <1>3 DEF IInv, TypeOK, QueueTyped, Memory, Progress
<1>5. Work'
  BY <1>3, SameChoice DEF IInv, Work
<1>6. GotoLeadsToRule' /\ BaseRulesetOnce' /\ NothingFromEarlierRuns'
  BY <1>3 DEF IInv, GotoLeadsToRule, BaseRulesetOnce, NothingFromEarlierRuns, Serving
<1> QED BY <1>4, <1>5, <1>6 DEF IInv

\* The actor takes an event.
LEMMA HandleKeeps ==
  ASSUME IInv, phase \in {"running", "exiting"}, UNCHANGED <<phase, setup>>, A!Handle
  PROVE  IInv'
<1>1. /\ QueueTyped(queue)
      /\ data \in [Node -> ScorePair \union {NoData, NoKey}]
      /\ services \in [Port -> ServiceSnapshot \union {NoService}]
  BY DEF IInv, TypeOK, QueueTyped
<1>2. /\ round = {} /\ job = A!Idle /\ UNCHANGED <<job, nft>>
  BY DEF A!Handle, A!ReceiveLagged, A!ReceiveServiceChanged, A!ReceiveEwma, A!ReceiveNodeJoined, A!Waiting
<1>3. CASE A!ReceiveLagged
  <2>1. QueueTyped(queue)' /\ UNCHANGED <<data, services, round>>
    BY <1>1, <1>3, SkipTyped DEF A!ReceiveLagged, QueueTyped
  <2> QED BY <1>1, <1>2, <2>1, IdleStep
<1>4. ASSUME A!CanTake(queue, "actor"), queue' = A!Take(queue, "actor")
      PROVE  QueueTyped(queue)' /\ A!Event \in Events
  BY <1>1, <1>4, TakeTyped DEF QueueTyped
<1>5. CASE A!ReceiveServiceChanged
  <2>1. QueueTyped(queue)' /\ A!Event \in Events /\ A!Event.svc \in ServiceSnapshot
    BY <1>4, <1>5, EventShape DEF A!ReceiveServiceChanged
  <2> DEFINE svc == A!Event.svc
  <2>2. /\ services' = [services EXCEPT ![svc.port] = svc]
        /\ round' = {svc.port} /\ data' = data
    BY <1>5 DEF A!ReceiveServiceChanged
  <2>3. svc \in ServiceSnapshot /\ svc.port \in Port /\ svc # NoService
    BY <2>1, EventsAssumption DEF ServiceSnapshot
  <2> HIDE DEF svc
  <2> QED BY <1>1, <1>2, <2>1, <2>2, <2>3, IdleStep
<1>6. CASE A!ReceiveEwma
  <2>1. QueueTyped(queue)' /\ A!Event \in Events /\ UNCHANGED <<services, round>>
    BY <1>4, <1>6 DEF A!ReceiveEwma
  <2> DEFINE e == A!Event
             n == e.node
             old == IF data[n] = NoData THEN [latency |-> 0, cpu |-> 0] ELSE data[n]
  <2>2. /\ e.kind \in {"latency", "cpu"}
        /\ data' = IF data[n] = NoKey THEN data
                   ELSE [data EXCEPT ![n] = IF e.kind = "latency" THEN [old EXCEPT !.latency = e.value]
                                            ELSE [old EXCEPT !.cpu = e.value]]
    BY <1>6 DEF A!ReceiveEwma
  <2>3. /\ n \in Node /\ (e.kind = "latency" => e.value \in Samples.latency)
        /\ (e.kind = "cpu" => e.value \in Samples.cpu)
    BY <2>1, <2>2, EventShape
  <2>4. data[n] # NoKey => old \in ScorePair
    BY <1>1, <2>3 DEF ScorePair
  <2> HIDE DEF e, n, old
  <2>5. data' \in [Node -> ScorePair \union {NoData, NoKey}]
    BY <1>1, <2>2, <2>3, <2>4 DEF ScorePair
  <2> QED BY <1>1, <1>2, <2>1, <2>5, IdleStep
<1>7. CASE A!ReceiveNodeJoined
  <2>1. /\ QueueTyped(queue)' /\ A!Event \in Events /\ A!Event.node \in Node
        /\ UNCHANGED <<services, round>>
    BY <1>4, <1>7, EventShape DEF A!ReceiveNodeJoined
  <2>2. data' \in [Node -> ScorePair \union {NoData, NoKey}]
    BY <1>1, <1>7, <2>1 DEF A!ReceiveNodeJoined
  <2> QED BY <1>1, <1>2, <2>1, <2>2, IdleStep
<1> QED BY <1>3, <1>5, <1>6, <1>7 DEF A!Handle

LEMMA UsableArePods ==
  ASSUME NEW svc \in ServiceSnapshot
  PROVE  A!UsablePods(svc) \subseteq Pod
BY EventsAssumption DEF ServiceSnapshot, A!UsablePods, A!Kept, A!HostsOf

\* The updates that become due, and the decision of each.
LEMMA DecideKeeps ==
  ASSUME IInv, phase \in {"running", "exiting"}, UNCHANGED <<phase, setup>>,
         A!Tick \/ \E p \in Port : A!SkipUpdate(p) \/ A!ComputeRule(p)
  PROVE  IInv'
<1>1. /\ QueueTyped(queue)
      /\ data \in [Node -> ScorePair \union {NoData, NoKey}]
      /\ services \in [Port -> ServiceSnapshot \union {NoService}]
      /\ round \subseteq Port /\ \A p \in round : services[p] # NoService
  BY DEF IInv, TypeOK, QueueTyped, Work
<1>2. CASE A!Tick
  <2>1. /\ round' = {p \in Port : services[p] # NoService} /\ job = A!Idle
        /\ UNCHANGED <<queue, data, services, job, nft>>
    BY <1>2 DEF A!Tick, A!Waiting
  <2> QED BY <1>1, <2>1, IdleStep DEF QueueTyped
<1>3. ASSUME NEW p \in Port, A!SkipUpdate(p) PROVE IInv'
  <2>1. round' = round \ {p} /\ job = A!Idle /\ UNCHANGED <<queue, data, services, job, nft>>
    BY <1>3 DEF A!SkipUpdate
  <2> QED BY <1>1, <2>1, IdleStep DEF QueueTyped
<1>4. ASSUME NEW p \in Port, A!ComputeRule(p) PROVE IInv'
  <2>1. /\ p \in round /\ A!CanUpdate(services[p]) /\ round' = round \ {p}
        /\ UNCHANGED <<queue, data, services, nft>>
    BY <1>4 DEF A!ComputeRule
  <2>2. PICK T \in SUBSET A!UsablePods(services[p]) :
          job' = [stage |-> "chain", port |-> p, targets |-> T]
    BY <1>4 DEF A!ComputeRule
  <2>3. services[p] \in ServiceSnapshot /\ services[p] # NoService
    BY <1>1, <2>1
  <2>4. T \subseteq Pod
    BY <2>3, UsableArePods
  <2>5. job' \in Job /\ job'.stage = "chain" /\ job'.port = p /\ job'.targets = T
    BY <2>2, <2>4 DEF Job
  <2>6. TypeOK'
    BY <1>1, <2>1, <2>5 DEF IInv, TypeOK, QueueTyped
  <2>7. Memory' /\ Progress'
    BY DEF Memory, Progress
  <2>8. Work'
    <3>1. \A q \in round' : services'[q] # NoService
      BY <1>1, <2>1
    <3>2. /\ services'[p] # NoService /\ A!CanUpdate(services[p])'
          /\ T \subseteq A!UsablePods(services[p])'
      BY <2>1, <2>2, <2>3, SameChoice
    <3> QED BY <2>5, <3>1, <3>2 DEF Work
  <2>9. GotoLeadsToRule' /\ BaseRulesetOnce' /\ NothingFromEarlierRuns'
    BY <2>1 DEF IInv, GotoLeadsToRule, BaseRulesetOnce, NothingFromEarlierRuns, Serving
  <2> QED BY <2>6, <2>7, <2>8, <2>9 DEF IInv
<1> QED BY <1>2, <1>3, <1>4

\* The three commands of an update.
LEMMA CommandsKeep ==
  ASSUME IInv, phase \in {"running", "exiting"}, UNCHANGED <<phase, setup>>,
         A!CreateServiceChain \/ A!InstallRule \/ A!InstallElement \/ A!NftError
  PROVE  IInv'
<1> DEFINE Kinds == {"absent", "empty", "rule"}
<1>1. /\ job # A!Idle /\ UNCHANGED <<queue, data, services, round>>
  BY DEF A!CreateServiceChain, A!InstallRule, A!InstallElement, A!NftError, A!Idle
<1>2. /\ job \in Job /\ job.port \in Port /\ nft \in Ruleset /\ nft.chain \in Chain
      /\ services[job.port] # NoService
      /\ A!CanUpdate(services[job.port])
      /\ job.targets \subseteq A!UsablePods(services[job.port])
      /\ \A p \in round : services[p] # NoService
      /\ GotoLeadsToRule /\ NothingFromEarlierRuns /\ BaseRulesetOnce
      /\ (job.stage = "rule" => nft.chain.kind # "absent")
      /\ (job.stage = "element" => nft.chain.kind = "rule")
  BY <1>1 DEF IInv, TypeOK, Work, Ruleset
<1>3. \/ job' = A!Idle
      \/ job' # A!Idle /\ job' \in Job /\ job'.port = job.port /\ job'.targets = job.targets
  BY <1>2 DEF A!CreateServiceChain, A!InstallRule, A!InstallElement, A!NftError, A!Idle, Job
<1>4. A!Idle \in Job /\ A!Idle.stage = "idle"
  BY DEF A!Idle, Job
<1>5. \/ nft'.chain = nft.chain
      \/ nft'.chain.kind = "empty" /\ nft.chain.kind = "absent"
      \/ nft'.chain.kind = "rule"
  BY <1>2 DEF A!CreateServiceChain, A!InstallRule, A!InstallElement, A!NftError,
     A!AddServiceChain, A!ReplaceRule, A!Rule, A!EmptyChain, A!AddElement, Ruleset
<1>6. /\ nft'.table = nft.table /\ nft'.map = nft.map /\ nft'.set = nft.set /\ nft'.base = nft.base
      /\ nft'.jumps = nft.jumps /\ nft'.lookups = nft.lookups
      /\ nft'.elements \subseteq nft.elements \union {job.port}
      /\ nft'.elements = nft.elements \/ nft'.chain.kind = "rule"
  BY <1>2 DEF A!CreateServiceChain, A!InstallRule, A!InstallElement, A!NftError,
     A!AddServiceChain, A!ReplaceRule, A!AddElement, Ruleset
<1>7. nft' \in Ruleset
  <2>1. CASE A!CreateServiceChain
    BY <1>2, <2>1 DEF A!CreateServiceChain, A!AddServiceChain, A!EmptyChain, Ruleset, Chain
  <2>2. CASE A!InstallRule
    BY <1>2, <2>2 DEF A!InstallRule, A!ReplaceRule, A!Rule, Ruleset, Chain, Job
  <2>3. CASE A!InstallElement
    BY <1>2, <2>3 DEF A!InstallElement, A!AddElement, Ruleset
  <2>4. CASE A!NftError
    BY <1>2, <2>4 DEF A!NftError
  <2> QED BY <2>1, <2>2, <2>3, <2>4
<1>8. /\ job'.stage = "rule" => nft'.chain.kind # "absent"
      /\ job'.stage = "element" => nft'.chain.kind = "rule"
      /\ job'.stage = "idle" => job' = A!Idle
  <2>1. CASE A!CreateServiceChain
    BY <1>2, <2>1 DEF A!CreateServiceChain, A!AddServiceChain, A!EmptyChain, Ruleset, Job
  <2>2. CASE A!InstallRule
    BY <1>2, <2>2 DEF A!InstallRule, A!ReplaceRule, A!Rule, Ruleset, Job
  <2>3. CASE A!InstallElement \/ A!NftError
    BY <1>4, <2>3 DEF A!InstallElement, A!NftError
  <2> QED BY <2>1, <2>2, <2>3
<1>9. TypeOK'
  BY <1>1, <1>2, <1>3, <1>4, <1>7, <1>8 DEF IInv, TypeOK
<1>10. Memory' /\ Progress'
  BY DEF Memory, Progress
<1>11. Work'
  BY <1>1, <1>2, <1>3, <1>4, <1>8, SameChoice DEF Work
<1>12. GotoLeadsToRule'
  BY <1>2, <1>5, <1>6 DEF GotoLeadsToRule
<1>13. BaseRulesetOnce' /\ NothingFromEarlierRuns'
  BY <1>1, <1>2, <1>5, <1>6 DEF BaseRulesetOnce, NothingFromEarlierRuns, Serving
<1> QED BY <1>9, <1>10, <1>11, <1>12, <1>13 DEF IInv

LEMMA NextIInv == IInv /\ [Next]_vars => IInv'
<1> SUFFICES ASSUME IInv, [Next]_vars PROVE IInv'
  OBVIOUS
<1>1. CASE SettingUp
  BY <1>1, SetupKeeps
<1>2. CASE Dispatch \/ Signal \/ ActorStops \/ Die \/ Restart
  BY <1>2, LifeKeeps
<1>3. CASE Arrival
  BY <1>3, ArrivalKeeps
<1>4. CASE ActorStep
  <2>1. phase \in {"running", "exiting"} /\ UNCHANGED <<phase, setup>>
    BY <1>4 DEF ActorStep
  <2>2. CASE A!Handle
    BY <2>1, <2>2, HandleKeeps
  <2>3. CASE A!Tick \/ \E p \in Port : A!SkipUpdate(p) \/ A!ComputeRule(p)
    BY <2>1, <2>3, DecideKeeps
  <2>4. CASE A!CreateServiceChain \/ A!InstallRule \/ A!InstallElement \/ A!NftError
    BY <2>1, <2>4, CommandsKeep
  <2> QED BY <1>4, <2>2, <2>3, <2>4 DEF ActorStep, A!ActorNext, A!Update
<1>5. CASE UNCHANGED vars
  <2>1. UNCHANGED <<phase, setup, queue, data, services, round, job, nft>>
    BY <1>5 DEF vars, memory
  <2>2. Work'
    BY <2>1, SameChoice DEF IInv, Work
  <2> QED BY <2>1, <2>2 DEF IInv, TypeOK, Memory, Progress, GotoLeadsToRule, NothingFromEarlierRuns,
          BaseRulesetOnce, Serving
<1> QED BY <1>1, <1>2, <1>3, <1>4, <1>5 DEF Next
-----------------------------------------------------------------------------
\* The strengthened invariant holds over all runs of the program.
LEMMA Invariance == Spec => []IInv
<1>1. Init => IInv
  BY InitIInv
<1>2. IInv /\ [Next]_vars => IInv'
  BY NextIInv
<1> QED BY <1>1, <1>2, PTL DEF Spec

\* The channel keeps to its bound and every score and target comes from an event
\* (actor.rs:61-145).
THEOREM ProberTyping == Spec => []TypeOK
<1>1. IInv => TypeOK
  BY DEF IInv
<1> QED BY <1>1, Invariance, PTL

\* Whichever nft command fails and wherever the process dies, no nodeport is
\* ever sent to a chain without a rule (update_nftables.rs:211-303).
THEOREM NoGotoToEmptyChain == Spec => []GotoLeadsToRule
<1>1. IInv => GotoLeadsToRule
  BY DEF IInv
<1> QED BY <1>1, Invariance, PTL

\* What an earlier run of the program installed is gone once the actor is at
\* work, for any number of runs (setup_nftables.rs:47-71).
THEOREM StartsFromNothing == Spec => []NothingFromEarlierRuns
<1>1. IInv => NothingFromEarlierRuns
  BY DEF IInv
<1> QED BY <1>1, Invariance, PTL

\* The actor never runs without the base rules, nor with any of them twice
\* (setup_nftables.rs:58-227).
THEOREM SetupIsExact == Spec => []BaseRulesetOnce
<1>1. IInv => BaseRulesetOnce
  BY DEF IInv
<1> QED BY <1>1, Invariance, PTL

\* A rule names only pods of the snapshot of that moment, on nodes that are
\* usable by the scores of that moment, though both were read several commands
\* earlier (actor.rs:88-121).
THEOREM RulesAreCurrent == Spec => RulesMatchSnapshot
<1> DEFINE Current ==
      nft'.chain # nft.chain /\ nft'.chain.kind = "rule" =>
        /\ services[nft'.chain.port] # NoService
        /\ A!CanUpdate(services[nft'.chain.port])
        /\ nft'.chain.targets \subseteq A!UsablePods(services[nft'.chain.port])
<1>1. IInv /\ [Next]_vars => Current
  <2> SUFFICES ASSUME IInv, [Next]_vars, nft'.chain # nft.chain, nft'.chain.kind = "rule"
               PROVE  /\ services[nft'.chain.port] # NoService
                      /\ A!CanUpdate(services[nft'.chain.port])
                      /\ nft'.chain.targets \subseteq A!UsablePods(services[nft'.chain.port])
    OBVIOUS
  <2>1. nft \in Ruleset
    BY DEF IInv, TypeOK
  <2>2. ~SettingUp
    <3>1. ASSUME S!SetupNext PROVE nft'.chain = nft.chain \/ nft'.chain = S!NoChain
      BY <2>1, <3>1 DEF S!SetupNext, S!ReadNodeIp, S!SetupError, S!DeleteTable, S!NoRuleset,
         S!CreateTable, S!CreateMap, S!CreateSet, S!CreateChains, S!CreateJump, S!CreateLookup,
         S!Apply, S!AddTable, S!AddMap, S!AddSet, S!AddBaseChains, S!AddJump, S!AddLookup, Ruleset
    <3>2. S!NoChain.kind = "absent"
      BY DEF S!NoChain
    <3> QED BY <3>1, <3>2 DEF SettingUp
  <2>3. ActorStep
    BY <2>2 DEF Next, vars, Dispatch, Arrival, Signal, ActorStops, Die, Restart
  <2>4. A!InstallRule
    <3>1. ASSUME A!Handle \/ A!Tick \/ A!NftError \/ \E p \in Port : A!SkipUpdate(p) \/ A!ComputeRule(p)
          PROVE  nft' = nft
      BY <3>1 DEF A!Handle, A!ReceiveLagged, A!ReceiveServiceChanged, A!ReceiveEwma,
         A!ReceiveNodeJoined, A!Tick, A!NftError, A!SkipUpdate, A!ComputeRule
    <3>2. ~A!CreateServiceChain
      BY <2>1 DEF A!CreateServiceChain, A!AddServiceChain, A!EmptyChain, Ruleset, Chain
    <3>3. ~A!InstallElement
      BY <2>1 DEF A!InstallElement, A!AddElement, Ruleset
    <3> QED BY <2>3, <3>1, <3>2, <3>3 DEF ActorStep, A!ActorNext, A!Update
  <2>5. nft'.chain.port = job.port /\ nft'.chain.targets = job.targets
    BY <2>1, <2>4 DEF A!InstallRule, A!ReplaceRule, A!Rule, Ruleset
  <2>6. job # A!Idle /\ job.port \in Port
    BY <2>4 DEF A!InstallRule, A!Idle, IInv, TypeOK
  <2> QED BY <2>5, <2>6 DEF IInv, Work
<1>2. IInv /\ [Next]_vars => [Current]_vars
  BY <1>1
<1> QED BY <1>2, Invariance, PTL DEF Spec, RulesMatchSnapshot

\* While the program runs no event takes a node's score away (actor.rs:124-144).
THEOREM ScoresAreKept == Spec => ScoresSurviveRejoin
<1> DEFINE ScoreKept ==
      phase' # "down" =>
        \A n \in Node : data[n] \notin {NoKey, NoData} => data'[n] \notin {NoKey, NoData}
<1>1. IInv /\ [Next]_vars => ScoreKept
  <2> SUFFICES ASSUME IInv, [Next]_vars, phase' # "down",
                      NEW n \in Node, data[n] \notin {NoKey, NoData}
               PROVE  data'[n] \notin {NoKey, NoData}
    OBVIOUS
  <2>1. data \in [Node -> ScorePair \union {NoData, NoKey}] /\ QueueTyped(queue)
    BY DEF IInv, TypeOK, QueueTyped
  <2>2. CASE A!ReceiveEwma
    <3> DEFINE e == A!Event
               k == e.node
               old == IF data[k] = NoData THEN [latency |-> 0, cpu |-> 0] ELSE data[k]
               new == IF e.kind = "latency" THEN [old EXCEPT !.latency = e.value]
                      ELSE [old EXCEPT !.cpu = e.value]
    <3>1. e \in Events
      BY <2>1, <2>2, TakeTyped DEF A!ReceiveEwma
    <3>2. /\ e.kind \in {"latency", "cpu"}
          /\ data' = IF data[k] = NoKey THEN data ELSE [data EXCEPT ![k] = new]
      BY <2>2 DEF A!ReceiveEwma
    <3>3. k \in Node /\ e.value \in Nat
      BY <3>1, <3>2, EventShape, EventsAssumption
    <3>4. data[k] # NoKey => old \in [latency : Nat, cpu : Nat]
      BY <2>1, <3>3, EventsAssumption DEF ScorePair
    <3> HIDE DEF e, k, old
    <3>5. data[k] # NoKey => new \in [latency : Nat, cpu : Nat]
      BY <3>3, <3>4
    <3>6. data[k] # NoKey => new \notin {NoKey, NoData}
      BY <3>5, EventsAssumption
    <3> HIDE DEF new
    <3> QED BY <2>1, <3>2, <3>3, <3>6
  <2>3. CASE A!ReceiveNodeJoined
    BY <2>1, <2>3 DEF A!ReceiveNodeJoined
  <2>4. CASE data' = data
    BY <2>4
  <2>5. ASSUME A!ActorNext PROVE A!ReceiveEwma \/ A!ReceiveNodeJoined \/ data' = data
    BY <2>5 DEF A!ActorNext, A!Handle, A!Update, A!ReceiveLagged, A!ReceiveServiceChanged, A!Tick,
       A!NftError, A!SkipUpdate, A!ComputeRule, A!CreateServiceChain, A!InstallRule, A!InstallElement
  <2>6. ASSUME ~ActorStep PROVE data' = data
    BY <2>6 DEF Next, vars, memory, SettingUp, Dispatch, Arrival, Signal, ActorStops, Die, Restart
  <2> QED BY <2>2, <2>3, <2>4, <2>5, <2>6 DEF ActorStep
<1>2. IInv /\ [Next]_vars => [ScoreKept]_vars
  BY <1>1
<1> QED BY <1>2, Invariance, PTL DEF Spec, ScoresSurviveRejoin
=============================================================================
