--------------------------- MODULE ServicePathProofs ---------------------------
(***************************************************************************)
(* What holds on a pod's way into the kernel, for any nodes, pods, ports,  *)
(* changes of the cluster, failures and length of the channel: whatever    *)
(* events are lost or late, only measured nodes are served.                *)
(***************************************************************************)
EXTENDS ServicePath, BroadcastProofs, FiniteSetTheorems

Readers == {"actor", "latency"}

\* A service as the watch sends it: under a nodeport that the Service has or
\* had, and each pod is listed under its own node.
Service ==
  {s \in [port : Port \intersect Nodeports, pods : [Node -> SUBSET Pod]] :
     \A n \in Node : \A p \in s.pods[n] : NodeOf[p] = n}

Msg ==
  [kind : {"service"}, svc : Service]
    \union [kind : {"latency"}, node : Node, value : {0, Positive}]
    \union [kind : {"cpu"}, node : Node, value : CpuSamples]
    \union [kind : {"joined"}, node : Node]

Datapoint == [latency : {0, Positive}, cpu : CpuSamples \union {0}]
Job ==
  [stage : {"idle", "chain", "rule", "element"}, port : Port \union {"none"}, targets : SUBSET Pod]
Chain ==
  [kind : {"absent", "empty", "rule"}, port : Port \union {"none"}, targets : SUBSET Pod]
Ruleset ==
  [table : BOOLEAN, map : BOOLEAN, set : BOOLEAN, base : BOOLEAN,
   jumps : Nat, lookups : Nat, chain : Chain, elements : SUBSET Port]

WatchTyped ==
  /\ endpoints \in Objects /\ nodeport \in Nodeports /\ changes \in 0..MaxChanges
  /\ stream \in Seq(Objects) /\ Len(stream) <= changes + 1
  /\ watcher \in [stage : {"idle", "get_service", "ended"}, addresses : SUBSET Pod]

ProbeTyped ==
  /\ probe \in [stage : {"spawned", "drain", "ping", "wait"}, pods : [Node -> SUBSET Pod]]
  /\ latencies \in [Node -> {-1, 0, Positive}]
  /\ pinging \subseteq Node /\ stuck \subseteq pinging /\ answers \subseteq Node \X Answers
  /\ pinging # {} => probe.stage = "ping"

ActorTyped ==
  /\ data \in [Node -> Datapoint \union {NoData, NoKey}]
  /\ services \in [Port -> Service \union {NoService}]
  /\ round \subseteq {p \in Port : services[p] # NoService}
  /\ job \in Job /\ (job # A!Idle => job.port \in Port)
  /\ nft \in Ruleset

\* The probe has measured the node at 1 ms or more.
Measured(n) == latencies[n] = Positive

Sound == {m \in Msg : m.kind = "latency" /\ m.value = Positive => Measured(m.node)}

\* Every positive latency that the actor holds, or will read of, was measured;
\* and so is every node that an update or the kernel sends to.
MeasureInv ==
  /\ queue \in Channel(Readers, Sound)
  /\ \A n \in Node : data[n] \in Datapoint /\ data[n].latency = Positive => Measured(n)
  /\ \A p \in job.targets \union nft.chain.targets : NodeOf[p] \in Node /\ Measured(NodeOf[p])

IInv == WatchTyped /\ ProbeTyped /\ ActorTyped /\ joined \subseteq Node /\ MeasureInv
-----------------------------------------------------------------------------
\* The tasks share one channel.
LEMMA OneChannel ==
  /\ \A c, m : W!Send(c, m) = Send(c, m) /\ L!Send(c, m) = Send(c, m)
  /\ \A c, r : /\ L!CanTake(c, r) <=> CanTake(c, r)
               /\ A!CanTake(c, r) <=> CanTake(c, r)
               /\ L!Take(c, r) = Take(c, r) /\ A!Take(c, r) = Take(c, r)
               /\ L!SkipLagged(c, r) = SkipLagged(c, r) /\ A!SkipLagged(c, r) = SkipLagged(c, r)
  /\ L!Subscribed = Subscribed
BY DEF W!Send, L!Send, Send, W!Receive, L!Receive, Receive, L!CanTake, A!CanTake, CanTake,
   L!Take, A!Take, Take, L!SkipLagged, A!SkipLagged, SkipLagged, L!Subscribed, Subscribed

LEMMA InitIInv == Init => IInv
<1> SUFFICES ASSUME Init PROVE IInv
  OBVIOUS
<1>1. WatchTyped
  <2>1. endpoints \in Objects /\ nodeport \in Nodeports /\ changes = 0 /\ stream = <<endpoints>>
        /\ watcher = [stage |-> "idle", addresses |-> {}]
    BY DEF Init, W!EndpointsInit, W!WatcherIdle
  <2>2. stream \in Seq(Objects) /\ Len(stream) = 1
    BY <2>1
  <2> QED BY <2>1, <2>2, EndpointsAssumption DEF WatchTyped
<1>2. ProbeTyped
  BY DEF Init, L!ProbeInit, ProbeTyped
<1>3. nft \in Ruleset /\ nft.chain.targets = {}
  BY DEF Init, BaseRuleset, NoRuleset, NoChain, Ruleset, Chain
<1>4. PICK v \in CpuSamples :
        data = [n \in Node |-> IF n \in Known THEN [latency |-> 0, cpu |-> v] ELSE NoKey]
  BY DEF Init
<1>5. services = [p \in Port |-> NoService] /\ round = {} /\ job = A!Idle
  BY DEF Init, A!ActorInit
<1>6. data \in [Node -> Datapoint \union {NoData, NoKey}]
  BY <1>4 DEF Datapoint
<1>7. ActorTyped
  BY <1>3, <1>5, <1>6 DEF ActorTyped, A!Idle, Job
<1>8. queue \in Channel(Readers, Sound)
  <2>1. /\ Subscribed \in Receiver(Sound) /\ Unsubscribed \in Receiver(Sound)
        /\ Len(Subscribed.msgs) = 0 /\ Len(Unsubscribed.msgs) = 0
    BY EmptySeq DEF Subscribed, Unsubscribed, Receiver
  <2> QED BY <2>1, CapacityAssumption DEF Init, Channel, Readers
<1>9. MeasureInv
  <2>1. \A n \in Node : data[n] \in Datapoint => data[n].latency = 0
    BY <1>4, SentinelAssumption DEF Datapoint
  <2>2. job.targets = {}
    BY <1>5 DEF A!Idle
  <2> QED BY <1>3, <1>8, <2>1, <2>2, SampleAssumption DEF MeasureInv
<1>10. joined \subseteq Node
  BY SampleAssumption DEF Init
<1> QED BY <1>1, <1>2, <1>7, <1>9, <1>10 DEF IInv

\* A step that leaves the actor alone: no measurement is taken back, and what
\* is sent is sound.
LEMMA FrameStep ==
  ASSUME IInv, UNCHANGED actorVars, WatchTyped', ProbeTyped', joined' \subseteq Node,
         \A n \in Node : Measured(n) => Measured(n)',
         queue' \in Channel(Readers, Sound')
  PROVE  IInv'
<1>1. UNCHANGED <<data, services, round, job, nft>>
  BY DEF actorVars
<1>2. ActorTyped'
  BY <1>1 DEF IInv, ActorTyped
<1>3. MeasureInv'
  BY <1>1 DEF IInv, MeasureInv
<1> QED BY <1>2, <1>3 DEF IInv

\* A sound event is sent, and the latencies stay as they are.
LEMMA SendSound ==
  ASSUME IInv, NEW m \in Msg, m.kind # "latency", queue' = Send(queue, m), UNCHANGED latencies
  PROVE  queue' \in Channel(Readers, Sound') /\ \A n \in Node : Measured(n) => Measured(n)'
<1>1. Sound' = Sound /\ m \in Sound
  BY DEF Sound, Measured
<1> QED BY <1>1, SendProperties DEF IInv, MeasureInv, Measured

\* What the watch announces for the object it holds.
Announced ==
  [kind |-> "service", svc |-> [port |-> nodeport, pods |-> W!Grouped(watcher.addresses)]]

LEMMA PublishSends ==
  ASSUME IInv, W!Publish
  PROVE  /\ Announced \in Msg /\ Announced.kind = "service" /\ Announced.svc \in Service
         /\ queue' = Send(queue, Announced)
<1>1. nodeport \in Nodeports /\ watcher.addresses \in SUBSET Pod
  BY DEF IInv, WatchTyped
<1>2. nodeport \in Port
  BY <1>1, EndpointsAssumption DEF W!Publish
<1>3. W!Grouped(watcher.addresses) \in [Node -> SUBSET Pod]
      /\ \A n \in Node : \A p \in W!Grouped(watcher.addresses)[n] : NodeOf[p] = n
  BY <1>1 DEF W!Grouped
<1>4. Announced.svc \in Service
  BY <1>1, <1>2, <1>3 DEF Announced, Service
<1>5. Announced \in Msg /\ Announced.kind = "service"
  BY <1>4 DEF Announced, Msg
<1>6. queue' = Send(queue, Announced)
  BY OneChannel DEF W!Publish, Announced
<1> QED BY <1>4, <1>5, <1>6

\* The cluster and the watch of the Endpoints object.
LEMMA WatchKeeps ==
  ASSUME IInv, ClusterChange \/ WatchStep \/ WatchError
  PROVE  IInv'
<1>1. UNCHANGED <<probeVars, actorVars, joined>>
  BY DEF ClusterChange, WatchStep, WatchError
<1>2. ProbeTyped' /\ joined' \subseteq Node /\ UNCHANGED latencies
  BY <1>1 DEF IInv, ProbeTyped, probeVars
<1>3. /\ endpoints \in Objects /\ nodeport \in Nodeports /\ changes \in 0..MaxChanges
      /\ stream \in Seq(Objects) /\ Len(stream) \in Nat /\ Len(stream) <= changes + 1
      /\ watcher \in [stage : {"idle", "get_service", "ended"}, addresses : SUBSET Pod]
      /\ MaxChanges \in Nat
  BY LenProperties, EndpointsAssumption DEF IInv, WatchTyped
<1>4. ASSUME queue' = queue, WatchTyped' PROVE IInv'
  <2>1. Sound' = Sound
    BY <1>2 DEF Sound, Measured
  <2> QED BY <1>1, <1>2, <1>4, <2>1, FrameStep DEF IInv, MeasureInv, Measured
<1>5. CASE W!EndpointsChange
  <2>1. /\ endpoints' \in Objects /\ stream' = Append(stream, endpoints') /\ changes' = changes + 1
        /\ changes < MaxChanges /\ UNCHANGED <<nodeport, watcher, queue>>
    BY <1>5 DEF W!EndpointsChange
  <2>2. stream' \in Seq(Objects) /\ Len(stream') = Len(stream) + 1
    BY <1>3, <2>1, AppendProperties
  <2> QED BY <1>3, <1>4, <2>1, <2>2 DEF WatchTyped
<1>6. CASE W!NodeportChange
  <2>1. /\ nodeport' \in Nodeports /\ changes' = changes + 1
        /\ changes < MaxChanges /\ UNCHANGED <<endpoints, stream, watcher, queue>>
    BY <1>6 DEF W!NodeportChange
  <2> QED BY <1>3, <1>4, <2>1 DEF WatchTyped
<1>7. CASE W!Ignore \/ W!TakeObject
  <2>1. stream # << >> /\ stream' = Tail(stream) /\ queue' = queue /\ UNCHANGED cluster
    BY <1>7 DEF W!Ignore, W!TakeObject, W!cluster, cluster
  <2>2. Head(stream) \in Objects /\ stream' \in Seq(Objects) /\ Len(stream') = Len(stream) - 1
    BY <1>3, <2>1, HeadTailProperties
  <2>3. watcher' \in [stage : {"idle", "get_service", "ended"}, addresses : SUBSET Pod]
    <3>1. CASE W!Ignore
      BY <1>3, <3>1 DEF W!Ignore
    <3>2. CASE W!TakeObject
      <4>1. Head(stream) \in SUBSET Pod
        BY <2>2, <3>2, EndpointsAssumption DEF W!TakeObject
      <4>2. watcher' = [stage |-> "get_service", addresses |-> Head(stream)]
        BY <3>2 DEF W!TakeObject
      <4> QED BY <4>1, <4>2
    <3> QED BY <1>7, <3>1, <3>2
  <2> QED BY <1>3, <1>4, <2>1, <2>2, <2>3 DEF WatchTyped, cluster
<1>8. CASE W!DropChange \/ W!WatchError
  <2>1. queue' = queue /\ UNCHANGED <<cluster, stream>>
    BY <1>8 DEF W!DropChange, W!WatchError, W!cluster, cluster
  <2>2. watcher' \in [stage : {"idle", "get_service", "ended"}, addresses : SUBSET Pod]
    BY <1>8 DEF W!DropChange, W!WatchError, W!WatcherIdle, W!WatcherEnded
  <2> QED BY <1>3, <1>4, <2>1, <2>2 DEF WatchTyped, cluster
<1>9. CASE W!Publish
  <2>1. Announced \in Msg /\ Announced.kind # "latency" /\ queue' = Send(queue, Announced)
    BY <1>9, PublishSends
  <2>5. WatchTyped'
    BY <1>3, <1>9 DEF W!Publish, W!WatcherIdle, W!cluster, WatchTyped
  <2> QED BY <1>1, <1>2, <2>1, <2>5, SendSound, FrameStep
<1> QED BY <1>5, <1>6, <1>7, <1>8, <1>9 DEF ClusterChange, WatchStep, WatchError, W!Watch

\* The environment's node and CPU events.
LEMMA NodesKeep ==
  ASSUME IInv, NEW n \in Node, Join(n) \/ SampleCpu(n)
  PROVE  IInv'
<1>1. UNCHANGED <<watchVars, probeVars, actorVars>> /\ joined' \subseteq Node
  BY DEF Join, SampleCpu, IInv
<1>2. PICK m \in Msg : m.kind # "latency" /\ queue' = Send(queue, m)
  <2>1. CASE Join(n)
    <3>1. [kind |-> "joined", node |-> n] \in Msg
      BY DEF Msg
    <3> QED BY <2>1, <3>1 DEF Join, A!NodeJoined
  <2>2. CASE SampleCpu(n)
    <3>1. PICK v \in CpuSamples : queue' = Send(queue, [kind |-> "cpu", node |-> n, value |-> v])
      BY <2>2 DEF SampleCpu, A!Cpu
    <3>2. [kind |-> "cpu", node |-> n, value |-> v] \in Msg
      BY DEF Msg
    <3> QED BY <3>1, <3>2
  <2> QED BY <2>1, <2>2
<1>3. WatchTyped' /\ ProbeTyped'
  BY <1>1 DEF IInv, WatchTyped, ProbeTyped, watchVars, cluster, probeVars
<1> QED BY <1>1, <1>2, <1>3, SendSound, FrameStep DEF probeVars

\* The latency probe: what it sends it has measured, and a latency of 1 ms or
\* more never goes back to 0.
LEMMA ProbeKeeps ==
  ASSUME IInv, ProbeStep \/ ProbeHang \/ ProbeNextRound
  PROVE  IInv'
<1> DEFINE Probe == [stage : {"spawned", "drain", "ping", "wait"}, pods : [Node -> SUBSET Pod]]
<1>1. UNCHANGED <<watchVars, actorVars, joined>> /\ "latency" \in Readers
  BY DEF ProbeStep, ProbeHang, ProbeNextRound, Readers
<1>2. WatchTyped' /\ joined' \subseteq Node
  BY <1>1 DEF IInv, WatchTyped, watchVars, cluster
<1>3. /\ probe \in Probe /\ latencies \in [Node -> {-1, 0, Positive}]
      /\ pinging \subseteq Node /\ stuck \subseteq pinging /\ answers \subseteq Node \X Answers
      /\ (pinging # {} => probe.stage = "ping")
      /\ queue \in Channel(Readers, Sound)
  BY DEF IInv, ProbeTyped, MeasureInv
<1>4. ASSUME UNCHANGED latencies, ProbeTyped', queue' \in Channel(Readers, Sound) PROVE IInv'
  <2>1. Sound' = Sound
    BY <1>4 DEF Sound, Measured
  <2> QED BY <1>1, <1>2, <1>4, <2>1, FrameStep DEF Measured
<1>5. CASE L!Subscribe
  <2>1. queue' = [queue EXCEPT !["latency"] = Subscribed]
    BY <1>5, OneChannel DEF L!Subscribe
  <2>2. ProbeTyped'
    BY <1>3, <1>5 DEF L!Subscribe, ProbeTyped
  <2>3. [queue EXCEPT !["latency"] = Subscribed] \in Channel(Readers, Sound)
    BY <1>1, <1>3, SubscribeProperties
  <2>4. UNCHANGED latencies
    BY <1>5 DEF L!Subscribe
  <2> QED BY <1>4, <2>1, <2>2, <2>3, <2>4
<1>6. CASE L!DrainEvent
  <2> DEFINE e == Head(queue["latency"].msgs)
  <2>1. /\ CanTake(queue, "latency") /\ queue' = Take(queue, "latency")
        /\ probe' = IF e.kind = "service" THEN [probe EXCEPT !.pods = e.svc.pods] ELSE probe
        /\ UNCHANGED <<latencies, pinging, stuck, answers>> /\ probe.stage = "drain"
    BY <1>6, OneChannel DEF L!DrainEvent
  <2>2. queue' \in Channel(Readers, Sound) /\ e \in Msg
    BY <1>1, <1>3, <2>1, TakeProperties DEF Sound
  <2> HIDE DEF e
  <2>3. e.kind = "service" => e.svc.pods \in [Node -> SUBSET Pod]
    BY <2>2 DEF Msg, Service
  <2>4. ProbeTyped'
    BY <1>3, <2>1, <2>3 DEF ProbeTyped
  <2> QED BY <1>4, <2>1, <2>2, <2>4
<1>7. CASE L!StartRound
  <2>1. queue' = SkipLagged(queue, "latency")
    BY <1>7, OneChannel DEF L!StartRound
  <2>2. ProbeTyped'
    BY <1>3, <1>7 DEF L!StartRound, ProbeTyped
  <2>3. SkipLagged(queue, "latency") \in Channel(Readers, Sound)
    BY <1>1, <1>3, SkipProperties
  <2>4. UNCHANGED latencies
    BY <1>7 DEF L!StartRound
  <2> QED BY <1>4, <2>1, <2>2, <2>3, <2>4
<1>8. ASSUME queue' = queue, UNCHANGED latencies, ProbeTyped' PROVE IInv'
  BY <1>3, <1>4, <1>8
<1>9. ASSUME NEW n \in Node, L!Answer(n, Alive) \/ L!NoAnswer(n, Alive) \/ L!Hang(n, Alive) PROVE IInv'
  <2>1. queue' = queue /\ UNCHANGED <<latencies, probe>>
    BY <1>9 DEF L!Answer, L!NoAnswer, L!Hang
  <2>2. pinging' \subseteq Node /\ stuck' \subseteq pinging' /\ answers' \subseteq Node \X Answers
    BY <1>3, <1>9 DEF L!Answer, L!NoAnswer, L!Hang
  <2>3. pinging' \subseteq pinging
    BY <1>9 DEF L!Answer, L!NoAnswer, L!Hang
  <2>4. ProbeTyped'
    BY <1>3, <2>1, <2>2, <2>3 DEF ProbeTyped
  <2> QED BY <1>8, <2>1, <2>4
<1>10. ASSUME NEW n \in Node, NEW ms \in Answers, L!Report(n, ms) PROVE IInv'
  <2> DEFINE new == L!Ewma(latencies[n], ms)
             m == [kind |-> "latency", node |-> n, value |-> latencies'[n]]
  <2>1. /\ latencies' = [latencies EXCEPT ![n] = new] /\ queue' = Send(queue, m)
        /\ answers' = answers \ {<<n, ms>>} /\ UNCHANGED <<probe, pinging, stuck>>
    BY <1>10, OneChannel DEF L!Report
  <2>2. ms \in {0, Positive} /\ Positive \in Nat /\ Positive # 0
    BY SampleAssumption
  <2>3. new \in {0, Positive} /\ (latencies[n] = Positive => new = Positive)
    BY <1>3, <2>2 DEF L!Ewma
  <2> HIDE DEF new
  <2>4. latencies' \in [Node -> {-1, 0, Positive}] /\ latencies'[n] = new
    BY <1>3, <2>1, <2>3
  <2>5. \A k \in Node : Measured(k) => Measured(k)'
    BY <1>3, <2>1, <2>3 DEF Measured
  <2>6. m \in Msg /\ m.node = n /\ m.value = latencies'[n]
    BY <2>3, <2>4 DEF Msg
  <2>7. Sound \subseteq Sound' /\ m \in Sound'
    <3>1. m \in Sound'
      BY <2>6 DEF Sound, Measured
    <3>2. \A e \in Msg : e.kind = "latency" => e.node \in Node
      BY DEF Msg
    <3> QED BY <2>5, <3>1, <3>2 DEF Sound
  <2>8. queue' \in Channel(Readers, Sound')
    BY <1>3, <2>1, <2>7, ChannelWidens, SendProperties
  <2>9. ProbeTyped'
    BY <1>3, <2>1, <2>4 DEF ProbeTyped
  <2> QED BY <1>1, <1>2, <2>5, <2>8, <2>9, FrameStep
<1>11. CASE L!RoundDone \/ L!NextRound
  <2>1. queue' = queue /\ UNCHANGED <<latencies, pinging, stuck, answers>> /\ pinging = {}
    BY <1>3, <1>11 DEF L!RoundDone, L!NextRound, L!AllBack
  <2>2. probe' \in Probe
    BY <1>3, <1>11 DEF L!RoundDone, L!NextRound
  <2>3. ProbeTyped'
    BY <1>3, <2>1, <2>2 DEF ProbeTyped
  <2> QED BY <1>8, <2>1, <2>3
<1> QED BY <1>5, <1>6, <1>7, <1>9, <1>10, <1>11 DEF ProbeStep, L!ProbeStep, ProbeHang, ProbeNextRound

\* A step of the actor leaves the probe's measurements as they are.
LEMMA ActorFrame ==
  ASSUME IInv, UNCHANGED <<watchVars, probeVars, joined>>, ActorTyped',
         queue' \in Channel(Readers, Sound),
         \A n \in Node : data'[n] \in Datapoint /\ data'[n].latency = Positive => Measured(n),
         \A p \in job'.targets \union nft'.chain.targets : NodeOf[p] \in Node /\ Measured(NodeOf[p])
  PROVE  IInv'
<1>1. UNCHANGED <<latencies, joined>> /\ WatchTyped' /\ ProbeTyped'
  BY DEF IInv, watchVars, cluster, probeVars, WatchTyped, ProbeTyped
<1>2. Sound' = Sound
  BY <1>1 DEF Sound, Measured
<1>3. MeasureInv'
  BY <1>1, <1>2 DEF MeasureInv, Measured
<1> QED BY <1>1, <1>3 DEF IInv

LEMMA HandleKeeps ==
  ASSUME IInv, ActorHandles
  PROVE  IInv'
<1> DEFINE e == Head(queue["actor"].msgs)
<1>1. UNCHANGED <<watchVars, probeVars, joined>> /\ "actor" \in Readers
  BY DEF ActorHandles, Readers
<1>2. /\ data \in [Node -> Datapoint \union {NoData, NoKey}]
      /\ services \in [Port -> Service \union {NoService}]
      /\ round \subseteq {p \in Port : services[p] # NoService}
      /\ queue \in Channel(Readers, Sound)
      /\ \A n \in Node : data[n] \in Datapoint /\ data[n].latency = Positive => Measured(n)
      /\ \A p \in job.targets \union nft.chain.targets : NodeOf[p] \in Node /\ Measured(NodeOf[p])
  BY DEF IInv, ActorTyped, MeasureInv
<1>3. ASSUME UNCHANGED <<job, nft>>,
             data' \in [Node -> Datapoint \union {NoData, NoKey}],
             services' \in [Port -> Service \union {NoService}],
             round' \subseteq {p \in Port : services'[p] # NoService}
      PROVE  ActorTyped'
  BY <1>3 DEF IInv, ActorTyped, A!Idle
<1>4. CASE A!ReceiveLagged
  <2>1. queue' = SkipLagged(queue, "actor") /\ UNCHANGED <<data, services, round, job, nft>>
    BY <1>4, OneChannel DEF A!ReceiveLagged
  <2>2. SkipLagged(queue, "actor") \in Channel(Readers, Sound)
    BY <1>1, <1>2, SkipProperties
  <2> QED BY <1>1, <1>2, <1>3, <2>1, <2>2, ActorFrame
<1>5. CASE A!ReceiveServiceChanged \/ A!ReceiveEwma \/ A!ReceiveNodeJoined
  <2>1. CanTake(queue, "actor") /\ queue' = Take(queue, "actor") /\ UNCHANGED <<job, nft>>
    BY <1>5, OneChannel DEF A!ReceiveServiceChanged, A!ReceiveEwma, A!ReceiveNodeJoined
  <2>2. Take(queue, "actor") \in Channel(Readers, Sound) /\ e \in Sound
    BY <1>1, <1>2, <2>1, TakeProperties
  <2>3. A!Event = e
    BY DEF A!Event
  <2> HIDE DEF e
  <2>4. e \in Msg /\ (e.kind = "latency" /\ e.value = Positive => Measured(e.node))
    BY <2>2 DEF Sound
  <2>5. CASE A!ReceiveServiceChanged
    <3> DEFINE svc == e.svc
    <3>1. /\ e.kind = "service" /\ UNCHANGED data
          /\ services' = [services EXCEPT ![svc.port] = svc] /\ round' = {svc.port}
      BY <2>3, <2>5 DEF A!ReceiveServiceChanged
    <3>2. svc \in Service
      BY <2>4, <3>1 DEF Msg
    <3> HIDE DEF svc
    <3>3. svc.port \in Port /\ svc # NoService
      BY <3>2, SentinelAssumption DEF Service
    <3>4. ActorTyped'
      BY <1>2, <1>3, <2>1, <3>1, <3>2, <3>3
    <3> QED BY <1>1, <1>2, <2>1, <2>2, <3>1, <3>4, ActorFrame
  <2>6. CASE A!ReceiveEwma
    <3> DEFINE n == e.node
               old == IF data[n] = NoData THEN [latency |-> 0, cpu |-> 0] ELSE data[n]
               new == IF e.kind = "latency" THEN [old EXCEPT !.latency = e.value]
                      ELSE [old EXCEPT !.cpu = e.value]
    <3>1. /\ e.kind \in {"latency", "cpu"} /\ UNCHANGED <<services, round>>
          /\ data' = IF data[n] = NoKey THEN data ELSE [data EXCEPT ![n] = new]
      BY <2>3, <2>6 DEF A!ReceiveEwma
    <3>2. /\ n \in Node /\ (e.kind = "latency" => e.value \in {0, Positive})
          /\ (e.kind = "cpu" => e.value \in CpuSamples)
      BY <2>4, <3>1 DEF Msg
    <3>3. data[n] # NoKey => old \in Datapoint /\ (old.latency = Positive => Measured(n))
      BY <1>2, <3>2, SampleAssumption DEF Datapoint
    <3> HIDE DEF old
    <3>4. data[n] # NoKey => new \in Datapoint /\ (new.latency = Positive => Measured(n))
      <4>1. CASE e.kind = "latency"
        BY <2>4, <3>2, <3>3, <4>1 DEF Datapoint
      <4>2. CASE e.kind = "cpu"
        BY <3>2, <3>3, <4>2 DEF Datapoint
      <4> QED BY <3>1, <4>1, <4>2
    <3> HIDE DEF new, n
    <3>5. /\ data' \in [Node -> Datapoint \union {NoData, NoKey}]
          /\ \A k \in Node : data'[k] = data[k] \/ (k = n /\ data[n] # NoKey /\ data'[n] = new)
      BY <1>2, <3>1, <3>2, <3>4
    <3>6. \A k \in Node : data'[k] \in Datapoint /\ data'[k].latency = Positive => Measured(k)
      BY <1>2, <3>4, <3>5
    <3>7. ActorTyped'
      BY <1>2, <1>3, <2>1, <3>1, <3>5
    <3> QED BY <1>1, <1>2, <2>1, <2>2, <3>6, <3>7, ActorFrame
  <2>7. CASE A!ReceiveNodeJoined
    <3> DEFINE n == e.node
    <3>1. /\ e.kind = "joined" /\ UNCHANGED <<services, round>>
          /\ data' = IF data[n] = NoKey THEN [data EXCEPT ![n] = NoData] ELSE data
      BY <2>3, <2>7 DEF A!ReceiveNodeJoined
    <3>2. n \in Node
      BY <2>4, <3>1 DEF Msg
    <3> HIDE DEF n
    <3>3. NoData \notin Datapoint
      BY SentinelAssumption DEF Datapoint
    <3>4. /\ data' \in [Node -> Datapoint \union {NoData, NoKey}]
          /\ \A k \in Node : data'[k] = data[k] \/ data'[k] = NoData
      BY <1>2, <3>1, <3>2
    <3>5. \A k \in Node : data'[k] \in Datapoint /\ data'[k].latency = Positive => Measured(k)
      BY <1>2, <3>3, <3>4
    <3>6. ActorTyped'
      BY <1>2, <1>3, <2>1, <3>1, <3>4
    <3> QED BY <1>1, <1>2, <2>1, <2>2, <3>5, <3>6, ActorFrame
  <2> QED BY <1>5, <2>5, <2>6, <2>7
<1> QED BY <1>4, <1>5 DEF ActorHandles, A!Handle

\* A pod of a rule is on a node whose latency the actor holds to be positive.
LEMMA UsablePodsMeasured ==
  ASSUME IInv, NEW svc \in Service, A!CanUpdate(svc), NEW p \in A!UsablePods(svc)
  PROVE  p \in Pod /\ NodeOf[p] \in Node /\ Measured(NodeOf[p])
<1>1. PICK n \in A!Kept(A!PodCount(svc), A!Datapoints) : p \in svc.pods[n]
  BY DEF A!UsablePods
<1>2. n \in Node /\ A!Usable(A!Datapoints[n])
  BY <1>1 DEF A!Kept, A!HostsOf
<1>3. n \notin A!Unmeasured(A!PodCount(svc), A!Datapoints)
  BY DEF A!CanUpdate, A!MayBuild
<1>4. A!Datapoints[n].latency # 0
  BY <1>1, <1>3 DEF A!Unmeasured
<1>5. A!Datapoints[n] = data[n] /\ data[n] # NoKey /\ data[n] # NoData
  BY <1>2, SentinelAssumption DEF A!Datapoints, A!Usable
<1>6. data[n] \in Datapoint
  BY <1>2, <1>5 DEF IInv, ActorTyped
<1>7. data[n].latency = Positive
  BY <1>4, <1>5, <1>6 DEF Datapoint
<1>8. p \in Pod /\ NodeOf[p] = n
  BY <1>1, <1>2 DEF Service
<1> QED BY <1>2, <1>6, <1>7, <1>8 DEF IInv, MeasureInv

LEMMA UpdateKeeps ==
  ASSUME IInv, ActorTicks \/ ActorUpdates \/ ActorNftError
  PROVE  IInv'
<1>1. UNCHANGED <<watchVars, probeVars, joined>>
  BY DEF ActorTicks, ActorUpdates, ActorNftError
<1>2. /\ data \in [Node -> Datapoint \union {NoData, NoKey}]
      /\ services \in [Port -> Service \union {NoService}]
      /\ round \subseteq {p \in Port : services[p] # NoService}
      /\ job \in Job /\ (job # A!Idle => job.port \in Port) /\ nft \in Ruleset
      /\ queue \in Channel(Readers, Sound)
      /\ \A n \in Node : data[n] \in Datapoint /\ data[n].latency = Positive => Measured(n)
      /\ \A p \in job.targets \union nft.chain.targets : NodeOf[p] \in Node /\ Measured(NodeOf[p])
  BY DEF IInv, ActorTyped, MeasureInv
<1>3. A!Idle \in Job /\ A!Idle.targets = {} /\ A!Idle.stage = "idle"
  BY DEF A!Idle, Job
<1>4. CASE A!Tick
  <2>1. round' = {p \in Port : services[p] # NoService} /\ UNCHANGED <<queue, data, services, job, nft>>
    BY <1>4 DEF A!Tick
  <2>2. ActorTyped'
    BY <1>2, <2>1 DEF ActorTyped, A!Idle
  <2> QED BY <1>1, <1>2, <2>1, <2>2, ActorFrame
<1>5. ASSUME NEW p \in Port, A!SkipUpdate(p) PROVE IInv'
  <2>1. round' = round \ {p} /\ UNCHANGED <<queue, data, services, job, nft>>
    BY <1>5 DEF A!SkipUpdate
  <2>2. ActorTyped'
    BY <1>2, <2>1 DEF ActorTyped, A!Idle
  <2> QED BY <1>1, <1>2, <2>1, <2>2, ActorFrame
<1>6. ASSUME NEW p \in Port, A!ComputeRule(p) PROVE IInv'
  <2>1. /\ p \in round /\ A!CanUpdate(services[p]) /\ round' = round \ {p}
        /\ UNCHANGED <<queue, data, services, nft>>
    BY <1>6 DEF A!ComputeRule
  <2>2. PICK T \in SUBSET A!UsablePods(services[p]) :
          job' = [stage |-> "chain", port |-> p, targets |-> T]
    BY <1>6 DEF A!ComputeRule
  <2>3. services[p] \in Service
    BY <1>2, <2>1
  <2>4. \A q \in T : q \in Pod /\ NodeOf[q] \in Node /\ Measured(NodeOf[q])
    BY <2>1, <2>2, <2>3, UsablePodsMeasured
  <2>5. job' \in Job /\ job'.port = p /\ job'.targets = T
    BY <2>2, <2>4 DEF Job
  <2>6. ActorTyped'
    BY <1>2, <2>1, <2>5 DEF ActorTyped
  <2> QED BY <1>1, <1>2, <2>1, <2>4, <2>5, <2>6, ActorFrame
<1>7. CASE A!CreateServiceChain \/ A!InstallRule \/ A!InstallElement \/ A!NftError
  <2>1. UNCHANGED <<queue, data, services, round>> /\ job # A!Idle
    BY <1>7 DEF A!CreateServiceChain, A!InstallRule, A!InstallElement, A!NftError, A!Idle
  <2>2. \/ job' = A!Idle
        \/ job' \in Job /\ job'.port = job.port /\ job'.targets = job.targets
    BY <1>2, <1>7 DEF A!CreateServiceChain, A!InstallRule, A!InstallElement, A!NftError, Job
  <2>3. nft' \in Ruleset /\ nft'.chain.targets \subseteq nft.chain.targets \union job.targets
    <3>1. CASE A!CreateServiceChain
      BY <1>2, <3>1 DEF A!CreateServiceChain, A!AddServiceChain, A!EmptyChain, Ruleset, Chain
    <3>2. CASE A!InstallRule
      BY <1>2, <2>1, <3>2 DEF A!InstallRule, A!ReplaceRule, A!Rule, Ruleset, Chain, Job
    <3>3. CASE A!InstallElement
      BY <1>2, <2>1, <3>3 DEF A!InstallElement, A!AddElement, Ruleset
    <3>4. CASE A!NftError
      BY <1>2, <3>4 DEF A!NftError
    <3> QED BY <1>7, <3>1, <3>2, <3>3, <3>4
  <2>4. ActorTyped'
    BY <1>2, <1>3, <2>1, <2>2, <2>3 DEF ActorTyped
  <2> QED BY <1>1, <1>2, <1>3, <2>1, <2>2, <2>3, <2>4, ActorFrame
<1> QED BY <1>4, <1>5, <1>6, <1>7
        DEF ActorTicks, ActorUpdates, ActorNftError, A!Update

LEMMA NextIInv == IInv /\ [Next]_vars => IInv'
<1> SUFFICES ASSUME IInv, [Next]_vars PROVE IInv'
  OBVIOUS
<1>1. CASE UNCHANGED vars
  <2>1. UNCHANGED <<watchVars, probeVars, actorVars, joined, queue>>
    BY <1>1 DEF vars
  <2>2. WatchTyped' /\ ProbeTyped' /\ ActorTyped' /\ UNCHANGED latencies
    BY <2>1 DEF IInv, WatchTyped, ProbeTyped, ActorTyped, watchVars, cluster, probeVars, actorVars, A!Idle
  <2>3. Sound' = Sound
    BY <2>2 DEF Sound, Measured
  <2> QED BY <2>1, <2>2, <2>3, FrameStep DEF IInv, MeasureInv, Measured
<1> QED BY <1>1, WatchKeeps, ProbeKeeps, NodesKeep, HandleKeeps, UpdateKeeps DEF Next
-----------------------------------------------------------------------------
LEMMA Invariance == Spec => []IInv
<1>1. Init => IInv
  BY InitIInv
<1>2. IInv /\ [Next]_vars => IInv'
  BY NextIInv
<1> QED BY <1>1, <1>2, PTL DEF Spec

\* The tasks' records keep their types and the channel its bound, for any number
\* of nodes, pods, changes and failures (endpoints_watch.rs:38-133,
\* latency_probe.rs:23-132, actor.rs:79-145).
THEOREM ServicePathTyping == Spec => []TypeOK
<1>1. IInv => TypeOK
  <2> SUFFICES ASSUME IInv PROVE TypeOK
    OBVIOUS
  <2>1. Len(stream) \in Nat /\ Len(stream) <= MaxChanges + 1
    BY LenProperties, EndpointsAssumption DEF IInv, WatchTyped
  <2>2. \A r \in DOMAIN queue : Len(queue[r].msgs) <= Capacity
    BY DEF IInv, MeasureInv, Channel
  <2>3. nodeport \in Port \union {NoPort} /\ watcher.stage \in {"idle", "get_service", "ended"}
    BY EndpointsAssumption DEF IInv, WatchTyped
  <2>4. \A s \in answers : s[1] \in Node /\ s[2] \in Answers
    BY DEF IInv, ProbeTyped
  <2>5. /\ probe.stage \in {"spawned", "drain", "ping", "wait"}
        /\ pinging \subseteq Node /\ stuck \subseteq pinging
    BY DEF IInv, ProbeTyped
  <2>6. round \subseteq Port /\ job.stage \in {"idle", "chain", "rule", "element"}
    BY DEF IInv, ActorTyped, Job
  <2> QED BY <2>1, <2>2, <2>3, <2>4, <2>5, <2>6 DEF TypeOK, IInv, WatchTyped, ProbeTyped
<1> QED BY <1>1, Invariance, PTL

\* The kernel never sends to a pod whose node the probe has not measured, though
\* every event may be lost, late or of an old round (latency_probe.rs:84-126,
\* actor.rs:123-133, update_nftables.rs:56-81).
THEOREM OnlyMeasuredServed == Spec => []MeasuredBeforeServed
<1>1. IInv => MeasuredBeforeServed
  BY DEF IInv, MeasureInv, MeasuredBeforeServed, Measured
<1> QED BY <1>1, Invariance, PTL
-----------------------------------------------------------------------------
\* No event of these announces a service.
Silent(msgs) == \A i \in DOMAIN msgs : msgs[i].kind # "service"

\* A task that holds the service `cur' and has these events to read will hold
\* `svc' once it has read them: the last service among them, or what it has.
Shows(msgs, cur, svc) ==
  \/ Silent(msgs) /\ cur = svc
  \/ \E i \in DOMAIN msgs :
       /\ msgs[i].kind = "service" /\ msgs[i].svc = svc
       /\ \A j \in DOMAIN msgs : j > i => msgs[j].kind # "service"

\* A service that is announced is the last one; another event changes nothing.
LEMMA ShowsAppend ==
  ASSUME NEW M, NEW msgs \in Seq(M), NEW m \in M
  PROVE  /\ m.kind = "service" => \A cur : Shows(Append(msgs, m), cur, m.svc)
         /\ m.kind # "service" =>
              /\ Silent(msgs) => Silent(Append(msgs, m))
              /\ \A cur, svc : Shows(msgs, cur, svc) => Shows(Append(msgs, m), cur, svc)
<1> DEFINE new == Append(msgs, m)
<1>1. /\ Len(msgs) \in Nat /\ DOMAIN msgs = 1..Len(msgs) /\ DOMAIN new = 1..(Len(msgs) + 1)
      /\ \A i \in 1..Len(msgs) : new[i] = msgs[i]
      /\ new[Len(msgs) + 1] = m
  <2>1. /\ new \in Seq(M) /\ Len(new) = Len(msgs) + 1
        /\ \A i \in 1..Len(msgs) : new[i] = msgs[i]
        /\ new[Len(msgs) + 1] = m
    BY AppendProperties
  <2> HIDE DEF new
  <2> QED BY <2>1, LenProperties
<1> HIDE DEF new
<1>2. ASSUME m.kind = "service", NEW cur PROVE Shows(new, cur, m.svc)
  <2>1. Len(msgs) + 1 \in DOMAIN new /\ \A j \in DOMAIN new : ~(j > Len(msgs) + 1)
    BY <1>1
  <2> QED BY <1>1, <1>2, <2>1 DEF Shows
<1>3. ASSUME m.kind # "service", Silent(msgs) PROVE Silent(new)
  BY <1>1, <1>3 DEF Silent
<1>4. ASSUME m.kind # "service", NEW cur, NEW svc, Shows(msgs, cur, svc) PROVE Shows(new, cur, svc)
  <2>1. CASE Silent(msgs) /\ cur = svc
    BY <1>3, <1>4, <2>1 DEF Shows
  <2>2. ASSUME NEW i \in DOMAIN msgs, msgs[i].kind = "service", msgs[i].svc = svc,
               \A j \in DOMAIN msgs : j > i => msgs[j].kind # "service"
        PROVE  Shows(new, cur, svc)
    <3>1. i \in DOMAIN new /\ new[i] = msgs[i]
      BY <1>1
    <3>2. \A j \in DOMAIN new : j > i => new[j].kind # "service"
      BY <1>1, <1>4, <2>2
    <3> QED BY <2>2, <3>1, <3>2 DEF Shows
  <2> QED BY <1>4, <2>1, <2>2 DEF Shows
<1> QED BY <1>2, <1>3, <1>4 DEF new

\* Reading the oldest event leaves the outcome as it is.
LEMMA ShowsTail ==
  ASSUME NEW M, NEW msgs \in Seq(M), msgs # << >>
  PROVE  /\ Head(msgs).kind = "service" =>
              \A cur, svc : Shows(msgs, cur, svc) => Shows(Tail(msgs), Head(msgs).svc, svc)
         /\ Head(msgs).kind # "service" =>
              \A cur, svc : Shows(msgs, cur, svc) => Shows(Tail(msgs), cur, svc)
         /\ Silent(msgs) => Head(msgs).kind # "service" /\ Silent(Tail(msgs))
<1> DEFINE rest == Tail(msgs)
<1>1. /\ Len(msgs) \in Nat /\ Len(msgs) > 0 /\ DOMAIN msgs = 1..Len(msgs)
      /\ DOMAIN rest = 1..(Len(msgs) - 1)
      /\ \A i \in 1..(Len(msgs) - 1) : rest[i] = msgs[i + 1]
      /\ Head(msgs) = msgs[1]
  <2>1. Len(msgs) \in Nat /\ DOMAIN msgs = 1..Len(msgs) /\ Len(msgs) > 0
    BY LenProperties, EmptySeq
  <2>2. /\ rest \in Seq(M) /\ Len(rest) = Len(msgs) - 1
        /\ \A i \in 1..Len(rest) : rest[i] = msgs[i + 1]
    BY HeadTailProperties
  <2>3. Head(msgs) = msgs[1]
    OBVIOUS
  <2> HIDE DEF rest
  <2>4. DOMAIN rest = 1..Len(rest)
    BY <2>2, LenProperties
  <2> QED BY <2>1, <2>2, <2>3, <2>4
<1> HIDE DEF rest
<1>2. Silent(msgs) => msgs[1].kind # "service" /\ Silent(rest)
  BY <1>1 DEF Silent
<1>3. ASSUME NEW cur, NEW svc, Shows(msgs, cur, svc), NEW held,
             held = IF msgs[1].kind = "service" THEN msgs[1].svc ELSE cur
      PROVE  Shows(rest, held, svc)
  <2>1. CASE Silent(msgs) /\ cur = svc
    BY <1>2, <1>3, <2>1 DEF Shows
  <2>2. ASSUME NEW i \in DOMAIN msgs, msgs[i].kind = "service", msgs[i].svc = svc,
               \A j \in DOMAIN msgs : j > i => msgs[j].kind # "service"
        PROVE  Shows(rest, held, svc)
    <3>1. \A j \in DOMAIN rest : j + 1 \in DOMAIN msgs /\ rest[j] = msgs[j + 1]
      BY <1>1
    <3>2. CASE i = 1
      <4>1. \A j \in DOMAIN rest : rest[j].kind # "service"
        BY <1>1, <2>2, <3>1, <3>2
      <4> QED BY <1>3, <2>2, <3>2, <4>1 DEF Shows, Silent
    <3>3. CASE i > 1
      <4>1. i - 1 \in DOMAIN rest /\ rest[i - 1] = msgs[i]
        BY <1>1, <3>3
      <4>2. \A j \in DOMAIN rest : j > i - 1 => rest[j].kind # "service"
        BY <1>1, <2>2, <3>1
      <4> QED BY <2>2, <4>1, <4>2 DEF Shows
    <3> QED BY <1>1, <3>2, <3>3
  <2> QED BY <1>3, <2>1, <2>2 DEF Shows
<1> QED BY <1>1, <1>2, <1>3 DEF rest
-----------------------------------------------------------------------------
\* An event that is sent and not lost goes to the end of each reader's queue.
LEMMA SendShows ==
  ASSUME IInv, NEW r \in Readers, NEW m \in Msg, queue' = Send(queue, m),
         queue[r].open, ~queue'[r].lagged
  PROVE  queue'[r].open /\ queue[r].msgs \in Seq(Msg) /\ queue'[r].msgs = Append(queue[r].msgs, m)
<1>1. queue \in Channel(Readers, Msg)
  BY ChannelWidens DEF IInv, MeasureInv, Sound
<1>2. queue'[r] = Receive(queue[r], m)
  BY <1>1, SendProperties
<1>3. queue[r] \in Receiver(Msg) /\ Len(queue[r].msgs) <= Capacity
  BY <1>1 DEF Channel
<1>4. /\ Receive(queue[r], m).open = queue[r].open
      /\ queue[r].open /\ ~Receive(queue[r], m).lagged =>
           Receive(queue[r], m).msgs = Append(queue[r].msgs, m)
  BY <1>3, ReceiveProperties
<1>5. queue[r].msgs \in Seq(Msg)
  BY <1>3 DEF Receiver
<1> QED BY <1>2, <1>4, <1>5

\* Reader r reads its oldest event.
Reads(r) == CanTake(queue, r) /\ queue' = Take(queue, r)

LEMMA ReadShows ==
  ASSUME IInv, NEW r \in Readers, Reads(r)
  PROVE  /\ queue[r].msgs \in Seq(Msg) /\ queue[r].msgs # << >> /\ Head(queue[r].msgs) \in Msg
         /\ queue'[r].msgs = Tail(queue[r].msgs) /\ queue'[r].open = queue[r].open
         /\ \A k \in Readers \ {r} : queue'[k] = queue[k]
<1>1. queue \in Channel(Readers, Msg)
  BY ChannelWidens DEF IInv, MeasureInv, Sound
<1>2. queue[r].msgs \in Seq(Msg)
  BY <1>1 DEF Channel, Receiver
<1>3. CanTake(queue, r) /\ queue' = Take(queue, r)
  BY DEF Reads
<1>4. queue[r].msgs # << >>
  BY <1>3 DEF CanTake
<1> QED BY <1>1, <1>2, <1>3, <1>4, TakeProperties

\* The queues as they were, but for a lag reported.
Still == \A r \in Readers : queue'[r].msgs = queue[r].msgs /\ queue'[r].open = queue[r].open

\* An event that announces no service is sent.
SendsOther == \E m \in Msg : m.kind # "service" /\ queue' = Send(queue, m)

\* The watch announces a service.
Publishes == WatchStep /\ W!Publish

\* What a step does to the queues and to the services that the readers hold.
LEMMA StepShape ==
  ASSUME IInv, [Next]_vars
  PROVE  \/ Publishes
         \/ SendsOther /\ UNCHANGED <<services, probe>>
         \/ Still /\ UNCHANGED services /\ probe'.pods = probe.pods
            /\ (probe.stage # "spawned" => probe'.stage # "spawned")
         \/ L!Subscribe /\ UNCHANGED services
         \/ L!DrainEvent /\ UNCHANGED services
         \/ A!ReceiveServiceChanged /\ UNCHANGED probe
         \/ Reads("actor") /\ Head(queue["actor"].msgs).kind # "service"
            /\ UNCHANGED <<services, probe>>
<1>1. queue \in Channel(Readers, Sound) /\ "actor" \in Readers /\ "latency" \in Readers
      /\ probe \in [stage : {"spawned", "drain", "ping", "wait"}, pods : [Node -> SUBSET Pod]]
  BY DEF IInv, MeasureInv, ProbeTyped, Readers
<1>2. ASSUME queue' = queue PROVE Still
  BY <1>2 DEF Still
<1>3. CASE UNCHANGED vars
  BY <1>2, <1>3 DEF vars, probeVars, actorVars
<1>4. CASE ClusterChange \/ WatchStep \/ WatchError
  <2>1. UNCHANGED <<services, probe>>
    BY <1>4 DEF ClusterChange, WatchStep, WatchError, probeVars, actorVars
  <2>2. CASE Publishes
    BY <2>2
  <2>3. CASE ~Publishes
    <3>1. queue' = queue
      BY <1>4, <2>3 DEF Publishes, ClusterChange, WatchStep, WatchError, W!Watch, W!EndpointsChange,
         W!NodeportChange, W!Ignore, W!TakeObject, W!DropChange, W!WatchError
    <3> QED BY <1>2, <2>1, <3>1
  <2> QED BY <2>2, <2>3
<1>5. CASE ProbeStep \/ ProbeHang \/ ProbeNextRound
  <2>1. UNCHANGED services
    BY <1>5 DEF ProbeStep, ProbeHang, ProbeNextRound, actorVars
  <2>2. CASE L!StartRound
    <3>1. queue' = SkipLagged(queue, "latency") /\ probe'.pods = probe.pods /\ probe'.stage = "ping"
      BY <1>1, <2>2, OneChannel DEF L!StartRound
    <3>2. Still
      BY <1>1, <3>1, SkipProperties DEF Still
    <3> QED BY <2>1, <3>1, <3>2
  <2>3. ASSUME NEW n \in Node, NEW ms \in Answers, L!Report(n, ms) PROVE SendsOther /\ UNCHANGED probe
    <3> DEFINE m == [kind |-> "latency", node |-> n, value |-> latencies'[n]]
    <3>1. /\ latencies' = [latencies EXCEPT ![n] = L!Ewma(latencies[n], ms)]
          /\ queue' = Send(queue, m) /\ UNCHANGED probe
      BY <2>3, OneChannel DEF L!Report
    <3>2. L!Ewma(latencies[n], ms) \in {0, Positive}
      BY SampleAssumption DEF L!Ewma
    <3>3. latencies'[n] \in {0, Positive}
      BY <3>1, <3>2 DEF IInv, ProbeTyped
    <3>4. m \in Msg /\ m.kind # "service"
      BY <3>3 DEF Msg
    <3> QED BY <3>1, <3>4 DEF SendsOther
  <2>4. ASSUME NEW n \in Node, L!Answer(n, Alive) \/ L!NoAnswer(n, Alive) \/ L!Hang(n, Alive)
        PROVE  queue' = queue /\ UNCHANGED probe
    BY <2>4 DEF L!Answer, L!NoAnswer, L!Hang
  <2>5. CASE L!RoundDone \/ L!NextRound
    <3>1. queue' = queue /\ probe'.pods = probe.pods /\ probe'.stage # "spawned"
      BY <1>1, <2>5 DEF L!RoundDone, L!NextRound
    <3> QED BY <1>2, <2>1, <3>1
  <2>6. CASE L!Subscribe \/ L!DrainEvent
    BY <2>1, <2>6
  <2> QED BY <1>2, <1>5, <2>1, <2>2, <2>3, <2>4, <2>5, <2>6
          DEF ProbeStep, L!ProbeStep, ProbeHang, ProbeNextRound
<1>6. CASE ActorHandles
  <2>1. UNCHANGED probe
    BY <1>6 DEF ActorHandles, probeVars
  <2>2. CASE A!ReceiveLagged
    <3>1. queue' = SkipLagged(queue, "actor") /\ UNCHANGED services
      BY <2>2, OneChannel DEF A!ReceiveLagged
    <3>2. Still
      BY <1>1, <3>1, SkipProperties DEF Still
    <3> QED BY <2>1, <3>1, <3>2
  <2>3. CASE A!ReceiveEwma \/ A!ReceiveNodeJoined
    <3>1. /\ CanTake(queue, "actor") /\ queue' = Take(queue, "actor") /\ UNCHANGED services
          /\ A!Event.kind \in {"latency", "cpu", "joined"}
      BY <2>3, OneChannel DEF A!ReceiveEwma, A!ReceiveNodeJoined
    <3> QED BY <2>1, <3>1 DEF Reads, A!Event
  <2>4. CASE A!ReceiveServiceChanged
    BY <2>1, <2>4
  <2> QED BY <1>6, <2>2, <2>3, <2>4 DEF ActorHandles, A!Handle
<1>7. CASE ActorTicks \/ ActorUpdates \/ ActorNftError
  <2>1. UNCHANGED <<services, queue, probe>>
    BY <1>7 DEF ActorTicks, ActorUpdates, ActorNftError, A!Tick, A!Update, A!SkipUpdate, A!ComputeRule,
       A!CreateServiceChain, A!InstallRule, A!InstallElement, A!NftError, probeVars
  <2> QED BY <1>2, <2>1
<1>8. ASSUME NEW n \in Node, Join(n) \/ SampleCpu(n) PROVE SendsOther /\ UNCHANGED <<services, probe>>
  <2>1. UNCHANGED <<services, probe>>
    BY <1>8 DEF Join, SampleCpu, probeVars, actorVars
  <2>2. CASE Join(n)
    <3>1. [kind |-> "joined", node |-> n] \in Msg
      BY DEF Msg
    <3> QED BY <2>1, <2>2, <3>1 DEF Join, A!NodeJoined, SendsOther
  <2>3. CASE SampleCpu(n)
    <3>1. PICK v \in CpuSamples : queue' = Send(queue, [kind |-> "cpu", node |-> n, value |-> v])
      BY <2>3 DEF SampleCpu, A!Cpu
    <3>2. [kind |-> "cpu", node |-> n, value |-> v] \in Msg
      BY DEF Msg
    <3> QED BY <2>1, <3>1, <3>2 DEF SendsOther
  <2> QED BY <1>8, <2>2, <2>3
<1> QED BY <1>3, <1>4, <1>5, <1>6, <1>7, <1>8 DEF Next
\* Nothing fails, and the Service keeps its one nodeport.
Undisturbed == ~WatchMayFail /\ ~ApiMayFail /\ \E p \in Port \ {NoPort} : Nodeports = {p}

\* What the actor, and the probe, will hold when it has read what was sent.
ActorShows(svc) == Shows(queue["actor"].msgs, services[nodeport], svc)
ProbeShows(svc) == Shows(queue["latency"].msgs, [port |-> nodeport, pods |-> probe.pods], svc)

LEMMA OneNodeport ==
  ASSUME Undisturbed, IInv
  PROVE  nodeport \in Port /\ nodeport # NoPort /\ Nodeports = {nodeport}
BY DEF Undisturbed, IInv, WatchTyped

LEMMA NodeportStays ==
  ASSUME Undisturbed, IInv, [Next]_vars
  PROVE  nodeport' = nodeport
BY NextIInv, OneNodeport DEF IInv, WatchTyped

\* Both readers will hold what the watch announces.
LEMMA PublishOutcome ==
  ASSUME Undisturbed, IInv, Publishes, nodeport' = nodeport, NEW svc, svc = Announced.svc
  PROVE  /\ queue["actor"].open /\ ~queue'["actor"].lagged =>
              queue'["actor"].open /\ ActorShows(svc)'
         /\ queue["latency"].open /\ ~queue'["latency"].lagged => ProbeShows(svc)'
<1>1. /\ Announced \in Msg /\ Announced.kind = "service" /\ Announced.svc = svc
      /\ queue' = Send(queue, Announced) /\ UNCHANGED <<services, probe>>
  BY PublishSends DEF Publishes, WatchStep, probeVars, actorVars
<1> HIDE DEF Announced
<1>2. ASSUME NEW r \in Readers, queue[r].open, ~queue'[r].lagged
      PROVE  queue'[r].open /\ \A cur : Shows(queue'[r].msgs, cur, svc)
  <2>1. queue'[r].open /\ queue[r].msgs \in Seq(Msg) /\ queue'[r].msgs = Append(queue[r].msgs, Announced)
    BY <1>1, <1>2, SendShows
  <2> QED BY <1>1, <2>1, ShowsAppend
<1> QED BY <1>2 DEF Readers, ActorShows, ProbeShows

\* No other step changes what the actor will hold.
LEMMA ActorOutcome ==
  ASSUME Undisturbed, IInv, [Next]_vars, ~Publishes, queue["actor"].open, ~queue'["actor"].lagged
  PROVE  queue'["actor"].open /\ \A svc : ActorShows(svc) => ActorShows(svc)'
<1> DEFINE q == queue["actor"].msgs
           qq == queue'["actor"].msgs
<1>1. "actor" \in Readers /\ "latency" \in Readers /\ "latency" # "actor"
      /\ nodeport' = nodeport /\ nodeport \in Port /\ Nodeports = {nodeport}
      /\ services \in [Port -> Service \union {NoService}]
      /\ queue \in Channel(Readers, Sound)
  BY NodeportStays, OneNodeport DEF Readers, IInv, ActorTyped, MeasureInv
<1>2. ASSUME queue'["actor"].open, NEW held, services'[nodeport] = held,
             \A svc : Shows(q, services[nodeport], svc) => Shows(qq, held, svc)
      PROVE  queue'["actor"].open /\ \A svc : ActorShows(svc) => ActorShows(svc)'
  BY <1>1, <1>2 DEF ActorShows
<1>3. CASE SendsOther /\ UNCHANGED <<services, probe>>
  <2>1. PICK m \in Msg : m.kind # "service" /\ queue' = Send(queue, m)
    BY <1>3 DEF SendsOther
  <2>2. queue'["actor"].open /\ q \in Seq(Msg) /\ qq = Append(q, m)
    BY <1>1, <2>1, SendShows
  <2>3. \A cur, svc : Shows(q, cur, svc) => Shows(qq, cur, svc)
    BY <2>1, <2>2, ShowsAppend
  <2> QED BY <1>2, <1>3, <2>2, <2>3
<1>4. CASE UNCHANGED services /\ queue'["actor"].msgs = q /\ queue'["actor"].open = queue["actor"].open
  BY <1>2, <1>4
<1>5. CASE L!Subscribe /\ UNCHANGED services
  <2>1. queue'["actor"] = queue["actor"]
    BY <1>1, <1>5, OneChannel, SubscribeProperties DEF L!Subscribe
  <2> QED BY <1>4, <1>5, <2>1
<1>6. CASE L!DrainEvent /\ UNCHANGED services
  <2>1. Reads("latency")
    BY <1>6, OneChannel DEF L!DrainEvent, Reads
  <2>2. queue'["actor"] = queue["actor"]
    BY <1>1, <2>1, ReadShows
  <2> QED BY <1>4, <1>6, <2>2
<1>7. ASSUME Reads("actor"), NEW held, services'[nodeport] = held,
             held = IF Head(q).kind = "service" THEN Head(q).svc ELSE services[nodeport]
      PROVE  queue'["actor"].open /\ \A svc : ActorShows(svc) => ActorShows(svc)'
  <2>1. q \in Seq(Msg) /\ q # << >> /\ qq = Tail(q) /\ queue'["actor"].open
    BY <1>1, <1>7, ReadShows
  <2>2. \A svc : Shows(q, services[nodeport], svc) => Shows(qq, held, svc)
    BY <1>7, <2>1, ShowsTail
  <2> QED BY <1>2, <1>7, <2>1, <2>2
<1>8. CASE A!ReceiveServiceChanged /\ UNCHANGED probe
  <2> DEFINE e == Head(q)
  <2>1. /\ Reads("actor") /\ e.kind = "service"
        /\ services' = [services EXCEPT ![e.svc.port] = e.svc]
    BY <1>8, OneChannel DEF A!ReceiveServiceChanged, A!Event, Reads
  <2>2. e \in Msg
    BY <1>1, <2>1, ReadShows
  <2> HIDE DEF e
  <2>3. e.svc.port = nodeport
    BY <1>1, <2>1, <2>2 DEF Msg, Service
  <2>4. services'[nodeport] = e.svc
    BY <1>1, <2>1, <2>3
  <2> QED BY <1>7, <2>1, <2>4 DEF e
<1>9. CASE Reads("actor") /\ Head(queue["actor"].msgs).kind # "service" /\ UNCHANGED <<services, probe>>
  BY <1>7, <1>9
<1> QED BY <1>1, <1>3, <1>4, <1>5, <1>6, <1>8, <1>9, StepShape DEF Still
\* Only by subscribing does the probe come to have a receiver.
LEMMA ClosedStays ==
  ASSUME Undisturbed, IInv, [Next]_vars, ~Publishes, ~L!Subscribe, ~queue["latency"].open
  PROVE  ~queue'["latency"].open
<1>1. "latency" \in Readers /\ "actor" \in Readers /\ "latency" # "actor" /\ queue \in Channel(Readers, Msg)
  BY ChannelWidens DEF Readers, IInv, MeasureInv, Sound
<1>2. CASE SendsOther /\ UNCHANGED <<services, probe>>
  <2>1. PICK m \in Msg : queue' = Send(queue, m)
    BY <1>2 DEF SendsOther
  <2>2. queue'["latency"] = Receive(queue["latency"], m)
    BY <1>1, <2>1, SendProperties
  <2> QED BY <2>2 DEF Receive
<1>3. CASE L!DrainEvent
  BY <1>3, OneChannel DEF L!DrainEvent, CanTake
<1>4. ASSUME Reads("actor") PROVE ~queue'["latency"].open
  BY <1>1, <1>4, ReadShows
<1>5. CASE A!ReceiveServiceChanged
  BY <1>4, <1>5, OneChannel DEF A!ReceiveServiceChanged, Reads
<1> QED BY <1>1, <1>2, <1>3, <1>4, <1>5, StepShape DEF Still

\* Nor, once it has subscribed, what the probe will hold.
LEMMA ProbeOutcome ==
  ASSUME Undisturbed, IInv, [Next]_vars, ~Publishes, ~L!Subscribe,
         queue["latency"].open, ~queue'["latency"].lagged
  PROVE  /\ queue'["latency"].open
         /\ \A svc \in Service : ProbeShows(svc) => ProbeShows(svc)'
         /\ Silent(queue["latency"].msgs) =>
              Silent(queue'["latency"].msgs) /\ probe'.pods = probe.pods
<1> DEFINE q == queue["latency"].msgs
           qq == queue'["latency"].msgs
<1>1. "latency" \in Readers /\ "actor" \in Readers /\ "latency" # "actor"
      /\ nodeport' = nodeport /\ Nodeports = {nodeport}
      /\ probe \in [stage : {"spawned", "drain", "ping", "wait"}, pods : [Node -> SUBSET Pod]]
  BY NodeportStays, OneNodeport DEF Readers, IInv, ProbeTyped
<1>2. CASE SendsOther /\ UNCHANGED <<services, probe>>
  <2>1. PICK m \in Msg : m.kind # "service" /\ queue' = Send(queue, m)
    BY <1>2 DEF SendsOther
  <2>2. queue'["latency"].open /\ q \in Seq(Msg) /\ qq = Append(q, m)
    BY <1>1, <2>1, SendShows
  <2>3. /\ Silent(q) => Silent(qq)
        /\ \A cur, svc : Shows(q, cur, svc) => Shows(qq, cur, svc)
    BY <2>1, <2>2, ShowsAppend
  <2> QED BY <1>1, <1>2, <2>2, <2>3 DEF ProbeShows
<1>3. CASE probe'.pods = probe.pods /\ qq = q /\ queue'["latency"].open = queue["latency"].open
  BY <1>1, <1>3 DEF ProbeShows
<1>4. CASE L!DrainEvent /\ UNCHANGED services
  <2> DEFINE e == Head(q)
  <2>1. /\ Reads("latency")
        /\ probe' = IF e.kind = "service" THEN [probe EXCEPT !.pods = e.svc.pods] ELSE probe
    BY <1>4, OneChannel DEF L!DrainEvent, Reads
  <2>2. q \in Seq(Msg) /\ q # << >> /\ e \in Msg /\ qq = Tail(q) /\ queue'["latency"].open
    BY <1>1, <2>1, ReadShows
  <2> DEFINE held == IF e.kind = "service" THEN e.svc ELSE [port |-> nodeport, pods |-> probe.pods]
  <2>3. /\ \A svc : Shows(q, [port |-> nodeport, pods |-> probe.pods], svc) => Shows(qq, held, svc)
        /\ Silent(q) => e.kind # "service" /\ Silent(qq)
    BY <2>2, ShowsTail
  <2> HIDE DEF e
  <2>4. held = [port |-> nodeport, pods |-> probe'.pods]
    <3>1. CASE e.kind = "service"
      <4>1. e.svc \in [port : {nodeport}, pods : [Node -> SUBSET Pod]]
        BY <1>1, <2>2, <3>1 DEF Msg, Service
      <4>2. probe'.pods = e.svc.pods
        BY <1>1, <2>1, <3>1
      <4> QED BY <3>1, <4>1, <4>2
    <3>2. CASE e.kind # "service"
      BY <2>1, <3>2
    <3> QED BY <3>1, <3>2
  <2> HIDE DEF held
  <2> QED BY <1>1, <2>1, <2>2, <2>3, <2>4 DEF ProbeShows
<1>5. ASSUME Reads("actor"), probe'.pods = probe.pods
      PROVE  qq = q /\ queue'["latency"].open = queue["latency"].open
  <2>1. "latency" \in Readers \ {"actor"}
    BY <1>1
  <2>2. queue'["latency"] = queue["latency"]
    BY <1>1, <1>5, <2>1, ReadShows
  <2> QED BY <2>2
<1>6. CASE A!ReceiveServiceChanged /\ UNCHANGED probe
  <2>1. Reads("actor")
    BY <1>6, OneChannel DEF A!ReceiveServiceChanged, Reads
  <2> QED BY <1>3, <1>5, <1>6, <2>1
<1> QED BY <1>1, <1>2, <1>3, <1>4, <1>5, <1>6, StepShape DEF Still
-----------------------------------------------------------------------------
\* The last state of the object is in the stream, with the watch, or announced,
\* unless it has its pods on fewer than two nodes.
CurrentInv ==
  /\ queue["actor"].open
  /\ stream # << >> => stream[Len(stream)] = endpoints
  /\ stream = << >> /\ Spread =>
       \/ watcher.stage = "get_service" /\ watcher.addresses = endpoints
       \/ /\ watcher.stage = "idle"
          /\ ActorShows([port |-> nodeport, pods |-> W!Grouped(endpoints)])

LEMMA InitCurrent == Init => CurrentInv
<1> SUFFICES ASSUME Init PROVE CurrentInv
  OBVIOUS
<1>1. stream = <<endpoints>> /\ queue["actor"].open
  BY DEF Init, W!EndpointsInit, Subscribed
<1> QED BY <1>1 DEF CurrentInv

LEMMA NextCurrent ==
  ASSUME Undisturbed, IInv, CurrentInv, [Next]_vars, ~queue'["actor"].lagged
  PROVE  CurrentInv'
<1>1. /\ stream \in Seq(Objects) /\ Len(stream) \in Nat /\ nodeport' = nodeport
      /\ nodeport \in Port /\ nodeport # NoPort /\ Nodeports = {nodeport} /\ queue["actor"].open
  BY OneNodeport, NodeportStays, LenProperties DEF IInv, WatchTyped, CurrentInv
<1>2. CASE Publishes
  <2>1. UNCHANGED cluster /\ UNCHANGED stream /\ watcher.stage = "get_service"
        /\ watcher' = [stage |-> "idle", addresses |-> {}]
    BY <1>2 DEF Publishes, W!Publish, W!cluster, cluster, W!WatcherIdle
  <2>2. UNCHANGED endpoints /\ (Spread' => Spread)
    BY <2>1 DEF cluster, Spread
  <2> DEFINE svc == [port |-> nodeport, pods |-> W!Grouped(endpoints)]
  <2>3. Spread /\ stream = << >> => svc = Announced.svc
    BY <2>1 DEF CurrentInv, Announced
  <2>4. svc' = svc
    BY <1>1, <2>2 DEF W!Grouped
  <2>5. PICK out : out = Announced.svc
    OBVIOUS
  <2>6. queue'["actor"].open /\ ActorShows(out)'
    BY <1>1, <1>2, <2>5, PublishOutcome
  <2>7. Spread /\ stream = << >> => ActorShows(svc)'
    BY <2>3, <2>4, <2>5, <2>6 DEF ActorShows
  <2> HIDE DEF svc
  <2> QED BY <2>1, <2>2, <2>6, <2>7 DEF CurrentInv, svc
<1>3. CASE ~Publishes
  <2>1. queue'["actor"].open /\ \A svc : ActorShows(svc) => ActorShows(svc)'
    BY <1>1, <1>3, ActorOutcome
  <2>2. ASSUME UNCHANGED watchVars PROVE CurrentInv'
    <3>1. UNCHANGED <<endpoints, stream, watcher>> /\ (Spread' => Spread)
      BY <2>2 DEF watchVars, cluster, Spread
    <3>2. W!Grouped(endpoints)' = W!Grouped(endpoints)
      BY <3>1 DEF W!Grouped
    <3> QED BY <1>1, <2>1, <3>1, <3>2 DEF CurrentInv, ActorShows
  <2>3. CASE W!EndpointsChange
    <3>1. endpoints' \in Objects /\ stream' = Append(stream, endpoints')
      BY <2>3 DEF W!EndpointsChange
    <3>2. stream' # << >> /\ stream'[Len(stream')] = endpoints'
      BY <1>1, <3>1, AppendProperties
    <3> QED BY <2>1, <3>2 DEF CurrentInv
  <2>4. ~W!NodeportChange /\ ~W!WatchError
    BY <1>1 DEF W!NodeportChange, W!WatchError, Undisturbed
  <2>5. CASE W!Ignore \/ W!TakeObject
    <3>1. UNCHANGED endpoints /\ stream # << >> /\ stream' = Tail(stream) /\ (Spread' => Spread)
      BY <2>5 DEF W!Ignore, W!TakeObject, W!cluster, Spread
    <3>2. stream' # << >> => stream'[Len(stream')] = endpoints
      BY <1>1, <3>1, HeadTailProperties DEF CurrentInv
    <3>3. stream' = << >> => Head(stream) = endpoints
      <4>1. Len(Tail(stream)) = Len(stream) - 1
        BY <1>1, <3>1, HeadTailProperties
      <4>2. ASSUME stream' = << >> PROVE Len(stream) = 1
        <5>1. Len(<< >>) = 0 /\ Tail(stream) = << >>
          BY <3>1, <4>2
        <5>2. Len(stream) - 1 = 0
          BY <4>1, <5>1
        <5> QED BY <1>1, <5>2
      <4> QED BY <1>1, <3>1, <4>2 DEF CurrentInv
    <3>4. CASE W!Ignore
      <4>1. W!NodeCount({}) = 0
        <5>1. {n \in Node : W!Grouped({})[n] # {}} = {}
          BY DEF W!Grouped
        <5>2. W!Cardinality({}) = 0
          BY FS_EmptySet DEF W!Cardinality, Cardinality
        <5> QED BY <5>1, <5>2 DEF W!NodeCount
      <4>2. Head(stream) \in {Deleted, {}}
        BY <3>4 DEF W!Ignore
      <4>3. stream' = << >> => endpoints \in {Deleted, {}}
        BY <3>3, <4>2
      <4>4. stream' = << >> => ~Spread
        BY <4>1, <4>3 DEF Spread
      <4> QED BY <2>1, <3>1, <3>2, <4>4 DEF CurrentInv
    <3>5. CASE W!TakeObject
      <4>1. watcher' = [stage |-> "get_service", addresses |-> Head(stream)]
        BY <3>5 DEF W!TakeObject
      <4> QED BY <2>1, <3>1, <3>2, <3>3, <4>1 DEF CurrentInv
    <3> QED BY <2>5, <3>4, <3>5
  <2>6. CASE W!DropChange
    <3>0. UNCHANGED <<endpoints, stream>> /\ watcher.stage = "get_service"
          /\ (ApiMayFail \/ nodeport = NoPort \/ W!NodeCount(watcher.addresses) = 1)
      BY <2>6 DEF W!DropChange, W!cluster
    <3>1. (Spread' => Spread) /\ W!NodeCount(watcher.addresses) = 1
      BY <1>1, <3>0 DEF Spread, Undisturbed
    <3>2. ~(stream = << >> /\ Spread)
      BY <3>0, <3>1 DEF CurrentInv, Spread
    <3> QED BY <2>1, <3>0, <3>1, <3>2 DEF CurrentInv
  <2>7. CASE WatchStep
    BY <1>3, <2>5, <2>6, <2>7 DEF Publishes, WatchStep, W!Watch
  <2>8. CASE ~(ClusterChange \/ WatchStep \/ WatchError)
    <3>1. UNCHANGED watchVars
      BY <2>8 DEF Next, vars, ProbeStep, ProbeHang, ProbeNextRound, ActorHandles, ActorTicks,
         ActorUpdates, ActorNftError, Join, SampleCpu
    <3> QED BY <2>2, <3>1
  <2> QED BY <2>3, <2>4, <2>7, <2>8 DEF ClusterChange, WatchError
<1> QED BY <1>2, <1>3

\* If nothing fails and the actor never falls a whole channel behind, then what
\* it holds when all is quiet are the pods the service has: for any number of
\* changes and any interleaving of the tasks (endpoints_watch.rs:42-133,
\* actor.rs:81-122).
THEOREM NoChangeIsLost ==
  Undisturbed => (Spec /\ []~queue["actor"].lagged => []QuietMeansCurrent)
<1> SUFFICES ASSUME Undisturbed PROVE Spec /\ []~queue["actor"].lagged => []QuietMeansCurrent
  OBVIOUS
<1>1. Init => CurrentInv
  BY InitCurrent
<1>2. IInv /\ CurrentInv /\ [Next]_vars /\ (~queue["actor"].lagged)' => CurrentInv'
  BY NextCurrent
<1>3. IInv /\ CurrentInv => QuietMeansCurrent
  <2> SUFFICES ASSUME IInv, CurrentInv, Quiet, Spread
               PROVE  services[nodeport] # NoService /\ services[nodeport].pods = W!Grouped(endpoints)
    BY DEF QuietMeansCurrent
  <2> DEFINE svc == [port |-> nodeport, pods |-> W!Grouped(endpoints)]
  <2>1. queue["actor"].msgs = << >> /\ stream = << >> /\ watcher.stage = "idle"
    BY DEF Quiet, Subscribed
  <2>2. Shows(<< >>, services[nodeport], svc)
    BY <2>1 DEF CurrentInv, ActorShows
  <2>3. services[nodeport] = svc
    BY <2>2 DEF Shows
  <2>4. nodeport \in Port /\ endpoints \in SUBSET Pod
    BY OneNodeport, EndpointsAssumption DEF IInv, WatchTyped, Spread
  <2>5. svc \in [port : Port, pods : [Node -> SUBSET Pod]]
    BY <2>4 DEF W!Grouped
  <2> QED BY <2>3, <2>5, SentinelAssumption
<1> QED BY <1>1, <1>2, <1>3, Invariance, PTL DEF Spec
-----------------------------------------------------------------------------
NoPods == [n \in Node |-> {}]

\* What the probe has read, or will, is what the actor has read, or will; it is
\* nothing when the probe subscribed after the last service was announced.
AgreeInv ==
  /\ queue["actor"].open
  /\ \A p \in Port : services[p] # NoService => p = nodeport
  /\ probe.stage = "spawned" => probe.pods = NoPods /\ ~queue["latency"].open
  /\ queue["latency"].open =>
       \/ Silent(queue["latency"].msgs) /\ probe.pods = NoPods
       \/ \E svc \in Service : ActorShows(svc) /\ ProbeShows(svc)

\* No event that was sent is lost to either reader.
NothingLost == \A r \in Readers : ~queue[r].lagged

LEMMA InitAgree == Init => AgreeInv
BY DEF Init, A!ActorInit, L!ProbeInit, AgreeInv, Subscribed, Unsubscribed, NoPods

\* The actor's table keeps to the one nodeport, and the probe's place moves on.
LEMMA TablesStay ==
  ASSUME Undisturbed, IInv, AgreeInv, [Next]_vars
  PROVE  /\ \A p \in Port : services'[p] # NoService => p = nodeport'
         /\ probe'.stage = "spawned" => probe.stage = "spawned" /\ probe'.pods = probe.pods
<1>1. /\ nodeport' = nodeport /\ nodeport \in Port /\ Nodeports = {nodeport} /\ "actor" \in Readers
      /\ probe \in [stage : {"spawned", "drain", "ping", "wait"}, pods : [Node -> SUBSET Pod]]
      /\ services \in [Port -> Service \union {NoService}]
  BY NodeportStays, OneNodeport DEF IInv, ProbeTyped, ActorTyped, Readers
<1>2. CASE UNCHANGED <<services, probe>>
  BY <1>1, <1>2 DEF AgreeInv
<1>3. CASE Publishes
  BY <1>2, <1>3 DEF Publishes, WatchStep, probeVars, actorVars
<1>4. CASE Still /\ UNCHANGED services /\ probe'.pods = probe.pods
           /\ (probe.stage # "spawned" => probe'.stage # "spawned")
  BY <1>1, <1>4 DEF AgreeInv
<1>5. CASE (L!Subscribe \/ L!DrainEvent) /\ UNCHANGED services
  <2>1. probe'.stage = "drain"
    BY <1>1, <1>5 DEF L!Subscribe, L!DrainEvent
  <2> QED BY <1>1, <1>5, <2>1 DEF AgreeInv
<1>6. CASE A!ReceiveServiceChanged /\ UNCHANGED probe
  <2> DEFINE e == Head(queue["actor"].msgs)
  <2>1. /\ Reads("actor") /\ e.kind = "service"
        /\ services' = [services EXCEPT ![e.svc.port] = e.svc]
    BY <1>6, OneChannel DEF A!ReceiveServiceChanged, A!Event, Reads
  <2>2. e \in Msg
    BY <1>1, <2>1, ReadShows
  <2> HIDE DEF e
  <2>3. e.svc.port = nodeport
    BY <1>1, <2>1, <2>2 DEF Msg, Service
  <2> QED BY <1>1, <1>6, <2>1, <2>3 DEF AgreeInv
<1> QED BY <1>2, <1>3, <1>4, <1>5, <1>6, StepShape

LEMMA NextAgree ==
  ASSUME Undisturbed, IInv, AgreeInv, [Next]_vars, NothingLost'
  PROVE  AgreeInv'
<1> DEFINE Agrees == \/ Silent(queue["latency"].msgs) /\ probe.pods = NoPods
                     \/ \E svc \in Service : ActorShows(svc) /\ ProbeShows(svc)
<1>1. /\ "actor" \in Readers /\ "latency" \in Readers
      /\ ~queue'["actor"].lagged /\ ~queue'["latency"].lagged
      /\ nodeport' = nodeport /\ queue["actor"].open /\ queue \in Channel(Readers, Sound)
  BY NodeportStays DEF NothingLost, Readers, AgreeInv, IInv, MeasureInv
<1>2. SUFFICES /\ queue'["actor"].open
               /\ probe'.stage = "spawned" => ~queue'["latency"].open
               /\ queue'["latency"].open => Agrees'
  BY TablesStay DEF AgreeInv
<1>3. CASE Publishes
  <2>1. Announced.svc \in Service /\ UNCHANGED probe
    BY <1>3, PublishSends DEF Publishes, WatchStep, probeVars
  <2>2. PICK svc \in Service : svc = Announced.svc
    BY <2>1
  <2>3. queue'["actor"].open /\ ActorShows(svc)'
    BY <1>1, <1>3, <2>2, PublishOutcome
  <2>4. queue["latency"].open => ProbeShows(svc)'
    BY <1>1, <1>3, <2>2, PublishOutcome
  <2>5. queue'["latency"].open = queue["latency"].open
    <3>1. queue' = Send(queue, Announced) /\ Announced \in Msg
      BY <1>3, PublishSends DEF Publishes
    <3>2. queue \in Channel(Readers, Msg)
      BY ChannelWidens DEF IInv, MeasureInv, Sound
    <3>3. queue'["latency"] = Receive(queue["latency"], Announced) /\ queue["latency"] \in Receiver(Msg)
          /\ Len(queue["latency"].msgs) <= Capacity
      BY <1>1, <3>1, <3>2, SendProperties DEF Channel
    <3> QED BY <3>1, <3>3, ReceiveProperties
  <2> QED BY <1>2, <2>1, <2>3, <2>4, <2>5 DEF AgreeInv
<1>4. CASE ~Publishes
  <2>1. queue'["actor"].open /\ \A svc : ActorShows(svc) => ActorShows(svc)'
    BY <1>1, <1>4, ActorOutcome
  <2>2. CASE L!Subscribe
    <3>1. queue' = [queue EXCEPT !["latency"] = Subscribed] /\ probe.stage = "spawned"
          /\ probe' = [probe EXCEPT !.stage = "drain"]
      BY <2>2, OneChannel DEF L!Subscribe
    <3>2. queue'["latency"].msgs = << >> /\ probe'.pods = probe.pods /\ probe'.stage = "drain"
      BY <1>1, <3>1, SubscribeProperties DEF IInv, ProbeTyped
    <3>3. Silent(<< >>) /\ probe.pods = NoPods
      BY <3>1 DEF Silent, AgreeInv
    <3> QED BY <1>2, <2>1, <3>2, <3>3
  <2>3. CASE ~L!Subscribe /\ queue["latency"].open
    <3>1. /\ queue'["latency"].open
          /\ \A svc \in Service : ProbeShows(svc) => ProbeShows(svc)'
          /\ Silent(queue["latency"].msgs) =>
               Silent(queue'["latency"].msgs) /\ probe'.pods = probe.pods
      BY <1>1, <1>4, <2>3, ProbeOutcome
    <3>2. Agrees /\ probe.stage # "spawned"
      BY <2>3 DEF AgreeInv
    <3>3. Agrees'
      BY <2>1, <3>1, <3>2
    <3>4. probe'.stage # "spawned"
      BY <3>2, TablesStay
    <3> QED BY <1>2, <2>1, <3>3, <3>4
  <2>4. CASE ~L!Subscribe /\ ~queue["latency"].open
    <3>1. ~queue'["latency"].open
      BY <1>1, <1>4, <2>4, ClosedStays
    <3> QED BY <1>2, <2>1, <3>1
  <2> QED BY <2>2, <2>3, <2>4
<1> QED BY <1>3, <1>4

\* If nothing fails and no event is lost, then the pods that the probe measures
\* when both have read what was sent are the pods that the actor balances, for
\* any interleaving of the two (latency_probe.rs:24-37, actor.rs:110-112).
THEOREM ProbeMeasuresTheServed ==
  Undisturbed => (Spec /\ []NothingLost => []ProbeAgreesWithActor)
<1> SUFFICES ASSUME Undisturbed PROVE Spec /\ []NothingLost => []ProbeAgreesWithActor
  OBVIOUS
<1>1. Init => AgreeInv
  BY InitAgree
<1>2. IInv /\ AgreeInv /\ [Next]_vars /\ NothingLost' => AgreeInv'
  BY NextAgree
<1>3. IInv /\ AgreeInv => ProbeAgreesWithActor
  <2> SUFFICES ASSUME IInv, AgreeInv, queue["actor"] = Subscribed, queue["latency"] = Subscribed,
                      NEW n \in Node, probe.pods[n] # {}, NEW p \in Port, services[p] # NoService
               PROVE  services[p].pods = probe.pods
    BY DEF ProbeAgreesWithActor
  <2>1. queue["actor"].msgs = << >> /\ queue["latency"].msgs = << >> /\ queue["latency"].open
    BY DEF Subscribed
  <2>2. probe.pods # NoPods /\ p = nodeport
    BY DEF NoPods, AgreeInv
  <2>3. PICK svc \in Service :
          Shows(<< >>, services[nodeport], svc)
          /\ Shows(<< >>, [port |-> nodeport, pods |-> probe.pods], svc)
    BY <2>1, <2>2 DEF AgreeInv, ActorShows, ProbeShows
  <2>4. services[nodeport] = svc /\ svc = [port |-> nodeport, pods |-> probe.pods]
    BY <2>3 DEF Shows
  <2> QED BY <2>2, <2>4
<1> QED BY <1>1, <1>2, <1>3, Invariance, PTL DEF Spec
=============================================================================
