------------------------------ MODULE ServicePath ------------------------------
(***************************************************************************)
(* How a change of the service's pods reaches the kernel: the watch of the *)
(* Endpoints object, the channel, the latency probe and the actor          *)
(* (proberv2/src/endpoints_watch.rs, latency_probe.rs, actor.rs and        *)
(* update_nftables.rs) running as concurrent tasks of one process whose    *)
(* setup is done.  Node and CPU events come from an environment: a node    *)
(* joins, then has CPU samples (NodePath has those two tasks).             *)
(***************************************************************************)
EXTENDS Eligibility, Nftables, Broadcast

CONSTANTS
  NodeOf, NoPort, Nodeports, Objects, Deleted, MaxChanges, WatchMayFail, ApiMayFail,
  Positive, Answers, PodMayRefuse, PodMayHang,
  NoKey, NoService, NftMayFail,
  CpuSamples,   \* the CPU EWMAs the environment sends
  Known,        \* nodes that have joined and been sampled before the start
  KeepsUp       \* does the actor drain its queue before a probe's next round?

ASSUME EndpointsAssumption ==
  /\ MaxChanges \in Nat
  /\ Nodeports \subseteq Port \union {NoPort}
  /\ Objects \subseteq (SUBSET Pod) \union {Deleted}
ASSUME FaultAssumption ==
  {WatchMayFail, ApiMayFail, PodMayRefuse, PodMayHang, NftMayFail} \subseteq BOOLEAN
ASSUME SampleAssumption ==
  /\ Positive \in Nat \ {0} /\ Answers \subseteq {0, Positive}
  /\ Known \subseteq Node
ASSUME SentinelAssumption ==
  /\ NoKey # NoData
  /\ {NoKey, NoData} \intersect [latency : {0, Positive}, cpu : CpuSamples \union {0}] = {}
  /\ NoService \notin [port : Port, pods : [Node -> SUBSET Pod]]
ASSUME TimingAssumption == KeepsUp \in BOOLEAN

VARIABLES
  endpoints, nodeport, changes, stream, watcher,       \* EndpointsWatch
  probe, latencies, pinging, stuck, answers,           \* LatencyProbe
  data, services, round, job, nft,                     \* ProberActor
  joined,       \* nodes announced so far
  queue

cluster == <<endpoints, nodeport, changes>>
watchVars == <<cluster, stream, watcher>>
probeVars == <<probe, latencies, pinging, stuck, answers>>
actorVars == <<data, services, round, job, nft>>
vars == <<watchVars, probeVars, actorVars, joined, queue>>

W == INSTANCE EndpointsWatch
L == INSTANCE LatencyProbe
A == INSTANCE ProberActor

Alive == IF endpoints = Deleted THEN {} ELSE endpoints

BaseRuleset ==
  [NoRuleset EXCEPT !.table = TRUE, !.map = TRUE, !.set = TRUE, !.base = TRUE,
                    !.jumps = 1, !.lookups = 1]

Init ==
  /\ W!EndpointsInit
  /\ L!ProbeInit
  /\ A!ActorInit
  /\ \E v \in CpuSamples :
       data = [n \in Node |-> IF n \in Known THEN [latency |-> 0, cpu |-> v] ELSE NoKey]
  /\ nft = BaseRuleset
  /\ joined = Known
  /\ queue = [r \in {"actor", "latency"} |-> IF r = "actor" THEN Subscribed ELSE Unsubscribed]

ClusterChange ==
  /\ W!EndpointsChange \/ W!NodeportChange
  /\ UNCHANGED <<probeVars, actorVars, joined>>

\* Nothing makes the watch wait for the probe to subscribe.
WatchStep ==
  /\ KeepsUp => HasRoom(queue)
  /\ W!Watch
  /\ UNCHANGED <<probeVars, actorVars, joined>>

WatchError ==
  /\ W!WatchError
  /\ UNCHANGED <<probeVars, actorVars, joined>>

ProbeStep ==
  /\ L!ProbeStep(Alive)
  /\ UNCHANGED <<watchVars, actorVars, joined>>

ProbeHang ==
  /\ \E n \in Node : L!Hang(n, Alive)
  /\ UNCHANGED <<watchVars, actorVars, joined>>

\* The rounds are seconds apart (latencyInterval), the actor's work on an event
\* is not: with KeepsUp the actor has caught up by the next round.
ProbeNextRound ==
  /\ KeepsUp => queue["actor"].msgs = << >>
  /\ L!NextRound
  /\ UNCHANGED <<watchVars, actorVars, joined>>

ActorHandles ==
  /\ A!Handle
  /\ UNCHANGED <<watchVars, probeVars, joined>>

ActorTicks ==
  /\ A!Tick
  /\ UNCHANGED <<watchVars, probeVars, joined>>

ActorUpdates ==
  /\ A!Update
  /\ UNCHANGED <<watchVars, probeVars, joined>>

ActorNftError ==
  /\ A!NftError
  /\ UNCHANGED <<watchVars, probeVars, joined>>

Join(n) ==
  /\ n \notin joined
  /\ KeepsUp => HasRoom(queue)
  /\ joined' = joined \union {n}
  /\ queue' = Send(queue, A!NodeJoined(n))
  /\ UNCHANGED <<watchVars, probeVars, actorVars>>

ShowsCpu(n, v) == data[n] \notin {NoKey, NoData} /\ data[n].cpu = v

\* A sample is sent again as long as the actor does not show it.
SampleCpu(n) ==
  /\ n \in joined
  /\ KeepsUp => queue["actor"].msgs = << >> /\ HasRoom(queue)
  /\ \E v \in CpuSamples :
       /\ ~ShowsCpu(n, v)
       /\ queue' = Send(queue, A!Cpu(n, v))
  /\ UNCHANGED <<watchVars, probeVars, actorVars, joined>>

Next ==
  \/ ClusterChange \/ WatchStep \/ WatchError
  \/ ProbeStep \/ ProbeHang \/ ProbeNextRound
  \/ ActorHandles \/ ActorTicks \/ ActorUpdates \/ ActorNftError
  \/ \E n \in Node : Join(n) \/ SampleCpu(n)

\* tokio schedules every task that can run, the tickers fire for ever, and so
\* do the watch of the nodes and the CPU probe.  Nothing obliges the cluster
\* to change, or anything to fail.  The actor's tick and its receiver share a
\* select! that picks among the branches that are ready at random, so neither
\* shuts the other out.
Fairness ==
  /\ WF_vars(WatchStep)
  /\ WF_vars(ProbeStep)
  /\ WF_vars(ProbeNextRound)
  /\ SF_vars(ActorHandles)
  /\ SF_vars(ActorTicks)
  /\ WF_vars(ActorUpdates)
  /\ \A n \in Node : WF_vars(Join(n)) /\ SF_vars(SampleCpu(n))

Spec == Init /\ [][Next]_vars
FairSpec == Spec /\ Fairness
-----------------------------------------------------------------------------
\* The values each variable may have.
TypeOK ==
  /\ endpoints \in Objects
  /\ nodeport \in Port \union {NoPort}
  /\ changes \in 0..MaxChanges
  /\ Len(stream) <= MaxChanges + 1
  /\ watcher.stage \in {"idle", "get_service", "ended"}
  /\ probe.stage \in {"spawned", "drain", "ping", "wait"}
  /\ latencies \in [Node -> {-1, 0, Positive}]
  /\ stuck \subseteq pinging /\ pinging \subseteq Node
  /\ \A s \in answers : s[1] \in Node /\ s[2] \in Answers
  /\ round \subseteq Port
  /\ job.stage \in {"idle", "chain", "rule", "element"}
  /\ \A r \in DOMAIN queue : Len(queue[r].msgs) <= Capacity

\* No pod gets traffic before the probe of its node has measured a latency:
\* whatever events are lost or late, the score behind a rule is a real one
\* (latency_probe.rs:84-126, actor.rs:123-133, update_nftables.rs:56-81).
MeasuredBeforeServed ==
  \A p \in nft.chain.targets : latencies[NodeOf[p]] = Positive

Quiet ==
  /\ stream = << >> /\ watcher.stage = "idle"
  /\ queue["actor"] = Subscribed /\ A!Waiting

\* Pods on one node only, no pods, or no object: the watch passes nothing on.
Spread == endpoints # Deleted /\ W!NodeCount(endpoints) > 1

\* When nothing is on its way and the pods are spread over nodes, the actor
\* holds the pods the service has now: no interleaving of the watch, the probe
\* and the actor loses or reorders the last change, and the changes that the
\* watch drops are made good by the next one (endpoints_watch.rs:42-133,
\* actor.rs:81-122).
QuietMeansCurrent ==
  Quiet /\ Spread => /\ services[nodeport] # NoService
                     /\ services[nodeport].pods = W!Grouped(endpoints)

\* Once both have read all that was sent, the probe measures the pods the actor
\* balances, or none: none when it has subscribed too late
\* (latency_probe.rs:24-37, actor.rs:110-112).
ProbeAgreesWithActor ==
  queue["actor"] = Subscribed /\ queue["latency"] = Subscribed /\ (\E n \in Node : probe.pods[n] # {}) =>
    \A p \in Port : services[p] # NoService => services[p].pods = probe.pods

\* The probe hears of a state of the object.
Heard == probe.stage # "spawned" /\ (stream # << >> \/ watcher.stage = "get_service")

\* Once the cluster stops changing, with pods on several nodes, the kernel comes
\* to have a rule, for pods that run, and keeps to it, unless the probe has
\* subscribed after all was sent (endpoints_watch.rs:37, latency_probe.rs:24,
\* actor.rs:81-146).
Converges ==
  <>[]Spread /\ <>Heard => <>[](nft.chain.kind = "rule" /\ nft.chain.targets \subseteq Alive)
-----------------------------------------------------------------------------
\* What the repository says and the code does not always do.

\* "berlangganan perubahan endpoint aplikasi untuk menyesuaikan ip pod secara
\* real-time": the subscription keeps the pod addresses up to date
\* (endpoints_watch.rs:37), so that no address of a pod that is gone stays in
\* the kernel.
FollowsEndpoints == <>[](nft.chain.targets \subseteq Alive)

\* "loop Periodic Interval (CPU & Latency)": the probe measures again and
\* again (docs/sequence_diagram.mermaid:18).
RoundsRecur == []<>(probe.stage = "wait")
=============================================================================
