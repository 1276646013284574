-------------------------------- MODULE NodePath --------------------------------
(***************************************************************************)
(* How a node of the cluster comes to have a CPU score in the actor: the   *)
(* watch of the nodes, the channel, the CPU probe and the actor            *)
(* (proberv2/src/node_watch.rs, cpu_usage_probe.rs and actor.rs) running   *)
(* as concurrent tasks of one process.  No service is known yet, so the    *)
(* actor's ticks have nothing to update; ServicePath has that side.        *)
(* Rounds and heartbeats are seconds apart: neither comes before the actor *)
(* has read what was sent.                                                 *)
(***************************************************************************)
EXTENDS Eligibility, Nftables, Broadcast

CONSTANTS
  Workers, MaxNodeChanges, CpuSamples, NoKey, NoService, NftMayFail

ASSUME NodesAssumption == Workers \subseteq Node /\ MaxNodeChanges \in Nat
ASSUME NftAssumption == NftMayFail \in BOOLEAN
ASSUME DataAssumption == NoKey # NoData /\ NoKey \notin [latency : {0}, cpu : CpuSamples]

VARIABLES
  nodes, nodeChanges, nodeWatcher,   \* NodeWatch
  cpuProbe,                          \* CpuProbe
  data, services, round, job, nft,   \* ProberActor
  queue

watchVars == <<nodes, nodeChanges, nodeWatcher>>
actorVars == <<data, services, round, job, nft>>
vars == <<watchVars, cpuProbe, actorVars, queue>>

N == INSTANCE NodeWatch
C == INSTANCE CpuProbe
A == INSTANCE ProberActor

Init ==
  /\ N!NodeWatchInit
  /\ C!CpuProbeInit
  /\ A!ActorInit
  /\ data = A!NoNodes
  /\ nft = NoRuleset
  /\ queue = [r \in {"actor", "cpu"} |-> IF r = "actor" THEN Subscribed ELSE Unsubscribed]

\* The list is a request to the API server, and so is what the watch begins
\* with: the probe, which subscribes as soon as it runs, is taken to have run
\* by the second of them.  It may well miss the events of the first.
WatchStep ==
  /\ nodeWatcher.stage = "listed" /\ nodeWatcher.pending = {} => cpuProbe.stage # "spawned"
  /\ N!NodeWatchStep
  /\ UNCHANGED <<cpuProbe, actorVars>>

\* Of the heartbeats only one that comes between two rounds is followed.
ClusterStep ==
  /\ \E n \in Node :
       \/ N!NodeAdded(n) \/ N!NodeRemoved(n)
       \/ /\ N!NodeUpdated(n)
          /\ cpuProbe.stage = "wait" /\ nodeWatcher.pending = {}
          /\ \A r \in DOMAIN queue : queue[r].msgs = << >>
  /\ UNCHANGED <<cpuProbe, actorVars>>

WatchError ==
  /\ N!NodeWatchError
  /\ UNCHANGED <<cpuProbe, actorVars>>

ProbeStep ==
  /\ C!CpuProbeStep
  /\ UNCHANGED <<watchVars, actorVars>>

NextRound ==
  /\ queue["actor"].msgs = << >>
  /\ C!NextCpuRound
  /\ UNCHANGED <<watchVars, actorVars>>

SampleTaken(n) ==
  /\ C!Sample(n)
  /\ UNCHANGED <<watchVars, actorVars>>

ActorHandles ==
  /\ A!Handle
  /\ UNCHANGED <<watchVars, cpuProbe>>

Next == WatchStep \/ ClusterStep \/ WatchError \/ ProbeStep \/ NextRound \/ ActorHandles

\* tokio runs every task that can run; the CPU ticker fires for ever; a node
\* that is asked for again and again is in the end known to Prometheus.
Fairness ==
  /\ WF_vars(WatchStep)
  /\ WF_vars(ProbeStep)
  /\ SF_vars(NextRound)
  /\ WF_vars(ActorHandles)
  /\ \A n \in Node : SF_vars(SampleTaken(n))

Spec == Init /\ [][Next]_vars
FairSpec == Spec /\ Fairness
-----------------------------------------------------------------------------
\* The values each variable may have.
TypeOK ==
  /\ nodes \subseteq Node /\ nodeChanges \in 0..MaxNodeChanges
  /\ nodeWatcher.stage \in {"list", "listed", "watch", "ended"}
  /\ nodeWatcher.pending \subseteq Node
  /\ cpuProbe.stage \in {"spawned", "drain", "query", "wait"}
  /\ cpuProbe.left \subseteq cpuProbe.known /\ cpuProbe.known \subseteq Node
  /\ \A n \in Node : data[n] \in {NoKey, NoData} \/ data[n].cpu \in CpuSamples
  /\ \A r \in DOMAIN queue : Len(queue[r].msgs) <= Capacity

\* No sample is taken for a ghost: when a CPU score reaches the actor, the
\* NodeJoined of its node has, though the probe learnt of the node from a
\* receiver of its own (cpu_usage_probe.rs:35-39, actor.rs:123-127).
NoGhosts ==
  \A i \in DOMAIN queue["actor"].msgs :
    LET e == queue["actor"].msgs[i]
    IN  e.kind = "cpu" =>
          \/ data[e.node] # NoKey
          \/ \E j \in 1..(i - 1) : queue["actor"].msgs[j] = A!NodeJoined(e.node)

Scored(n) == data[n] \notin {NoKey, NoData}

\* Unless the watch ends with an error, every node of the cluster comes to
\* have a score, also one that joins late, and one whose first NodeJoined the
\* probe was too late for (node_watch.rs:29-83, cpu_usage_probe.rs:25-111).
EveryNodeScored ==
  <>(nodeWatcher.stage = "ended") \/ <>[](\A n \in nodes : Scored(n))
=============================================================================
