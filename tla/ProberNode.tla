------------------------------- MODULE ProberNode -------------------------------
(***************************************************************************)
(* The proberv2 process of one node (proberv2/src/main.rs): setup, then    *)
(* the actor, until a signal, an error or a crash; the DaemonSet starts it *)
(* again.  The program's memory is lost with it, the kernel's ruleset is   *)
(* not, and nothing removes the ruleset on the way out.  The watchers and  *)
(* the probes are an environment here that sends any event at any time;    *)
(* ServicePath and NodePath have them.                                     *)
(***************************************************************************)
EXTENDS Eligibility, Nftables, Broadcast

CONSTANTS
  NoKey, NoService, NftMayFail,
  PodMaps,     \* the values endpoints_by_nodename takes in events
  Samples      \* the EWMA values in events: [latency: ..., cpu: ...] of sets

ASSUME NftAssumption == NftMayFail \in BOOLEAN
ASSUME EventsAssumption ==
  /\ PodMaps \subseteq [Node -> SUBSET Pod]
  /\ NoKey # NoData
  /\ Samples.latency \subseteq Nat /\ Samples.cpu \subseteq Nat
  /\ NoKey \notin [latency : Nat, cpu : Nat] /\ NoData \notin [latency : Nat, cpu : Nat]
  /\ NoService \notin [port : Port, pods : PodMaps]

VARIABLES
  phase,       \* of the process: starting, running, exiting, stopped, down
  setup,       \* the place reached in setup_nftables
  queue, data, services, round, job,   \* the actor's
  nft          \* the kernel's ruleset

memory == <<queue, data, services, round, job>>
vars == <<phase, setup, memory, nft>>

S == INSTANCE SetupNftables
A == INSTANCE ProberActor

Events ==
  {A!ServiceChanged([port |-> p, pods |-> m]) : p \in Port, m \in PodMaps}
    \union {A!Latency(n, v) : n \in Node, v \in Samples.latency}
    \union {A!Cpu(n, v) : n \in Node, v \in Samples.cpu}
    \union {A!NodeJoined(n) : n \in Node}

Init ==
  /\ phase = "starting"
  /\ setup = "node_ip"
  /\ nft = NoRuleset
  /\ queue = [r \in {"actor"} |-> Unsubscribed]
  /\ data = A!NoNodes
  /\ A!ActorInit

SettingUp ==
  /\ phase = "starting"
  /\ S!SetupNext
  /\ UNCHANGED <<phase, memory>>

Dispatch ==
  /\ phase = "starting"
  /\ setup = "done"
  /\ phase' = "running"
  /\ queue' = [r \in {"actor"} |-> Subscribed]
  /\ UNCHANGED <<setup, data, services, round, job, nft>>

Arrival ==
  /\ phase \in {"running", "exiting"}
  /\ \E e \in Events : queue' = Send(queue, e)
  /\ UNCHANGED <<phase, setup, data, services, round, job, nft>>

\* select! picks any branch that is ready, so the actor may go on for a while
\* after the token is cancelled.
ActorStep ==
  /\ phase \in {"running", "exiting"}
  /\ A!ActorNext
  /\ UNCHANGED <<phase, setup>>

Signal ==
  /\ phase = "running"
  /\ phase' = "exiting"
  /\ UNCHANGED <<setup, memory, nft>>

ActorStops ==
  /\ phase = "exiting"
  /\ A!Waiting
  /\ phase' = "stopped"
  /\ UNCHANGED <<setup, memory, nft>>

MemoryLost ==
  /\ queue' = [r \in {"actor"} |-> Unsubscribed]
  /\ data' = A!NoNodes
  /\ services' = [p \in Port |-> NoService]
  /\ round' = {}
  /\ job' = A!Idle

\* main returns the error of setup_nftables, or returns after shutdown_timeout
\* wherever the actor is, or the process is killed at any point.
Die ==
  /\ phase # "down"
  /\ phase' = "down"
  /\ MemoryLost
  /\ UNCHANGED <<setup, nft>>

Restart ==
  /\ phase = "down"
  /\ phase' = "starting"
  /\ setup' = "node_ip"
  /\ UNCHANGED <<memory, nft>>

Next ==
  \/ SettingUp \/ Dispatch \/ Arrival \/ ActorStep
  \/ Signal \/ ActorStops \/ Die \/ Restart

Spec == Init /\ [][Next]_vars
-----------------------------------------------------------------------------
ServiceSnapshot == [port : Port, pods : PodMaps]
ScorePair == [latency : Samples.latency \union {0}, cpu : Samples.cpu \union {0}]

Receiver == [open : BOOLEAN, lagged : BOOLEAN, msgs : Seq(Events)]
Job ==
  [stage : {"idle", "chain", "rule", "element"}, port : Port \union {"none"}, targets : SUBSET Pod]
Chain ==
  [kind : {"absent", "empty", "rule"}, port : Port \union {"none"}, targets : SUBSET Pod]
Ruleset ==
  [table : BOOLEAN, map : BOOLEAN, set : BOOLEAN, base : BOOLEAN,
   jumps : Nat, lookups : Nat, chain : Chain, elements : SUBSET Port]

\* The values each variable may have.
TypeOK ==
  /\ phase \in {"starting", "running", "exiting", "stopped", "down"}
  /\ setup \in {"node_ip", "delete", "table", "map", "set", "chains", "jump",
                "lookup", "done", "failed"}
  /\ queue \in [{"actor"} -> Receiver]
  /\ Len(queue["actor"].msgs) <= Capacity
  /\ data \in [Node -> ScorePair \union {NoData, NoKey}]
  /\ services \in [Port -> ServiceSnapshot \union {NoService}]
  /\ round \subseteq Port
  /\ job \in Job /\ (job.stage = "idle" => job = A!Idle)
  /\ job # A!Idle => job.port \in Port
  /\ nft \in Ruleset

Serving == phase \in {"running", "exiting", "stopped"}

\* A nodeport is sent to the service chain only once the chain holds a rule:
\* no crash or nft error between the three commands (update_nftables.rs:211-303)
\* or in a restart leaves a goto to an empty chain.
GotoLeadsToRule == nft.elements # {} => nft.chain.kind = "rule"

\* What the kernel routes is what this run of the program has installed: after
\* a restart nothing of an earlier run is left once the actor is at work
\* (setup_nftables.rs:47-71).
NothingFromEarlierRuns ==
  Serving =>
    /\ nft.elements \subseteq {p \in Port : services[p] # NoService}
    /\ nft.chain.kind # "absent" => \E p \in Port : services[p] # NoService

\* The actor only runs on a complete base ruleset, each rule of it once, however
\* many runs of setup_nftables were cut short before (setup_nftables.rs:58-227).
BaseRulesetOnce ==
  Serving =>
    /\ nft.table /\ nft.map /\ nft.set /\ nft.base
    /\ nft.jumps = 1 /\ nft.lookups = 1

\* A new rule only ever sends to pods of the snapshot the actor holds for that
\* nodeport at that moment, on nodes whose scores at that moment make them
\* usable: nothing changes under an update (actor.rs:88-121).
RulesMatchSnapshot ==
  [][nft'.chain # nft.chain /\ nft'.chain.kind = "rule" =>
       /\ services[nft'.chain.port] # NoService
       /\ A!CanUpdate(services[nft'.chain.port])
       /\ nft'.chain.targets \subseteq A!UsablePods(services[nft'.chain.port])]_vars

\* While the program runs, a node that has a score keeps one: a node announced
\* again, as every re-list of the watcher does, is not reset (actor.rs:140-144).
ScoresSurviveRejoin ==
  [][phase' # "down" =>
       \A n \in Node : data[n] \notin {NoKey, NoData} => data'[n] \notin {NoKey, NoData}]_vars
=============================================================================
