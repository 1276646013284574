------------------------------ MODULE ProberActor ------------------------------
(***************************************************************************)
(* Actor::dispatch (proberv2/src/actor.rs): one task that takes events off *)
(* its receiver and, after a ServiceChanged and on every tick, runs        *)
(* update_nftables (proberv2/src/update_nftables.rs), which issues three   *)
(* commands, each of which may fail.  While it runs, the task takes no     *)
(* event; the other tasks go on sending.  How the slots are shared out is  *)
(* in SlotAllocation; here a rule is the set of pods it may send to, any   *)
(* that RuleChoice allows for a large probability_cap.                     *)
(***************************************************************************)
EXTENDS Eligibility, Nftables, Broadcast

CONSTANTS
  NoKey,        \* a node missing from datapoint_by_nodename
  NoService,    \* a nodeport missing from service_by_nodeport
  NftMayFail    \* can a command of update_nftables fail?

VARIABLES
  queue,        \* the broadcast channel: one queue per receiver
  data,         \* datapoint_by_nodename
  services,     \* service_by_nodeport
  round,        \* nodeports whose update is due before the next event
  job,          \* the update_nftables call under way
  nft           \* the kernel's ruleset

Idle == [stage |-> "idle", port |-> "none", targets |-> {}]

ServiceChanged(svc) == [kind |-> "service", svc |-> svc]
Latency(n, v) == [kind |-> "latency", node |-> n, value |-> v]
Cpu(n, v) == [kind |-> "cpu", node |-> n, value |-> v]
NodeJoined(n) == [kind |-> "joined", node |-> n]

NoNodes == [n \in Node |-> NoKey]

ActorInit ==
  /\ services = [p \in Port |-> NoService]
  /\ round = {}
  /\ job = Idle

\* Between two events: the task is back in its select.
Waiting == round = {} /\ job = Idle

Event == Head(queue["actor"].msgs)

\* RecvError::Lagged: what was lost is lost, and the loop goes on.
ReceiveLagged ==
  /\ Waiting
  /\ queue["actor"].lagged
  /\ queue' = SkipLagged(queue, "actor")
  /\ UNCHANGED <<data, services, round, job, nft>>

\* Mutants of ReceiveServiceChanged: it is handled while an update is under
\* way; a service already known is not replaced.
ReceiveServiceChanged_Meanwhile ==
  /\ CanTake(queue, "actor")
  /\ Event.kind = "service"
  /\ services' = [services EXCEPT ![Event.svc.port] = Event.svc]
  /\ round' = {Event.svc.port}
  /\ queue' = Take(queue, "actor")
  /\ UNCHANGED <<data, job, nft>>
ReceiveServiceChanged_KeepsFirst ==
  /\ Waiting
  /\ CanTake(queue, "actor")
  /\ Event.kind = "service"
  /\ services' = IF services[Event.svc.port] # NoService THEN services
                 ELSE [services EXCEPT ![Event.svc.port] = Event.svc]
  /\ round' = {Event.svc.port}
  /\ queue' = Take(queue, "actor")
  /\ UNCHANGED <<data, job, nft>>

ReceiveServiceChanged ==
  /\ Waiting
  /\ CanTake(queue, "actor")
  /\ Event.kind = "service"
  /\ services' = [services EXCEPT ![Event.svc.port] = Event.svc]
  /\ round' = {Event.svc.port}
  /\ queue' = Take(queue, "actor")
  /\ UNCHANGED <<data, job, nft>>

\* Mutant of ReceiveEwma: each kind of sample overwrites the other's half.
ReceiveEwma_Swapped ==
  /\ Waiting
  /\ CanTake(queue, "actor")
  /\ Event.kind \in {"latency", "cpu"}
  /\ LET n == Event.node
         old == IF data[n] = NoData THEN [latency |-> 0, cpu |-> 0] ELSE data[n]
     IN  data' = IF data[n] = NoKey THEN data
                 ELSE [data EXCEPT ![n] = IF Event.kind = "cpu"
                                          THEN [old EXCEPT !.latency = Event.value]
                                          ELSE [old EXCEPT !.cpu = Event.value]]
  /\ queue' = Take(queue, "actor")
  /\ UNCHANGED <<services, round, job, nft>>

\* A node without a key is a ghost: its sample is dropped.  The first sample
\* of a node leaves the other half of its ScorePair at 0.
ReceiveEwma ==
  /\ Waiting
  /\ CanTake(queue, "actor")
  /\ Event.kind \in {"latency", "cpu"}
  /\ LET n == Event.node
         old == IF data[n] = NoData THEN [latency |-> 0, cpu |-> 0] ELSE data[n]
     IN  data' = IF data[n] = NoKey THEN data
                 ELSE [data EXCEPT ![n] = IF Event.kind = "latency"
                                          THEN [old EXCEPT !.latency = Event.value]
                                          ELSE [old EXCEPT !.cpu = Event.value]]
  /\ queue' = Take(queue, "actor")
  /\ UNCHANGED <<services, round, job, nft>>

\* Mutants of ReceiveNodeJoined: the datapoint is reset (insert for entry); a
\* node that is not known stays unknown (get_mut for entry).
ReceiveNodeJoined_Resets ==
  /\ Waiting
  /\ CanTake(queue, "actor")
  /\ Event.kind = "joined"
  /\ data' = [data EXCEPT ![Event.node] = NoData]
  /\ queue' = Take(queue, "actor")
  /\ UNCHANGED <<services, round, job, nft>>
ReceiveNodeJoined_OnlyKnown ==
  /\ Waiting
  /\ CanTake(queue, "actor")
  /\ Event.kind = "joined"
  /\ queue' = Take(queue, "actor")
  /\ UNCHANGED <<data, services, round, job, nft>>

\* entry(name).or_insert(None): a node seen before keeps its datapoint.
ReceiveNodeJoined ==
  /\ Waiting
  /\ CanTake(queue, "actor")
  /\ Event.kind = "joined"
  /\ data' = IF data[Event.node] = NoKey THEN [data EXCEPT ![Event.node] = NoData] ELSE data
  /\ queue' = Take(queue, "actor")
  /\ UNCHANGED <<services, round, job, nft>>

\* Mutant of Tick: only services that are in the kernel already are updated.
Tick_OnlyInstalled ==
  /\ Waiting
  /\ round' = {p \in nft.elements : services[p] # NoService}
  /\ round' # {}
  /\ UNCHANGED <<queue, data, services, job, nft>>

\* The ticker: every service known is updated, in the order of a HashMap.
Tick ==
  /\ Waiting
  /\ round' = {p \in Port : services[p] # NoService}
  /\ round' # {}
  /\ UNCHANGED <<queue, data, services, job, nft>>

\* The snapshot update_nftables works on.
PodCount(svc) == [n \in Node |-> Cardinality(svc.pods[n])]
Datapoints == [n \in Node |-> IF data[n] = NoKey THEN NoData ELSE data[n]]
CanUpdate(svc) == MayBuild(PodCount(svc), Datapoints)
UsablePods(svc) == UNION {svc.pods[n] : n \in Kept(PodCount(svc), Datapoints)}

SkipUpdate(p) ==
  /\ job = Idle
  /\ p \in round
  /\ ~CanUpdate(services[p])
  /\ round' = round \ {p}
  /\ UNCHANGED <<queue, data, services, job, nft>>

ComputeRule(p) ==
  /\ job = Idle
  /\ p \in round
  /\ CanUpdate(services[p])
  /\ \E T \in SUBSET UsablePods(services[p]) \ {{}} :
       job' = [stage |-> "chain", port |-> p, targets |-> T]
  /\ round' = round \ {p}
  /\ UNCHANGED <<queue, data, services, nft>>

\* Mutant of CreateServiceChain: the element goes in with the chain.
CreateServiceChain_WithElement ==
  /\ job.stage = "chain"
  /\ nft' = AddElement(AddServiceChain(nft), job.port)
  /\ job' = [job EXCEPT !.stage = "rule"]
  /\ UNCHANGED <<queue, data, services, round>>

CreateServiceChain ==
  /\ job.stage = "chain"
  /\ nft' = AddServiceChain(nft)
  /\ job' = [job EXCEPT !.stage = "rule"]
  /\ UNCHANGED <<queue, data, services, round>>

\* One batch: the chain is flushed and gets its new rule.
InstallRule ==
  /\ job.stage = "rule"
  /\ nft' = ReplaceRule(nft, job.port, job.targets)
  /\ job' = [job EXCEPT !.stage = "element"]
  /\ UNCHANGED <<queue, data, services, round>>

InstallElement ==
  /\ job.stage = "element"
  /\ nft' = AddElement(nft, job.port)
  /\ job' = Idle
  /\ UNCHANGED <<queue, data, services, round>>

\* The error is logged; what was applied stays, and the next service follows.
NftError ==
  /\ NftMayFail
  /\ job # Idle
  /\ job' = Idle
  /\ UNCHANGED <<queue, data, services, round, nft>>

Update ==
  \/ \E p \in Port : SkipUpdate(p) \/ ComputeRule(p)
  \/ CreateServiceChain
  \/ InstallRule
  \/ InstallElement

Handle ==
  \/ ReceiveLagged \/ ReceiveServiceChanged \/ ReceiveEwma \/ ReceiveNodeJoined

ActorNext == Handle \/ Tick \/ Update \/ NftError
=============================================================================
