# A TLA+ model of latency-aware-kubernetes

The repository makes a Kubernetes cluster send traffic, and place pods, by the
CPU load and the latency of its nodes. This directory has the modules that model
it, the TLC runs that check them, and the proofs that TLAPS checks.
`PROJECT.json` lists the runs, the source lines behind every definition, the
hazards and the findings.

## 1. The system

| Part | Where | State | Operations |
|---|---|---|---|
| **Actor** | `proberv2/src/actor.rs` | scores by node, services by nodeport, one receiver of the channel | takes `ServiceChanged`, `EwmaCalculated`, `NodeJoined`; ticks |
| **update_nftables** | `proberv2/src/update_nftables.rs` | none of its own; writes the kernel's ruleset | filters nodes, shares out slots, three nft commands |
| **setup_nftables, main** | `proberv2/src/setup_nftables.rs`, `main.rs` | the base ruleset; the process | eight steps of setup; signal, exit, restart |
| **Endpoints watch** | `proberv2/src/endpoints_watch.rs` | the watch stream | sends `ServiceChanged` |
| **Latency probe** | `proberv2/src/latency_probe.rs` | pods by node, EWMA by node, a receiver | rounds: drain, request, await, send |
| **Node watch** | `proberv2/src/node_watch.rs` | list, then watch stream | sends `NodeJoined` |
| **CPU probe** | `proberv2/src/cpu_usage_probe.rs` | known nodes, EWMA by node, a receiver | rounds: drain, query, send |
| Metrics, config | `proberv2/src/metrics.rs`, `config.rs` | gauges; constants | setters, an HTTP handler |
| **prober v1** | `prober/src/*.rs` | chains by service and scores by host, behind mutexes | watcher, reconciler with retries, two probes, `/scores` |
| **Scheduler extender** | `scheduler/pkg/extender`, `pkg/prober` | caches of scores, traffic and penalties behind an RWMutex | `/filter`, `/score`, `/bind`, warm-up |
| **Descheduler** | `scheduler/pkg/descheduler` | policy, previous top node, running loop | policy events, evaluation cycle, eviction |
| Influx queries | `scheduler/pkg/influx` | none | top node, traffic |
| hellopod, analysis, scripts, k8s | | | workloads, evaluation, deployment |

**How the parts interact.** In proberv2 the four watchers and probes and the
actor are tokio tasks of one process, joined by one broadcast channel of 32
events on which *everybody sends and the actor and both probes receive*: a
probe hears of nodes or pods on its own receiver, at its own pace, and answers
on the same channel. The actor alone writes the kernel's ruleset, which
outlives the process. prober v1 leaves the ruleset to kube-proxy and replaces,
in kube-proxy's own chains, the verdict map by one with weights; its watcher and
its reconciler share a map of services behind a mutex, its probes two maps of
scores. The
extender fetches `/scores` from the prober of the busiest node, which InfluxDB
names; the descheduler uses the extender's scoring on its own loop.

**What is hard.** Five tasks and three receivers in any order; receivers that
subscribe late or fall behind; commands that fail one by one; crashes in the
middle of setup or of an update, with the ruleset left behind; a second writer of
the same chains, kube-proxy, and handles of rules that go stale; rounding and
integer division that must still tile a range exactly; watches that end and
requests that hang; scheduling requests that overlap on one cache; evaluation
loops that go on after they were cancelled. Each hazard is listed at its line in `PROJECT.json`.

**What makes each part correct.** The slots given out tile the range that is
drawn from, in shares that follow the scores. A nodeport leads to a chain only
once that has a rule. A rule only names pods of the current snapshot on nodes
with measured scores. A restart starts from nothing. The last change of the
pods wins. Every node comes to have a score. The kernel comes to rest on pods
that run. What prober v1 installs is never more than kube-proxy last wrote, and a
service counts as done only when it is. A node that gets a pod is charged for it
once and stays charged, whatever is fetched.
One evaluation loop runs, and only while the policy says so; a shift of traffic
evicts one pod at most, whatever becomes of the call that asked for it.

## 2. The modules

| Module | Models | State and actions |
|---|---|---|
| `Eligibility` | the tests update_nftables makes before it shares out slots | operators only |
| `RuleChoice` | what a call of update_nftables promises (abstract) | `decision`: skip, or a map from draws to pods |
| `SlotAllocation` | update_nftables up to the rule (lines 25-209) | the locals of the function; one action per loop body and early return |
| `SlotAllocationProofs` | | theorems about `SlotAllocation` |
| `Broadcast` | tokio's broadcast channel, as used (external) | operators on `queue` |
| `Nftables` | what the issued nft commands do to the ruleset | operators on `nft` |
| `SetupNftables` | setup_nftables | `setup`, the next command; one action each |
| `ProberActor` | Actor::dispatch and the commands of an update | one action per event, tick and command |
| `ProberNode` | one process: setup, actor, signal, crash, restart | composes `SetupNftables` and `ProberActor` under an environment that sends any event |
| `ProberNodeProofs` | | theorems about `ProberNode` |
| `EndpointsWatch` | the cluster's Endpoints object and its watch | `TakeObject`, `Publish`, the ways to drop a change, `WatchError` |
| `LatencyProbe` | the latency probe | one action per step of a round |
| `ServicePath` | from a change of pods to the kernel | composes `EndpointsWatch`, `LatencyProbe`, `ProberActor` |
| `BroadcastProofs` | | lemmas about the operators of `Broadcast` |
| `ServicePathProofs` | | theorems about `ServicePath` |
| `NodeWatch`, `CpuProbe` | the node watch and the CPU probe | one action per step |
| `NodePath` | from a node to its score | composes `NodeWatch`, `CpuProbe`, `ProberActor` |
| `NodePathProofs` | | theorems about `NodePath` |
| `ReconcileRule` | prober v1: from the scores of the hosts to a verdict map, in floats, casts and wrapping u32 | operators only |
| `ProberV1` | prober v1: `NftablesWatcher`, `NftablesReconciler`, both probes, restarts, with kube-proxy beside them | objects, chains with their rules and handles, the watcher's lookup, the map and its mutex, the batch, the two maps of scores; one action per step of a task between two points where others can run |
| `ProberV1Proofs` | | theorems about `ProberV1` |
| `ChargeLedger` | what the extender promises about the scores it places pods by (abstract) | `offer`, `charged`, `chosen`: a request chooses a node and is charged to it, probers are heard, a charge settles, the process restarts |
| `Extender` | `/filter` and `/score` of the scheduler extender, warm-up, restart | the three maps, the mutex and a record per request; one action per step of a handler between two points where others can run |
| `ExtenderProofs` | | theorems about `Extender` |
| `Descheduler` | the policy informer, its handler, the evaluation loops, eviction requests in flight | the policy object, the controller's fields, a record per loop and the requests under way; one action per step of a cycle, and one for each thing the API server does with a request |
| `DeschedulerProofs` | | theorems about `Descheduler` |

Each `MC...` module gives the constants of its specification values for TLC.
Names follow the code: `data` is `datapoint_by_nodename`, `services` is
`service_by_nodeport`, `verdicts` is `verdict_pairs`. A name with a suffix after
an underscore (`RangeEnd_Unclamped`) is a mutant: the definition it precedes as
a plausible bug would have it; `PROJECT.json` names the property that catches it.

**Abstractions.** CPU usage is a percentage. Latencies are integers in
`SlotAllocation`, and 0 or positive elsewhere: no other difference matters to
the control. Scores are scaled to integers, so a rounding error of floating
point is not seen; `score_exponent` is 1 (its default is 0.3), because an
exponent only maps one set of weights to another. In `ProberActor` a rule is a
set of targets, any that `RuleChoice` allows when the cap is large. proberv2
balances the one service it is configured for, so there is one service chain.
A pod's name stands for its address. A request of `LatencyProbe` to the pods of
a node is one step, not one step per pod. Deleting a table that exists is taken
to succeed: setup_nftables ignores the result (setup_nftables.rs:56), and if it
did fail, the rules of two setups would lie side by side. Gauges other than slots and
eligibility, and all logging, are left out.

In `ProberV1` a rule is its owner, its handle and its pods; the draws that lead
to each pod are checked where the batch is computed (`RulesFor`) and not kept in
the chain. A score is a percentage, negative when a host is over the agreed
latency; a float that falls just short of a whole number is a choice (`lost`), the
order of the HashMap another. The kernel never gives a handle twice; here a new rule
gets a handle that nobody remembers (`NewHandle`), which is the same to all who
compare handles. The rewrite of a chain by kube-proxy may take in chains that did
not need it, since kube-proxy does that too. A round of pings writes all its results
in one step, since the hosts in between are like those of a failed CPU round. An
EWMA is any of a set of values. nft may fail whenever it is called, and must
fail for a batch with a stale handle or with ranges that it refuses; how often the
reconciler tries is not counted, as each cycle tries again.

In `Extender` a score is a small integer and the answer of a prober a member of
a small set, chosen by each fetch: which prober was asked makes no other
difference. The 15 seconds of a penalty end by the action `Expire`, at any
moment. Go gives a program whose goroutines read and write one map at once no
meaning; here a reader sees the entries one by one, or the process dies
(`Crash`). In `Descheduler` a `topNode` is one whose rate passes
`WARMUP_THRESHOLD`, a quiet cluster is like a failed query, the node that scores
worst is any node, and a pod that was evicted comes back on any node. Time is not
measured: a loop may tick whenever it waits. An eviction has three parts: the loop
sends a request (`SendEviction`), the API server carries it out or refuses it
(`Evict`, `EvictionFails`), whatever has become of the sender, and the call comes back
(`CallReturns`) with the answer or, cancelled or failed, before it. What client-go
repeats by itself is part of one request. A number that is not whole is a member of
`Fraction`, which `NestedInt64` takes to 0, as the code does when it drops the
error; a field that is missing is one that is 0 or FALSE. An interval so long that it
overflows a `Duration` is left out.

## 3. The runs

| Run | Asks | Bounds |
|---|---|---|
| `SlotAllocation` | do the slots tile the draws, follow the scores, implement `RuleChoice`? | 3 nodes, up to 3 pods each, caps 1 to 12, latencies 0, 1, 3, CPU 0, 40, 96 |
| `ProberNode` | is the ruleset consistent through crashes, errors and restarts? | 2 nodes, 3 pods, 2 nodeports, a queue of 1 |
| `ServicePath` | does a rolling update reach everybody, with moments at which one node has no pod and with a late probe? | 2 nodes, 3 pods, 2 changes, a queue of 4 |
| `ServicePathFaults` | is a pod ever served unmeasured, whatever fails? | 2 nodes, 2 pods, 1 change, a queue of 1, every fault on |
| `NodePath` | does every node get a score? | 2 nodes, 2 joins or departures, a queue of 10 |
| `ProberV1` | is what is installed what was read, do the shares follow the scores, is every service applied in the end? | 2 services, 3 pods on 2 hosts, 1 change or restart, nft failing at any time |
| `Extender` | do charges survive concurrent requests, do the caches implement `ChargeLedger`, and is every request answered? | 2 requests at once, 2 nodes, 2 answers of a prober |
| `Descheduler` | does one loop run, when the policy says so, with one eviction per shift? | 2 nodes, 2 pods, 2 loops at once, 3 changes of the policy, 3 shifts, 1 restart |

The bounds are small and enough for the cases to happen. Three nodes are the
least for which two roundings up can take a slot from a third node; three pods
on a node leave remainders of 1 and 2 and, with small caps, portions below the
number of pods; caps of 1, 2 and 3 give rules with one slot and none. A queue of
1 makes every second event a lag. Two changes allow a second one to arrive
while the first is anywhere on its way. With changes to one node only among them, a
change that the watch drops comes before, after and between those it passes on.
Two nodeports are the least that can
disagree. Two services are the least for which one can make nft refuse the batch
of the other; three pods on two hosts give a host with two pods, one with one, a
service that is too small to be weighted, and one without pods, and a latency
score of -90 makes a host's score negative; one change or restart can come
anywhere in the lookup of a chain and in a batch, and kube-proxy's rewriting of other
chains is not bounded. Two requests are the least that overlap, and the answers differ in
what they know of the second node; the second charge takes the first node below
the CPU threshold. Three changes of the policy are on, off and on again, so that a
cancelled loop and its successor exist together; the policies differ in their
threshold, one has a threshold that is not whole and an interval that makes `NewTicker`
panic, and an object may have no spec at all. Three shifts
leave one to act on after the first was recorded and the process restarted.
`MaxPods`, `MaxChanges`, `MaxNodeChanges`, `MaxPolicyChanges`, `MaxShifts`,
`MaxCrashes`, `MaxDisturbances` (changes of the objects and restarts in
`ProberV1`) and the size of `Loop` are the only bounds on counters.
`Descheduler` sets CHECK_DEADLOCK FALSE: without a policy and with no shift to
come there is nothing to do. `ServicePathFaults` sets CHECK_DEADLOCK FALSE: with the watch ended
before any service is known and every probe waiting for a pod that hangs, the
process really has nothing left to do.

**What the properties mean.** `SlotsPartitioned` and `DrawsAlwaysLand`: nft
accepts the map, and no packet falls through it. `SharesNearScores`: rounding
and the cap move no node further than half a slot per usable node, and its own
half, from the share its score earned. `ImplementsRuleChoice`: in particular a
call with usable data is skipped only when the cap is small. `GotoLeadsToRule`,
`BaseRulesetOnce`, `NothingFromEarlierRuns`: see the hazards of partial failure
and of crash recovery. `QuietMeansCurrent` and `ProbeAgreesWithActor`: nothing
is lost or reordered between the receivers. Both speak of what the code can keep: the
watch passes on no change to one node, so the actor is current when the pods
are on several (`Spread`); and a probe that subscribed after the last
`ServiceChanged` has no pods at all. `Converges`: if the pods come to stay
spread, and the probe was there to hear of any state of the object (`Heard`), the
kernel comes to have a rule for pods that run and keeps to it; all that was lost or
dropped before is made good. `NoGhosts`: a CPU sample never
overtakes the `NodeJoined` it owes its existence to. `OneVerdictMap` and `NoResurrection`: deleting by handle and adding in one
transaction is enough to work beside kube-proxy; a rule in a chain never names a
pod that kube-proxy had taken out of it. `EveryDrawLands`: if nft takes a rule of
prober v1, each draw below its modulus is in the range of exactly one pod, and no range
goes beyond the draws. `SharesFollowScores`: while all
scores are positive, nft takes a rule that has a draw for each pod, and each host
gets what its score earned, but for at most one draw per pod. `AppliedForAReason`: a
service that changed while a batch was under way is not marked as applied with
it. `Settles`: every service that was found is applied in the end, unless nft goes on
to refuse. `ImplementsLedger`: two maps, a mutex and any number of requests are
one ledger in which each request that has chosen a node charges it once, and
nothing else changes the score of a node with a recent charge. `PenaltyInForce`,
`NoRecoveryUnderPenalty` and `ChargedNodesFiltered`: while a charge is recent it
is what the cache says of the node, no fetch or second charge raises it, and a
filter that reads the cache without the lock still sees it.
`ChosenNodeIsCached`: between the choice of a node and its charge nobody takes it
out of the cache. `OneLoop`: the controller's flag and cancel function stand
for the one loop that is at work. `QuietFollowsPolicy`: with all events handled,
the loop runs if the object says so, and it reads the object's numbers, except that
a threshold that is not whole leaves no pod idle; it says nothing of an object without
a spec, nor of the ticker of a loop that runs already. `DisabledSendsNothing`: once the
handler has dealt with a disabling policy no request to evict is sent, and each request
that was already on its way evicts one pod at most. `EvictionsAnswerShifts`: fewer pods
are evicted than the top node changes, as long as loops do not overlap in their cycles
(`Overlap = FALSE`, below); so it does not catch the late write of evaluate.go:107.
`DisableTakesEffect`: every loop ends once the policy stays disabled.

**Violations.** Four more runs each check one statement of a comment or a doc
that the code does not keep; they are the `findings`:

| Run | The code |
|---|---|
| `ModulusCoversMap` | never draws the last slot; one slot makes modulus 0 |
| `WatchErrorEnds` | ends the Endpoints watch for good at its first error |
| `SilentPod` | stops measuring when one pod never answers |
| `ColdStart` | asks the node named `none` when there is no traffic, and starts with an empty cache |

Two more disagreements, also `findings`, need no run of their own, since a property
that holds states what the code does instead:

- `EveryDrawLands` (run `ProberV1`): docs/prober_chain_reconciliation.mermaid:30 lets
  the key be random from 100; the code draws from `modulo_by`, what it gave out
  (nftables_reconciler.rs:169). Drawing from 100 is the mutant `Modulus_Hundred`, which
  breaks the property: as portions are rounded down, the last draws would go nowhere.
- `QuietFollowsPolicy` (run `Descheduler`): the schema lets `idleCPUThreshold` be a
  float (k8s/scheduler/descheduler/Policy-crd.yaml:31-34); the handler reads it as an
  integer and drops the error (controller.go:88), so 75.5 counts as 0 and no pod is
  ever idle.

More that the code does is worth knowing and contradicts no text. In proberv2 a
nodeport, once seen, is kept and written for ever, so that an old and a new one
write the one chain in turn; the
gauge `node_eligible` is 1 for a node whose portion is too small for its pods;
the Endpoints watch drops a change that leaves the service on one node, so the
kernel keeps the older pods; and control-plane nodes join through the node watch,
though not through its list. In prober v1:

- One service with a stale handle makes nft refuse the batch of all services
  (nftables_reconciler.rs:159, 178), in each attempt until that service's object
  changes. A host whose portion is 0 does the same (138): more pods than percent,
  or a negative score. These are the second disjunct of `Settles`.
- A service that changes while a batch is under way waits for the mutex with the chain it read
  before, and then records a handle that the batch has just replaced; that is
  the usual way to a stale one.
- The chain of a service is looked up before the two seconds that are to give
  kube-proxy time to make it (nftables_watcher.rs:139-149): a new service is dropped, and
  not tried again until its object changes. When all lookups of the start fail the
  task ends (317-322).
- A service that was applied is not weighted again when scores change, only
  when its object does (101), and an Endpoints object is known by its name without its namespace.
- One ping without an answer discards the results of the round, and the
  warning about a latency over the agreed one is never reached.

In the descheduler:

- A loop that runs keeps its ticker's interval when the policy's changes
  (evaluate.go:14), though it reads a new threshold at once.
- An object without a spec is passed over (controller.go:80-84): a loop that the object
  had enabled goes on. The deletion of an enabled object leaves it running as well.
- A request on its way to the API server when the policy is disabled may still be
  carried out, though the client sees an error (eviction.go:32).
- An interval of 0 or less makes `NewTicker` panic, after each restart again.

**Fairness.** `ServicePath` and `NodePath` state weak fairness of every task's
steps, since tokio runs a task that can run; the tickers of actor and probes
fire for ever. The actor's handling of events and its ticks have strong fairness: both are
branches of one `select!`, which picks among ready branches at random.
`SampleTaken` has strong fairness: a node that Prometheus is asked for again
and again is in the end known to it. No change of the cluster, failure or
heartbeat is fair. `EveryNodeScored` excepts runs in which the watch ends.
`ProberV1`: kube-proxy follows the objects, the tasks run, their timers fire for
ever and hosts answer in the end, weakly fair; what waits for the mutex is strongly
fair: it is `futures::lock::Mutex` (nftables_reconciler.rs:7), which promises no order
among those that wait, but the reconciler sleeps ten seconds between its attempts
and cycles (32, 56) with the mutex free and the watcher holds it once while it starts and then for an insertion only,
so one that was woken finds it free in the end; `ApplyBatch` has strong
fairness, which says that nft does not fail for ever for no reason. `ReconcilerRuns`
is strong fairness of `BeginReconcile` said by its guard. The end of the watcher, a
change or a restart is not fair. `Extender`: every step of a handler is weakly fair, since queries and fetches have
timeouts; those that wait for the mutex are strongly fair, since Go hands a
mutex to a waiter after a millisecond. `Descheduler`: the informer delivers and
a cycle proceeds, weakly fair, since its queries have timeouts and its calls to the API
server end at the latest when they are cancelled; stopping a cancelled loop is strongly fair, since
`select` picks among ready branches at random. No tick, shift, policy change,
restart, or answer of the API server is fair.

**Assumptions of timing**, each a name in a guard. `KeepsUp`: probe rounds and
environment events are seconds apart, so the actor has read what was sent
before the next round begins. That holds on a machine that is not overloaded, and
nothing in the code enforces it; `ServicePathFaults` does without it, and
`Converges` needs it. When the latency probe subscribes is not assumed in `ServicePath`; in
`NodePath` the CPU probe has subscribed by the second request to the API server.
`Overlap = FALSE` in the run of `Descheduler`: a new loop's first tick comes
after the cycle of a cancelled one has ended. The deployed interval is 120
seconds and the calls of a cycle time out sooner, but a policy may set a shorter
one; with `Overlap = TRUE` the late loop overwrites `prevTopNode` with an older
node, a shift is acted on twice, and `EvictionsAnswerShifts` fails.

## 4. What is proved

**A call of update_nftables.** `SlotAllocationProofs` proves, for all nodes, services, scores, caps and widths
that meet the ASSUMEs of `SlotAllocation`:

| Theorem | Property |
|---|---|
| `Typing` | `TypeOK`: u32 arithmetic never passes `probability_cap` |
| `Partition` | `SlotsPartitioned` |
| `NoDrawIsLost` | `DrawsAlwaysLand` |
| `OnlyUsablePodsServed` | `OnlyKeptPods` |
| `ZeroLatencyBlocksTheService` | `BuiltOnlyMeasured` |
| `EvenSplit` | `ShareSplitEvenly` |
| `NearScores` | `SharesNearScores` |
| `Refinement` | `ImplementsRuleChoice` |

The first five rest on one inductive invariant, `IInv`. None of the properties is
inductive alone. `SlotsPartitioned` needs to know that `starting` is the first
draw not given out, and that a range about to be placed is not empty, which is
that `portionEach` is at least 1 inside the loop. `DrawsAlwaysLand` needs that
`starting` is positive as soon as there is a range. `OnlyKeptPods` needs that
the loop's `node` is a kept one and `idx` one of its pods. `BuiltOnlyMeasured`
needs that no range exists while a usable node is unmeasured, since every
portion is then 0. `TypeOK` for `starting` needs that the sum of line 170 does
not wrap, from `CapAssumption`: twice the cap is below 2^32 (the deployed cap is
100000). One lemma per action keeps `IInv`; PTL joins them.

The other three speak of sums over the nodes, which the loops build up one node
at a time in any order, and need four invariants more (`SlotInv`). `CountInv`: the
pods of the nodes counted number `totalEndpoints`. `SumInv`: some function on the
sets of counted nodes adds up their weights, with `totalScore` for all of them; a
step that counts a node extends it (`AddsNode`), so the state machine carries the
sum and no induction over the set is needed. `FrameInv`: the ranges are those of
visited nodes, and of the pods before `idx`. `SharesInv`: a visited node was passed
over for having fewer slots than pods, has its whole portion as one run with a
run in it for each pod, or was cut short by the cap, which is then used up; and the draws
given out pass those the scores earned by half a draw per visited node at most (`Fits`).
`Fits` is what bounds the loss of a node that comes last: the cap can only take
what the others were rounded up. While nothing is given out, each visited node had fewer
slots than pods, which bounds the cap from above; that is the case in which `RuleChoice` allows
a skip with usable data, so `Refinement` needs it. `Refinement` maps the loops to a
stutter until the call returns, and then shows that what it returns is one of the
abstract choices. It needs `NodeAssumption`, that the nodes are finitely many: `service.nodes`
is a `HashMap`, and the cluster's.

**A process and its ruleset.** `ProberNodeProofs` proves, for all nodes, pods,
nodeports, events, samples and lengths of the channel:

| Theorem | Property |
|---|---|
| `ProberTyping` | `TypeOK` |
| `NoGotoToEmptyChain` | `GotoLeadsToRule` |
| `StartsFromNothing` | `NothingFromEarlierRuns` |
| `SetupIsExact` | `BaseRulesetOnce` |
| `RulesAreCurrent` | `RulesMatchSnapshot` |
| `ScoresAreKept` | `ScoresSurviveRejoin` |

The invariant adds what each step of setup has installed (`Progress`), that the
actor's memory is empty outside of its run (`Memory`), and that an update under
way is of a service that still has the data its decision was made on, with its
earlier commands applied (`Work`). It rests on the assumption that deleting a
table that exists succeeds.

**From the pods to the kernel.** `BroadcastProofs` has the lemmas on the
channel: sending to, taking from and skipping in a receiver keeps every message in
any set that held those of before, and lag only drops messages. From them
`ServicePathProofs` proves, for all nodes, pods, nodeports, answers and lengths
of the channel, and with every fault, `TypeOK` (`ServicePathTyping`) and
`MeasuredBeforeServed` (`OnlyMeasuredServed`). The property is not inductive: the
invariant `MeasureInv` follows a measured latency on its way. A latency event in
any receiver is 0 or of a node the probe has measured, so is a latency the actor
shows, and so are the nodes of the update under way and of the rule; a measured
node stays measured, as the EWMA of positive samples is positive.

Two more theorems are about the order of events, not only their kind.
`NoChangeIsLost` proves `QuietMeansCurrent` and `ProbeMeasuresTheServed` proves
`ProbeAgreesWithActor`. Both assume `Undisturbed` (no request to the API fails and
the Service keeps one nodeport) and that the readers do not lag: the actor for the first,
neither for the second. Without these they are false, and the code says so: a
failed request drops its change (endpoints_watch.rs:63), a lagging receiver skips
the oldest events (actor.rs:106), and the actor keeps the entry of a nodeport that was
changed (actor.rs:111). The run `ServicePath` has just these conditions, with a
channel that no reader falls behind on. `CurrentInv` says where the last state of the object is:
in the stream, with the watch, or what the actor will show after its queue is read
(`Shows`). `AgreeInv` says that actor and probe will show the same service once both
have read their queues, or that the probe subscribed after the last announcement and
will see none.

**From a node to its score.** `NodePathProofs` proves `TypeOK`
(`NodePathTyping`) and, for runs in which the actor's receiver does not lag,
`NoGhosts` (`NoSampleOvertakes`). The condition is needed: a lagging receiver drops
the oldest events, `NodeJoined` among them. The invariant `OrderInv` says that each
node the CPU probe knows, or will read of, is known to the actor or announced in its
queue; that is the order of sending, seen through two receivers.

**The first prober.** `ProberV1Proofs` proves, for any services, pods and hosts,
`TypeOK` (`V1Typing`), `OneVerdictMap` (`OneMapPerChain`), `NoResurrection`
(`NoPodComesBack`) and `AppliedForAReason` (`NothingTakenForApplied`). The
invariant `IInv` adds to the type what makes the handle a protection: who
remembers the handle of a rule that is still there (the lookup, the map, the batch)
remembers pods of that rule (`MemoryInv`); so a batch that nft takes
installs pods that are in the chain. That needs a new handle to be one that
nobody remembers, which exists since finitely many are remembered
(`FreshHandle`). `AppliedForAReason` needs that the mutex has one holder
(`LockInv`) and that the map has not changed since the batch was computed from it
(`BatchInv`).

Two more theorems are about the arithmetic of a rule, for any scores, rounding
and order of the maps: `EveryDrawLands` (`EveryDrawHasAPod`) and
`SharesFollowScores` (`HostsGetTheirShares`). They follow from `TypeOK` alone, since
the properties speak of every rule that a reconciliation of the state may
compute. `EwmaAssumption` says that a score is an integer, and `WidthAssumption`
that 100 draws fit into a `u32`; the pods are finitely many (`ClusterAssumption`).

- *Induction.* `NumbersByInduction` and `SetsByInduction` are about a set of numbers or a
  family of sets, not about a predicate, so they can be instantiated: a
  smallest missing number would make adding 1 an injection of a finite set into a
  smaller one. From them come `SumStep` (the library's sum over a set adds one
  element at a time, whatever its `CHOOSE` takes first) and `UniformSum`.
- *Wrapping.* `start_range` wraps at each host, so `StartIsDraws` and `SizesAddUp`
  compare with the draws that were given out only up to a multiple of the width
  (`SameModulo`): the sizes of all ranges, which may be negative, add up to the modulus so
  far. If nft takes the ranges they do not overlap, so they have at most 2^32
  draws (`RangesFit`, which counts them), and the modulus is positive: then the two are
  equal (`RuleLands`).
- *Coverage.* A range that nft takes has 1 to 2^32 draws and is, but for the wrapping,
  as large as its host's portion, which is below 2^32; so it is exactly as large, and the
  portion is positive (`SizeExact`). Then the sizes add up to what was given out without
  any remainder (`SizesAddUp` with modulo 0), and to the modulus, which is below 2^32: nothing
  wrapped (`NothingWraps`), so no range reaches the
  modulus (`RuleTaken`). The ranges have as many draws as there are below the modulus, and lie
  among them without overlap: they are all of them (`RuleCovers`).
- *Shares.* While all scores are positive a portion is at most the host's percentage,
  and short of it by less than one draw for each pod, or exactly one where the float falls
  short of a whole number (`PortionShare`). The portions come to at most 100 (`DrawsBounded`),
  so nothing wraps, and nft takes the rule if each pod has a draw (`RuleTaken`);
  the pods of a host in a rule that nft takes have equally many (`SlotsOfHost`).
  `SharesFollowScores` is about rules that nft takes: with a portion of 0 a range
  ends before it begins or, at the front of the order, covers all 2^32 draws,
  and nft refuses the batch.

**The extender.** `ExtenderProofs` proves, for any number of requests and nodes
and any answers of the probers, `TypeOK` (`ExtenderTyping`), `PenaltyInForce`
(`ChargesStayInForce`), `ChosenNodeIsCached` (`NoChargeIsLost`),
`NoRecoveryUnderPenalty` (`ChargedScoreNeverRises`) and `ChargedNodesFiltered`
(`ChargedNodesAreFiltered`). The four need each other: a charge is made from a
score, which exists because the chosen node is cached, which holds because no
merge removes a node. A request begins only after the warm-up, which writes the
cache without regard to charges (`QuietWarmup`). With the same invariant, and
that a request has nothing chosen unless it is scoring (`ChoiceInv`),
`ExtenderImplementsLedger` proves the refinement: under the mapping that hides
requests, mutex and old penalties, each step of `Extender` is a step of
`ChargeLedger` or a stutter.

**The descheduler.** `DeschedulerProofs` proves, for any number of loops, nodes,
pods and policies, `TypeOK` (`DeschedulerTyping`), `OneLoop` (`AtMostOneLoop`),
`QuietFollowsPolicy` (`FollowsPolicy`), `DisabledSendsNothing`
(`NothingSentWhenDisabled`), and, from `~Overlap`, `EvictionsAnswerShifts`
(`OneEvictionPerShift`). The assumptions on a policy are those of its schema: an
interval is any integer, a threshold any integer or member of `Fraction`, and an object
may lack a spec. For `FollowsPolicy` the invariant says that the newest spec is the
last event the informer holds, and otherwise already followed, after conversion.
`NothingSentWhenDisabled` needs `OneLoop`, which leaves no loop that could send while
the controller is disabled, and that the requests under way are finitely many
(`Accounted`), so that carrying one out takes one from their number. `OneEvictionPerShift`
counts the requests sent, not the pods evicted, since a request may be carried out
long after its loop has gone on: a shift that is not recorded yet has room for one
more request, and a loop on its way to one has taken it (`ShiftsCounted`); by
`Accounted` there are never more evictions than requests.

Each invariant was checked by TLC on the run's instance before it was proved; of
`SumInv` and `SharesInv`, the form with the sum written as a fold.

`OnlyKeptPods` and the `TypeOK` of `NodePath` are proved and no run checks them:
`ImplementsRuleChoice` implies the first, and TLC confirmed both before the proof.

**Only model-checked:** everything under fairness (`RequestsAnswered`,
`DisableTakesEffect`, `Converges`, `EveryNodeScored`, `Settles`) is out of the
prover's reach, as are the four runs that expect a violation.

## 5. The plan

In order of weight; all of it is done, with the proofs of section 4.

1. `SlotAllocation` with `RuleChoice`: the algorithm the program exists for, and its proofs.
2. `ProberNode`: the actor, setup, crashes.
3. `ServicePath`: watch, probe and actor together, liveness.
4. `NodePath`: node watch, CPU probe and actor.
5. `Extender`: concurrent requests over the caches and penalties.
6. `Descheduler`: policy events against the evaluation loops.
7. `ReconcileRule` and `ProberV1`: the first prober's allocation, retries, handles and locks.
8. Proofs of the paths, of the shares, of `RuleChoice`, and of the sums of `ReconcileRule`.
9. `ChargeLedger`, which `Extender` implements.

## 6. Not modelled

The metrics server and config parsing of proberv2 (no behaviour); hellopod,
analysis, scripts and manifests (not part of the running system); the bodies of
InfluxDB and Prometheus queries (their answers are inputs); `/bind`, one call to
the API server that keeps no state; the `/scores` of prober v1, which only reads. A failing
deletion of the old table in setup (setup_nftables.rs:56) is left out: see the
abstractions.
