-------------------------------- MODULE ProberV1 --------------------------------
(***************************************************************************)
(* The first prober (prober/src): it leaves the ruleset to kube-proxy and  *)
(* replaces, in the chain of a service, kube-proxy's verdict map by one    *)
(* with weights.  NftablesWatcher lists a chain after each change of an    *)
(* Endpoints object and remembers the handle of its rule;                  *)
(* NftablesReconciler deletes that rule by its handle and adds its own,    *)
(* all services in one transaction.  Both hold a mutex on the map of the   *)
(* services, the watcher not while it lists.  kube-proxy is not ours and   *)
(* rewrites a chain whenever it likes.  The two probes give the hosts      *)
(* their scores; the scheduler reads them at /scores.                      *)
(***************************************************************************)
EXTENDS ReconcileRule, SequencesExt

CONSTANTS
  Service,
  NameOrder,     \* the services as the API server lists them, by name
  Objects,       \* the states of each service's Endpoints object: its ready pods
  CpuEwmas,      \* the values ewma_cpu_by_host may have for each host, in percent
  LatencyEwmas,  \* what all of ewma_latency_by_host may be after a round of pings
  NoService,     \* a service missing from nftables_chain_by_service
  NoRule,        \* a service the batch says nothing of
  NoFetch,       \* fetch_service_chain_info is not under way
  Free,          \* nobody holds the mutex
  NftMayFail,    \* can a call of nft fail for no reason of ours?
  MaxDisturbances  \* bound: changes of the Endpoints objects, restarts of the prober

Listing == Service \X SUBSET Pod
Rule == [owner : {"kube-proxy", "prober"}, handle : Nat, pods : SUBSET Pod]
Lookup == [service : Service, addresses : SUBSET Pod, step : {"find", "list", "insert"},
           handle : Nat, pods : SUBSET Pod]
Entry == [handle : Nat, pods : SUBSET Pod, applied : BOOLEAN]
Command == [handle : Nat, pods : SUBSET Pod, accepted : BOOLEAN]

ASSUME ClusterAssumption ==
  /\ HostOf \in [Pod -> Host] /\ IsFiniteSet(Pod) /\ Objects \in [Service -> SUBSET SUBSET Pod]
  /\ NameOrder \in Seq(Service)
  /\ NftMayFail \in BOOLEAN /\ MaxDisturbances \in Nat
ASSUME EwmaAssumption ==
  CpuEwmas \in [Host -> SUBSET Int] /\ LatencyEwmas \subseteq [Host -> Int \union {NoScore}]
ASSUME SentinelAssumption ==
  /\ NoFetch \notin Lookup /\ NoService \notin Entry /\ NoRule \notin Command
  /\ Free \notin {"watcher", "reconciler"}

VARIABLES
  addresses,   \* each service's Endpoints object
  synced,      \* the pods kube-proxy last wrote each chain for
  chain,       \* each service's chain in the kernel: its rules, oldest first
  disturbances,  \* changes and restarts so far
  stream,      \* objects that the watch has still to deliver
  watcher,     \* NftablesWatcher: its place, what init has still to visit
  fetch,       \* fetch_service_chain_info, and what it has read
  services,    \* nftables_chain_by_service
  lock,        \* who holds its mutex
  reconciler,  \* NftablesReconciler: its place, and the batch
  cpu,         \* ewma_cpu_by_host
  latency      \* ewma_latency_by_host

cluster == <<addresses, disturbances>>
kernel == <<synced, chain>>
watching == <<stream, watcher, fetch>>
scores == <<cpu, latency>>
vars == <<cluster, kernel, watching, services, lock, reconciler, scores>>

Starting == [stage |-> "start", todo |-> << >>, ok |-> FALSE, failed |-> FALSE]
IdleReconciler == [stage |-> "idle", batch |-> [s \in Service |-> NoRule], scored |-> {}]
NoScores == [h \in Host |-> NoScore]

\* A rule with a verdict map; which draws lead to which pod is not kept.
MapRule(owner, handle, pods) == [owner |-> owner, handle |-> handle, pods |-> pods]

Init ==
  /\ addresses \in [Service -> UNION Range(Objects)] /\ \A s \in Service : addresses[s] \in Objects[s]
  /\ synced = addresses
  /\ chain = [s \in Service |-> IF addresses[s] = {} THEN << >>
                               ELSE <<MapRule("kube-proxy", 1, addresses[s])>>]
  /\ disturbances = 0
  /\ stream = << >>
  /\ watcher = Starting
  /\ fetch = NoFetch
  /\ services = [s \in Service |-> NoService]
  /\ lock = Free
  /\ reconciler = IdleReconciler
  /\ cpu = NoScores
  /\ latency = NoScores
-----------------------------------------------------------------------------
\* The cluster and kube-proxy.

\* The kernel gives each rule a handle that no rule had before; what matters is
\* that nobody remembers it.
Remembered(s) ==
  {chain[s][i].handle : i \in DOMAIN chain[s]}
    \union (IF services[s] = NoService THEN {} ELSE {services[s].handle})
    \union (IF fetch # NoFetch /\ fetch.service = s THEN {fetch.handle} ELSE {})
    \union (IF reconciler.batch[s] = NoRule THEN {} ELSE {reconciler.batch[s].handle})
NewHandle(s) == CHOOSE n \in 1..(Cardinality(Remembered(s)) + 1) : n \notin Remembered(s)

PodsChange(s) ==
  /\ disturbances < MaxDisturbances
  /\ disturbances' = disturbances + 1
  /\ \E pods \in Objects[s] \ {addresses[s]} :
       /\ addresses' = [addresses EXCEPT ![s] = pods]
       /\ stream' = IF watcher.stage = "watch" THEN Append(stream, <<s, pods>>) ELSE stream
  /\ UNCHANGED <<kernel, watcher, fetch, services, lock, reconciler, scores>>

OutOfDate == {s \in Service : synced[s] # addresses[s]}

\* A sync flushes the chains that are out of date, and any others it likes, and
\* writes them anew; a chain goes with its last pod.
SyncProxyRules ==
  /\ OutOfDate # {}
  /\ \E flushed \in SUBSET Service :
       /\ OutOfDate \subseteq flushed
       /\ chain' = [s \in Service |->
                     IF s \notin flushed THEN chain[s]
                     ELSE IF addresses[s] = {} THEN << >>
                     ELSE <<MapRule("kube-proxy", NewHandle(s), addresses[s])>>]
  /\ synced' = addresses
  /\ UNCHANGED <<cluster, watching, services, lock, reconciler, scores>>
-----------------------------------------------------------------------------
\* NftablesWatcher.  init lists all objects and then takes the mutex, which it
\* keeps until every one of them has been looked up.

Listed == [i \in DOMAIN NameOrder |-> <<NameOrder[i], addresses[NameOrder[i]]>>]

ListObjects ==
  /\ watcher.stage = "start"
  /\ watcher' = [watcher EXCEPT !.stage = "lock", !.todo = Listed]
  /\ UNCHANGED <<cluster, kernel, stream, fetch, services, lock, reconciler, scores>>

LockForInit ==
  /\ watcher.stage = "lock"
  /\ lock = Free
  /\ lock' = "watcher"
  /\ watcher' = [watcher EXCEPT !.stage = "init"]
  /\ UNCHANGED <<cluster, kernel, stream, fetch, services, reconciler, scores>>

\* An object without a ready pod is passed over.
Fetching(o) ==
  IF o[2] = {} THEN NoFetch
  ELSE [service |-> o[1], addresses |-> o[2], step |-> "find", handle |-> 0, pods |-> {}]

InitObject ==
  /\ watcher.stage = "init" /\ fetch = NoFetch /\ watcher.todo # << >>
  /\ watcher' = [watcher EXCEPT !.todo = Tail(@)]
  /\ fetch' = Fetching(Head(watcher.todo))
  /\ UNCHANGED <<cluster, kernel, stream, services, lock, reconciler, scores>>

\* Mutant of EndInit: the mutex is kept.
EndInit_KeepsLock ==
  /\ watcher.stage = "init" /\ fetch = NoFetch /\ watcher.todo = << >>
  /\ watcher' = [Starting EXCEPT !.stage = "watch"]
  /\ stream' = Listed
  /\ UNCHANGED <<cluster, kernel, fetch, services, lock, reconciler, scores>>

\* When all lookups have failed the task ends with an error that nobody reads.
\* The watch begins with all the objects there are.
EndInit ==
  /\ watcher.stage = "init" /\ fetch = NoFetch /\ watcher.todo = << >>
  /\ lock' = Free
  /\ \/ /\ watcher.failed /\ ~watcher.ok
        /\ watcher' = [Starting EXCEPT !.stage = "ended"]
        /\ UNCHANGED stream
     \/ /\ watcher.ok \/ ~watcher.failed
        /\ watcher' = [Starting EXCEPT !.stage = "watch"]
        /\ stream' = Listed
  /\ UNCHANGED <<cluster, kernel, fetch, services, reconciler, scores>>

TakeObject ==
  /\ watcher.stage = "watch" /\ fetch = NoFetch /\ stream # << >>
  /\ stream' = Tail(stream)
  /\ fetch' = Fetching(Head(stream))
  /\ UNCHANGED <<cluster, kernel, watcher, services, lock, reconciler, scores>>

\* The list fails, or try_for_each meets an error of the stream.
WatcherEnds ==
  /\ watcher.stage \in {"start", "watch"} /\ fetch = NoFetch
  /\ watcher' = [watcher EXCEPT !.stage = "ended"]
  /\ UNCHANGED <<cluster, kernel, stream, fetch, services, lock, reconciler, scores>>

Looking(step) == fetch # NoFetch /\ fetch.step = step

\* Two seconds pass between finding the chain and listing it.
FindChain ==
  /\ Looking("find")
  /\ chain[fetch.service] # << >>
  /\ fetch' = [fetch EXCEPT !.step = "list"]
  /\ UNCHANGED <<cluster, kernel, stream, watcher, services, lock, reconciler, scores>>

\* parse_nftables_chain: the handle of the last verdict map, the pods of all.
\* A pod that is not among the object's addresses is left out.
Handle(s) == chain[s][Len(chain[s])].handle
Targets(s) == UNION {chain[s][i].pods : i \in DOMAIN chain[s]}

ListChain ==
  /\ Looking("list")
  /\ chain[fetch.service] # << >>
  /\ fetch' = [fetch EXCEPT !.step = "insert", !.handle = Handle(fetch.service),
                            !.pods = Targets(fetch.service) \intersect fetch.addresses]
  /\ UNCHANGED <<cluster, kernel, stream, watcher, services, lock, reconciler, scores>>

\* No such chain, no rule in it, or nft fails: the object is dropped.
FetchFails ==
  /\ fetch # NoFetch /\ fetch.step \in {"find", "list"}
  /\ chain[fetch.service] = << >> \/ NftMayFail
  /\ fetch' = NoFetch
  /\ watcher' = [watcher EXCEPT !.failed = watcher.stage = "init"]
  /\ UNCHANGED <<cluster, kernel, stream, services, lock, reconciler, scores>>

\* Mutant of Insert: it does not wait for the mutex.
Insert_NoLock ==
  /\ Looking("insert")
  /\ services' = [services EXCEPT ![fetch.service] =
                    [handle |-> fetch.handle, pods |-> fetch.pods, applied |-> FALSE]]
  /\ fetch' = NoFetch
  /\ watcher' = [watcher EXCEPT !.ok = watcher.stage = "init"]
  /\ UNCHANGED <<cluster, kernel, stream, lock, reconciler, scores>>

\* init has the mutex already; a later change waits for it with the chain read.
Insert ==
  /\ Looking("insert")
  /\ IF watcher.stage = "init" THEN lock = "watcher" ELSE lock = Free
  /\ services' = [services EXCEPT ![fetch.service] =
                    [handle |-> fetch.handle, pods |-> fetch.pods, applied |-> FALSE]]
  /\ fetch' = NoFetch
  /\ watcher' = [watcher EXCEPT !.ok = watcher.stage = "init"]
  /\ UNCHANGED <<cluster, kernel, stream, lock, reconciler, scores>>
-----------------------------------------------------------------------------
\* NftablesReconciler.  A failed attempt is followed by another after ten
\* seconds, in the same cycle or the next, so attempts are not counted.

Known == {s \in Service : services[s] # NoService}
KnownHosts == UNION {HostsOf(services[s].pods) : s \in Known}

\* Neither map is empty once it is restricted to the known hosts.
MayScore ==
  /\ \E h \in KnownHosts : cpu[h] # NoScore
  /\ \E h \in KnownHosts : latency[h] # NoScore

\* A service that has been applied is left out, and one without a scored host.
Batched(s, score) ==
  /\ s \in Known
  /\ ~services[s].applied
  /\ ~TooSmall(services[s].pods)
  /\ HostsOf(services[s].pods) \intersect DOMAIN score # {}

\* The rules that a reconciliation of this state may compute for a service: the
\* loop runs over a HashMap.
ScoresNow == HostScores(KnownHosts, cpu, latency)
RulesFor(s, score) ==
  LET pods == services[s].pods
      portions == {Portions(pods, score, lost) : lost \in SUBSET DOMAIN score}
  IN  {[modulus |-> Modulus(order, each, pods), map |-> VerdictMap(order, each, pods)] :
         each \in portions, order \in Orders(HostsOf(pods) \intersect DOMAIN score)}

\* Mutant of Commands: the handle is looked up when the batch is computed.
Commands_HandleNow(s, score) ==
  IF ~Batched(s, score) \/ chain[s] = << >> THEN {NoRule}
  ELSE {[handle |-> Handle(s), pods |-> DOMAIN rule.map,
         accepted |-> NftAccepts(rule.map, rule.modulus)] : rule \in RulesFor(s, score)}

\* The part of the batch for a service: which rule to replace, and for which
\* pods; whether nft takes the ranges.
Commands(s, score) ==
  IF ~Batched(s, score) THEN {NoRule}
  ELSE {[handle |-> services[s].handle, pods |-> DOMAIN rule.map,
         accepted |-> NftAccepts(rule.map, rule.modulus)] : rule \in RulesFor(s, score)}

CanReconcile == reconciler.stage = "idle" /\ lock = Free /\ MayScore

\* The mutex is taken; the scores are copied and the batch is computed.
BeginReconcile ==
  /\ CanReconcile
  /\ lock' = "reconciler"
  /\ LET commands == [s \in Service |-> Commands(s, ScoresNow)]
     IN  \E batch \in [Service -> UNION Range(commands)] :
           /\ \A s \in Service : batch[s] \in commands[s]
           /\ reconciler' = [stage |-> "apply", scored |-> DOMAIN ScoresNow, batch |-> batch]
  /\ UNCHANGED <<cluster, kernel, watching, services, scores>>

InBatch == {s \in Service : reconciler.batch[s] # NoRule}

\* Deleting a rule by a handle that no rule of the chain has fails, and with
\* one command the whole transaction.
Stale(s) == \A i \in DOMAIN chain[s] : chain[s][i].handle # reconciler.batch[s].handle
Acceptable == \A s \in InBatch : ~Stale(s) /\ reconciler.batch[s].accepted

\* Mutant of ReplaceRule: the old rule is not deleted.
ReplaceRule_Adds(s, command) ==
  Append(chain[s], MapRule("prober", NewHandle(s), command.pods))
ReplaceRule(s, command) ==
  LET old == CHOOSE i \in DOMAIN chain[s] : chain[s][i].handle = command.handle
  IN  Append(RemoveAt(chain[s], old), MapRule("prober", NewHandle(s), command.pods))

\* One transaction; then every service counts as applied, also those that the
\* batch says nothing of.
ApplyBatch ==
  /\ reconciler.stage = "apply"
  /\ Acceptable
  /\ chain' = [s \in Service |-> IF s \in InBatch THEN ReplaceRule(s, reconciler.batch[s])
                                 ELSE chain[s]]
  /\ services' = [s \in Service |-> IF s \in Known THEN [services[s] EXCEPT !.applied = TRUE]
                                    ELSE NoService]
  /\ lock' = Free
  /\ reconciler' = IdleReconciler
  /\ UNCHANGED <<cluster, synced, watching, scores>>

ApplyFails ==
  /\ reconciler.stage = "apply"
  /\ ~Acceptable \/ NftMayFail
  /\ lock' = Free
  /\ reconciler' = IdleReconciler
  /\ UNCHANGED <<cluster, kernel, watching, services, scores>>
-----------------------------------------------------------------------------
\* The probes.  A round of CPU samples stops at the first host that fails:
\* those it has come to have a new EWMA, the others keep the old one.  A round
\* of pings writes nothing if one host does not answer, and otherwise all its
\* results at once: that one task takes the mutexes between two of them shows
\* a host with one of its scores, as a failed round of CPU samples does.

\* Mutant of CollectCpu: the weights add up to 2.
CollectCpu_Sum(h) ==
  /\ \E ewma \in CpuEwmas[h] :
       cpu' = [cpu EXCEPT ![h] = IF @ = NoScore THEN ewma ELSE @ + ewma]
  /\ UNCHANGED <<cluster, kernel, watching, services, lock, reconciler, latency>>

CollectCpu(h) ==
  /\ \E ewma \in CpuEwmas[h] : cpu' = [cpu EXCEPT ![h] = ewma]
  /\ UNCHANGED <<cluster, kernel, watching, services, lock, reconciler, latency>>

\* 1 - latency / SLA and its EWMA never exceed 1, so no sample is skipped.
ProbeLatency ==
  /\ latency' \in LatencyEwmas
  /\ UNCHANGED <<cluster, kernel, watching, services, lock, reconciler, cpu>>
-----------------------------------------------------------------------------
\* The process ends and is started again; the kernel keeps its rules.
Crash ==
  /\ disturbances < MaxDisturbances
  /\ disturbances' = disturbances + 1
  /\ stream' = << >> /\ watcher' = Starting /\ fetch' = NoFetch
  /\ services' = [s \in Service |-> NoService]
  /\ lock' = Free
  /\ reconciler' = IdleReconciler
  /\ cpu' = NoScores /\ latency' = NoScores
  /\ UNCHANGED <<addresses, kernel>>

Fetch == FindChain \/ ListChain \/ FetchFails \/ Insert
Watch == ListObjects \/ LockForInit \/ InitObject \/ EndInit \/ TakeObject \/ Fetch

Next ==
  \/ \E s \in Service : PodsChange(s)
  \/ SyncProxyRules
  \/ Watch \/ WatcherEnds
  \/ BeginReconcile \/ ApplyBatch \/ ApplyFails
  \/ \E h \in Host : CollectCpu(h)
  \/ ProbeLatency
  \/ Crash

Spec == Init /\ [][Next]_vars

\* SF_vars(BeginReconcile), whose guard is CanReconcile, without its batch.
ReconcilerRuns == []<>CanReconcile => []<>(lock = "reconciler")

\* kube-proxy follows the objects in the end, tokio runs every task that can
\* run, the timers of the reconciler and of the probes fire for ever, and an
\* nft command that keeps to be tried works at times.
Fairness ==
  /\ WF_vars(SyncProxyRules) /\ WF_vars(Watch)
  /\ SF_vars(LockForInit) /\ SF_vars(Insert)
  /\ ReconcilerRuns /\ SF_vars(ApplyBatch) /\ WF_vars(ApplyFails)
  /\ WF_vars(ProbeLatency) /\ \A h \in Host : WF_vars(CollectCpu(h))

FairSpec == Spec /\ Fairness
-----------------------------------------------------------------------------
\* The values each variable may have.
TypeOK ==
  /\ \A s \in Service : {addresses[s], synced[s]} \subseteq Objects[s]
  /\ {addresses, synced} \subseteq [Service -> SUBSET Pod] /\ disturbances \in Nat
  /\ chain \in [Service -> Seq(Rule)]
  /\ stream \in Seq(Listing)
  /\ watcher \in [stage : {"start", "lock", "init", "watch", "ended"}, todo : Seq(Listing),
                  ok : BOOLEAN, failed : BOOLEAN]
  /\ fetch \in Lookup \union {NoFetch}
  /\ services \in [Service -> Entry \union {NoService}]
  /\ lock \in {Free, "watcher", "reconciler"}
  /\ reconciler \in [stage : {"idle", "apply"}, batch : [Service -> Command \union {NoRule}],
                     scored : SUBSET Host]
  /\ DOMAIN cpu = Host /\ \A h \in Host : cpu[h] \in CpuEwmas[h] \union {NoScore}
  /\ latency \in LatencyEwmas \union {NoScores}

\* A service's chain never has two verdict maps, of which the first would take
\* every packet, whatever the order of listing, deleting and rewriting
\* (nftables_reconciler.rs:155-175).
OneVerdictMap == \A s \in Service : Len(chain[s]) <= 1

\* The prober never brings a pod back that kube-proxy has taken out of the
\* chain, though it installs what it read some time ago: the handle protects
\* it (nftables_reconciler.rs:159, nftables_watcher.rs:151-163).
NoResurrection ==
  \A s \in Service : \A i \in DOMAIN chain[s] : chain[s][i].pods \subseteq synced[s]

\* The pods that a draw may go to.
LandsOn(map, draw) == {p \in DOMAIN map : draw \in map[p][1]..map[p][2]}

\* In each rule that nft takes, every draw below the modulus goes to one pod,
\* and no pod's range goes beyond the draws, although each host's portion is
\* rounded down, may be 0 and may wrap (nftables_reconciler.rs:121-148).  The
\* diagram draws from 100 (docs/prober_chain_reconciliation.mermaid:30); the
\* code from as many as it gave out, without which draws would go nowhere.
EveryDrawLands ==
  CanReconcile =>
    \A s \in Known : \A rule \in RulesFor(s, ScoresNow) :
      NftAccepts(rule.map, rule.modulus) =>
        /\ \A draw \in 0..(rule.modulus - 1) :
             \E p \in DOMAIN rule.map : LandsOn(rule.map, draw) = {p}
        /\ \A p \in DOMAIN rule.map : rule.map[p][2] < rule.modulus

Size(range) == range[2] - range[1] + 1
Sizes(map) == [p \in DOMAIN map |-> Size(map[p])]

Slots(map, h) == SumFunctionOnSet(Sizes(map), {p \in DOMAIN map : HostOf[p] = h})

\* While all scores are positive, as no host is over the agreed latency, nft
\* takes the rule of a service if there is a draw for each pod, and a rule that
\* it takes gives each host its percentage of the scores, but for one draw at
\* most for each of its pods (nftables_reconciler.rs:83-100, 128-142).
SharesFollowScores ==
  CanReconcile /\ (\A h \in DOMAIN ScoresNow : ScoresNow[h] > 0) =>
    \A s \in Known : \A rule \in RulesFor(s, ScoresNow) :
      LET hosts == HostsOf(services[s].pods) \intersect DOMAIN ScoresNow
          exact(h) == 100 * ScoresNow[h]
          onePerPod(h) == Cardinality(PodsOn(services[s].pods, h)) * Total(ScoresNow)
          got(h) == Slots(rule.map, h) * Total(ScoresNow)
      IN  /\ hosts # {} /\ (\A h \in hosts : exact(h) > onePerPod(h)) =>
               NftAccepts(rule.map, rule.modulus)
          /\ NftAccepts(rule.map, rule.modulus) =>
               \A h \in hosts : got(h) <= exact(h) /\ exact(h) <= got(h) + onePerPod(h)

\* A service counts as applied only when its rule went in with the same
\* transaction, or was rightly left out: a change that comes in while a batch
\* is under way is never taken for applied (nftables_reconciler.rs:65-66,
\* 181-183).
AppliedForAReason ==
  [][\A s \in Service :
       services'[s] # NoService /\ services'[s].applied /\ ~services[s].applied =>
         \/ TooSmall(services[s].pods)
         \/ HostsOf(services[s].pods) \intersect reconciler.scored = {}
         \/ chain'[s] # << >> /\ chain'[s][1].pods \subseteq services[s].pods
                              /\ chain'[s][1].owner = "prober"]_vars

\* Once the cluster is quiet every service that the watcher has found counts
\* as applied, unless nft goes on to refuse the batch, for one stale handle or
\* one portion of 0 (nftables_reconciler.rs:43-62, nftables_watcher.rs:274-325).
Settles ==
  \/ <>[](\A s \in Known : services[s].applied \/ services[s].pods = {})
  \/ []<>(reconciler.stage = "apply" /\ ~Acceptable)
=============================================================================
