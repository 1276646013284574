---------------------------- MODULE ProberV1Proofs ----------------------------
(***************************************************************************)
(* What holds of the first prober for any services, hosts, pods and scores *)
(* and for any number of changes and restarts: what it installs was in the *)
(* chain that it replaces, and the mutex covers what a batch is about; the *)
(* rule that it computes leaves no draw without a pod, and shares them as  *)
(* the scores say, for every rounding, overflow and order of its maps.     *)
(***************************************************************************)
EXTENDS ProberV1, FiniteSetTheorems, SequenceTheorems, TLAPS

\* One verdict map at most, for pods that kube-proxy has written.
ChainInv ==
  \A s \in Service : /\ Len(chain[s]) <= 1
                     /\ chain[s] # << >> => chain[s][1].pods \subseteq synced[s]

\* Who remembers the handle of a rule that is still there, remembers pods of
\* that rule.
TrueOf(s, handle, pods) ==
  chain[s] # << >> /\ chain[s][1].handle = handle => pods \subseteq chain[s][1].pods
MemoryInv ==
  /\ fetch # NoFetch /\ fetch.step = "insert" => TrueOf(fetch.service, fetch.handle, fetch.pods)
  /\ \A s \in Service :
       /\ services[s] # NoService => TrueOf(s, services[s].handle, services[s].pods)
       /\ reconciler.batch[s] # NoRule =>
            TrueOf(s, reconciler.batch[s].handle, reconciler.batch[s].pods)

IInv == TypeOK /\ ChainInv /\ MemoryInv
-----------------------------------------------------------------------------
\* However many handles are remembered, there is one that is not.
LEMMA FreshHandle ==
  ASSUME NEW R, IsFiniteSet(R)
  PROVE  \E n \in 1..(Cardinality(R) + 1) : n \notin R
<1> DEFINE k == Cardinality(R)
<1>1. k \in Nat
  BY FS_CardinalityType
<1>2. SUFFICES ASSUME 1..(k + 1) \subseteq R PROVE FALSE
  OBVIOUS
<1>3. Cardinality(1..(k + 1)) <= k
  BY <1>2, FS_Subset
<1>4. Cardinality(1..(k + 1)) = k + 1
  BY <1>1, FS_Interval, 1 \in Int, k + 1 \in Int, k + 1 >= 1
<1> QED BY <1>1, <1>3, <1>4

\* The kernel's new handle is a number that nobody remembers.
LEMMA NewHandleFresh ==
  ASSUME TypeOK, ChainInv, NEW s \in Service
  PROVE  NewHandle(s) \in Nat \ {0} /\ NewHandle(s) \notin Remembered(s)
<1> DEFINE InChain == {chain[s][i].handle : i \in DOMAIN chain[s]}
<1>1. IsFiniteSet(InChain)
  <2>1. chain[s] \in Seq(Rule) /\ Len(chain[s]) <= 1
    BY DEF TypeOK, ChainInv
  <2>2. InChain \subseteq {chain[s][1].handle}
    BY <2>1
  <2> HIDE DEF InChain
  <2>3. IsFiniteSet({chain[s][1].handle})
    BY FS_Singleton
  <2> QED BY <2>2, <2>3, FS_Subset
<1>2. IsFiniteSet(Remembered(s))
  <2>1. \A a : IsFiniteSet({a}) /\ IsFiniteSet({})
    BY FS_Singleton, FS_EmptySet
  <2> QED BY <1>1, <2>1, FS_Union DEF Remembered
<1>3. \E n \in 1..(Cardinality(Remembered(s)) + 1) : n \notin Remembered(s)
  BY <1>2, FreshHandle
<1>4. Cardinality(Remembered(s)) \in Nat
  BY <1>2, FS_CardinalityType
<1> QED BY <1>3, <1>4 DEF NewHandle

\* kube-proxy's and the prober's rules are rules.
LEMMA RuleTyped ==
  ASSUME NEW owner \in {"kube-proxy", "prober"}, NEW n \in Nat, NEW pods \in SUBSET Pod
  PROVE  MapRule(owner, n, pods) \in Rule
  BY DEF MapRule, Rule

LEMMA OneRule ==
  ASSUME NEW q \in Seq(Rule), Len(q) <= 1, q # << >>
  PROVE  DOMAIN q = {1} /\ Len(q) = 1 /\ q[1] \in Rule
<1>1. Len(q) \in Nat /\ Len(q) # 0
  BY EmptySeq
<1>2. Len(q) = 1
  BY <1>1
<1>3. DOMAIN q = 1..1
  BY <1>2
<1> QED BY <1>2, <1>3

\* What Commands gives: no rule, for a reason, or pods of the service.
LEMMA CommandTyped ==
  ASSUME TypeOK, NEW s \in Service, NEW score, NEW c \in Commands(s, score)
  PROVE  /\ c \in Command \union {NoRule}
         /\ c = NoRule => ~Batched(s, score)
         /\ c # NoRule => /\ Batched(s, score) /\ services[s] # NoService
                          /\ c.handle = services[s].handle /\ c.pods \subseteq services[s].pods
<1>1. CASE ~Batched(s, score)
  BY <1>1 DEF Commands
<1>2. CASE Batched(s, score)
  <2>1. services[s] \in Entry /\ services[s] # NoService
    BY <1>2 DEF Batched, Known, TypeOK
  <2>2. PICK rule \in RulesFor(s, score) :
          c = [handle |-> services[s].handle, pods |-> DOMAIN rule.map,
               accepted |-> NftAccepts(rule.map, rule.modulus)]
    BY <1>2 DEF Commands
  <2>3. DOMAIN rule.map \subseteq services[s].pods
    <3>1. PICK each, order : rule.map = VerdictMap(order, each, services[s].pods)
      BY <2>2 DEF RulesFor
    <3> QED BY <3>1 DEF VerdictMap
  <2>4. NftAccepts(rule.map, rule.modulus) \in BOOLEAN
    BY DEF NftAccepts
  <2>5. c \in Command /\ c.handle = services[s].handle /\ c.pods \subseteq services[s].pods
    BY <2>1, <2>2, <2>3, <2>4 DEF Entry, Command
  <2> QED BY <1>2, <2>1, <2>5, SentinelAssumption
<1> QED BY <1>1, <1>2
-----------------------------------------------------------------------------
\* The initial states.
LEMMA InitInv == Init => IInv
<1> SUFFICES ASSUME Init PROVE IInv
  OBVIOUS
<1> USE DEF Init, Starting, IdleReconciler
<1>1. addresses \in [Service -> SUBSET Pod] /\ synced = addresses
  BY ClusterAssumption
<1>2. \A s \in Service : MapRule("kube-proxy", 1, addresses[s]) \in Rule
  BY <1>1, RuleTyped
<1>3. chain \in [Service -> Seq(Rule)]
  BY <1>1, <1>2
<1>4. TypeOK
  BY <1>1, <1>3 DEF TypeOK, NoScores
<1>5. ChainInv
  BY <1>1 DEF ChainInv, MapRule
<1>6. MemoryInv
  BY <1>1 DEF MemoryInv
<1> QED BY <1>4, <1>5, <1>6 DEF IInv

\* What kube-proxy writes.
LEMMA SyncInv ==
  ASSUME IInv, SyncProxyRules
  PROVE  IInv'
<1>1. PICK flushed \in SUBSET Service :
        /\ OutOfDate \subseteq flushed
        /\ chain' = [s \in Service |->
                       IF s \notin flushed THEN chain[s]
                       ELSE IF addresses[s] = {} THEN << >>
                       ELSE <<MapRule("kube-proxy", NewHandle(s), addresses[s])>>]
  BY DEF SyncProxyRules
<1>2. /\ synced' = addresses
      /\ UNCHANGED <<addresses, disturbances, stream, watcher, fetch, services, lock,
                     reconciler, cpu, latency>>
  BY DEF SyncProxyRules, cluster, watching, scores
<1>3. \A s \in Service : /\ NewHandle(s) \in Nat /\ NewHandle(s) \notin Remembered(s)
                         /\ MapRule("kube-proxy", NewHandle(s), addresses[s]) \in Rule
  BY NewHandleFresh, RuleTyped DEF IInv, TypeOK
<1>4. chain' \in [Service -> Seq(Rule)]
  BY <1>1, <1>3 DEF IInv, TypeOK
<1>5. TypeOK'
  BY <1>2, <1>4 DEF IInv, TypeOK
<1>6. ChainInv'
  <2> SUFFICES ASSUME NEW s \in Service
               PROVE  /\ Len(chain'[s]) <= 1
                      /\ chain'[s] # << >> => chain'[s][1].pods \subseteq synced'[s]
    BY DEF ChainInv
  <2>1. CASE s \notin flushed
    <3>1. synced[s] = addresses[s] /\ chain'[s] = chain[s]
      BY <1>1, <2>1 DEF OutOfDate
    <3> QED BY <1>2, <3>1 DEF IInv, ChainInv
  <2>2. CASE s \in flushed
    BY <1>1, <1>2, <2>2 DEF MapRule
  <2> QED BY <2>1, <2>2
<1>7. ASSUME NEW s \in Service, NEW n, NEW pods, TrueOf(s, n, pods), n \in Remembered(s)
      PROVE  TrueOf(s, n, pods)'
  <2>1. CASE s \notin flushed
    BY <1>1, <1>7, <2>1 DEF TrueOf
  <2>2. CASE s \in flushed
    BY <1>1, <1>3, <1>7, <2>2 DEF TrueOf, MapRule
  <2> QED BY <2>1, <2>2
<1>8. MemoryInv'
  <2>1. fetch # NoFetch => fetch.service \in Service /\ fetch.handle \in Remembered(fetch.service)
    BY DEF Remembered, IInv, TypeOK, Lookup
  <2>2. \A s \in Service :
          /\ services[s] # NoService => services[s].handle \in Remembered(s)
          /\ reconciler.batch[s] # NoRule => reconciler.batch[s].handle \in Remembered(s)
    BY DEF Remembered
  <2> QED BY <1>2, <1>7, <2>1, <2>2 DEF MemoryInv, IInv
<1> QED BY <1>5, <1>6, <1>8 DEF IInv

\* A batch that nft takes puts its rule in the place of one with all its pods.
LEMMA ApplyReplaces ==
  ASSUME IInv, ApplyBatch, NEW s \in InBatch
  PROVE  /\ chain[s] # << >> /\ reconciler.batch[s].pods \subseteq chain[s][1].pods
         /\ chain'[s] = <<MapRule("prober", NewHandle(s), reconciler.batch[s].pods)>>
<1>1. s \in Service /\ reconciler.batch[s] # NoRule
  BY DEF InBatch
<1>2. chain[s] \in Seq(Rule) /\ Len(chain[s]) <= 1
  BY <1>1 DEF IInv, TypeOK, ChainInv
<1>3. ~Stale(s)
  BY DEF ApplyBatch, Acceptable
<1>4. chain[s] # << >> /\ DOMAIN chain[s] = {1} /\ chain[s][1].handle = reconciler.batch[s].handle
  BY <1>2, <1>3 DEF Stale
<1>5. (CHOOSE i \in DOMAIN chain[s] : chain[s][i].handle = reconciler.batch[s].handle) = 1
  BY <1>4
<1>6. RemoveAt(chain[s], 1) = << >>
  BY <1>2, <1>4 DEF RemoveAt
<1>7. ReplaceRule(s, reconciler.batch[s])
        = <<MapRule("prober", NewHandle(s), reconciler.batch[s].pods)>>
  <2>1. \A r : Append(<< >>, r) = <<r>>
    OBVIOUS
  <2>2. ReplaceRule(s, reconciler.batch[s])
          = Append(RemoveAt(chain[s], 1), MapRule("prober", NewHandle(s), reconciler.batch[s].pods))
    BY <1>5 DEF ReplaceRule
  <2> QED BY <1>6, <2>1, <2>2
<1>8. chain'[s] = ReplaceRule(s, reconciler.batch[s])
  BY <1>1 DEF ApplyBatch
<1> QED BY <1>1, <1>4, <1>7, <1>8 DEF IInv, MemoryInv, TrueOf

\* What the reconciler installs: the old rule's handle matched, so its pods are
\* the old rule's; the old handle leads nowhere any more.
LEMMA ApplyInv ==
  ASSUME IInv, ApplyBatch
  PROVE  IInv'
<1>1. /\ UNCHANGED <<addresses, disturbances, synced, stream, watcher, fetch, cpu, latency>>
      /\ lock' = Free /\ reconciler' = IdleReconciler
  BY DEF ApplyBatch, cluster, watching, scores
<1>2. \A s \in Service : chain'[s] = IF s \in InBatch THEN ReplaceRule(s, reconciler.batch[s])
                                    ELSE chain[s]
  BY DEF ApplyBatch
<1>3. ASSUME NEW s \in InBatch
      PROVE  /\ chain[s] # << >> /\ reconciler.batch[s].pods \subseteq chain[s][1].pods
             /\ chain'[s] = <<MapRule("prober", NewHandle(s), reconciler.batch[s].pods)>>
  BY ApplyReplaces
<1>4. \A s \in Service : NewHandle(s) \in Nat /\ NewHandle(s) \notin Remembered(s)
  BY NewHandleFresh DEF IInv
<1>5. TypeOK'
  <2>1. chain' \in [Service -> Seq(Rule)]
    <3>1. \A s \in InBatch : /\ s \in Service /\ reconciler.batch[s].pods \in SUBSET Pod
      BY DEF InBatch, IInv, TypeOK, Command
    <3>2. \A s \in InBatch : MapRule("prober", NewHandle(s), reconciler.batch[s].pods) \in Rule
      BY <1>4, <3>1, RuleTyped
    <3>3. ASSUME NEW s \in Service PROVE chain'[s] \in Seq(Rule)
      <4>1. CASE s \notin InBatch
        BY <1>2, <4>1 DEF IInv, TypeOK
      <4>2. CASE s \in InBatch
        <5> DEFINE rule == MapRule("prober", NewHandle(s), reconciler.batch[s].pods)
        <5>1. chain'[s] = <<rule>> /\ rule \in Rule
          BY <1>3, <3>2, <4>2
        <5> HIDE DEF rule
        <5> QED BY <5>1
      <4> QED BY <4>1, <4>2
    <3> QED BY <3>3 DEF ApplyBatch
  <2>2. services' \in [Service -> Entry \union {NoService}]
    <3>1. /\ services' = [s \in Service |-> IF s \in Known THEN [services[s] EXCEPT !.applied = TRUE]
                                           ELSE NoService]
          /\ \A s \in Known : services[s] \in Entry
      BY DEF ApplyBatch, IInv, TypeOK, Known
    <3>2. \A s \in Known : [services[s] EXCEPT !.applied = TRUE] \in Entry
      BY <3>1 DEF Entry
    <3> QED BY <3>1, <3>2
  <2> QED BY <1>1, <2>1, <2>2 DEF IInv, TypeOK, IdleReconciler
<1>6. ChainInv'
  <2> SUFFICES ASSUME NEW s \in Service
               PROVE  /\ Len(chain'[s]) <= 1
                      /\ chain'[s] # << >> => chain'[s][1].pods \subseteq synced'[s]
    BY DEF ChainInv
  <2>1. CASE s \notin InBatch
    BY <1>1, <1>2, <2>1 DEF IInv, ChainInv
  <2>2. CASE s \in InBatch
    <3> DEFINE rule == MapRule("prober", NewHandle(s), reconciler.batch[s].pods)
    <3>0. chain'[s] = <<rule>> /\ rule.pods = reconciler.batch[s].pods
      BY <1>3, <2>2 DEF MapRule
    <3> HIDE DEF rule
    <3>1. Len(chain'[s]) = 1 /\ chain'[s][1].pods = reconciler.batch[s].pods
      BY <3>0
    <3> QED BY <1>1, <1>3, <2>2, <3>1 DEF IInv, ChainInv
  <2> QED BY <2>1, <2>2
<1>7. ASSUME NEW s \in Service, NEW n, NEW pods, TrueOf(s, n, pods), n \in Remembered(s)
      PROVE  TrueOf(s, n, pods)'
  <2>1. CASE s \notin InBatch
    BY <1>2, <1>7, <2>1 DEF TrueOf
  <2>2. CASE s \in InBatch
    <3> DEFINE rule == MapRule("prober", NewHandle(s), reconciler.batch[s].pods)
    <3>0. chain'[s] = <<rule>> /\ rule.handle = NewHandle(s)
      BY <1>3, <2>2 DEF MapRule
    <3> HIDE DEF rule
    <3>1. chain'[s][1].handle = NewHandle(s)
      BY <3>0
    <3> QED BY <1>4, <1>7, <3>1 DEF TrueOf
  <2> QED BY <2>1, <2>2
<1>8. MemoryInv'
  <2>1. fetch # NoFetch => fetch.service \in Service /\ fetch.handle \in Remembered(fetch.service)
    BY DEF Remembered, IInv, TypeOK, Lookup
  <2>2. \A s \in Service : services[s] # NoService => services[s].handle \in Remembered(s)
    BY DEF Remembered
  <2>3. \A s \in Service : services'[s] # NoService =>
          /\ services[s] # NoService /\ services[s] \in Entry
          /\ services'[s].handle = services[s].handle /\ services'[s].pods = services[s].pods
    BY DEF ApplyBatch, Known, IInv, TypeOK, Entry
  <2>4. \A s \in Service : reconciler'.batch[s] = NoRule
    BY <1>1 DEF IdleReconciler
  <2> QED BY <1>1, <1>7, <2>1, <2>2, <2>3, <2>4 DEF MemoryInv, IInv
<1> QED BY <1>5, <1>6, <1>8 DEF IInv

\* The steps of the watcher: what it inserts is what it has listed.
LEMMA WatchInv ==
  ASSUME IInv, Watch \/ WatcherEnds
  PROVE  IInv'
<1>1. /\ UNCHANGED <<addresses, disturbances, synced, chain, reconciler, cpu, latency>>
  BY DEF Watch, Fetch, WatcherEnds, ListObjects, LockForInit, InitObject, EndInit, TakeObject,
         FindChain, ListChain, FetchFails, Insert, cluster, kernel, scores
<1>2. ChainInv'
  BY <1>1 DEF IInv, ChainInv
<1>3. \A o \in Listing : /\ Fetching(o) \in Lookup \union {NoFetch}
                         /\ Fetching(o) # NoFetch => Fetching(o).step = "find"
  BY DEF Fetching, Listing, Lookup
<1>4. Listed \in Seq(Listing)
  <2>1. NameOrder \in Seq(Service) /\ DOMAIN NameOrder = 1..Len(NameOrder)
    BY ClusterAssumption
  <2>2. \A i \in DOMAIN NameOrder : <<NameOrder[i], addresses[NameOrder[i]]>> \in Listing
    BY <2>1 DEF Listing, IInv, TypeOK
  <2>3. Listed \in [1..Len(NameOrder) -> Listing] /\ Len(NameOrder) \in Nat
    BY <2>1, <2>2 DEF Listed
  <2> QED BY <2>3, SeqDef
<1> USE DEF IInv, TypeOK
<1>5. CASE ListObjects \/ LockForInit \/ EndInit \/ WatcherEnds
  <2>1. TypeOK'
    BY <1>1, <1>4, <1>5 DEF ListObjects, LockForInit, EndInit, WatcherEnds, Starting
  <2>2. UNCHANGED <<fetch, services>>
    BY <1>5 DEF ListObjects, LockForInit, EndInit, WatcherEnds
  <2> QED BY <1>1, <1>2, <2>1, <2>2 DEF MemoryInv, TrueOf
<1>6. CASE InitObject \/ TakeObject
  <2>1. PICK o \in Listing : fetch' = Fetching(o)
    BY <1>6 DEF InitObject, TakeObject
  <2>2. UNCHANGED <<services, lock>>
    BY <1>6 DEF InitObject, TakeObject, scores
  <2>3. TypeOK'
    <3>1. watcher'.todo \in Seq(Listing) /\ stream' \in Seq(Listing)
      <4>1. watcher.todo # << >> => Tail(watcher.todo) \in Seq(Listing)
        BY HeadTailProperties
      <4>2. stream # << >> => Tail(stream) \in Seq(Listing)
        BY HeadTailProperties
      <4> QED BY <1>6, <4>1, <4>2 DEF InitObject, TakeObject
    <3>2. watcher' \in [stage : {"start", "lock", "init", "watch", "ended"}, todo : Seq(Listing),
                       ok : BOOLEAN, failed : BOOLEAN]
      BY <1>6, <3>1 DEF InitObject, TakeObject
    <3>3. fetch' \in Lookup \union {NoFetch}
      BY <1>3, <2>1
    <3> QED BY <1>1, <2>2, <3>1, <3>2, <3>3
  <2>4. fetch' # NoFetch => fetch'.step = "find"
    BY <1>3, <2>1
  <2> QED BY <1>1, <1>2, <2>2, <2>3, <2>4 DEF MemoryInv, TrueOf
<1>7. CASE FindChain \/ FetchFails
  <2>1. UNCHANGED <<services, lock, stream>>
    BY <1>7 DEF FindChain, FetchFails, scores
  <2>2. fetch' \in Lookup \union {NoFetch} /\ (fetch' # NoFetch => fetch'.step = "list")
    BY <1>7, SentinelAssumption DEF FindChain, FetchFails, Looking, Lookup
  <2>3. TypeOK'
    <3>1. watcher' \in [stage : {"start", "lock", "init", "watch", "ended"}, todo : Seq(Listing),
                       ok : BOOLEAN, failed : BOOLEAN]
      BY <1>7 DEF FindChain, FetchFails
    <3> QED BY <1>1, <2>1, <2>2, <3>1
  <2> QED BY <1>1, <1>2, <2>1, <2>2, <2>3 DEF MemoryInv, TrueOf
<1>8. CASE ListChain
  <2>1. UNCHANGED <<services, lock, stream, watcher>>
    BY <1>8 DEF ListChain, scores
  <2> DEFINE s == fetch.service
  <2>2. fetch \in Lookup /\ s \in Service /\ chain[s] # << >>
    BY <1>8 DEF ListChain, Looking, Lookup
  <2>3. chain[s] \in Seq(Rule) /\ DOMAIN chain[s] = {1} /\ Len(chain[s]) = 1 /\ chain[s][1] \in Rule
    <3>1. chain[s] \in Seq(Rule) /\ Len(chain[s]) <= 1 /\ chain[s] # << >>
      BY <2>2 DEF ChainInv
    <3> QED BY <3>1, OneRule
  <2>4. Handle(s) = chain[s][1].handle /\ Targets(s) = chain[s][1].pods
    BY <2>3 DEF Handle, Targets
  <2>5. fetch' = [fetch EXCEPT !.step = "insert", !.handle = Handle(s),
                               !.pods = Targets(s) \intersect fetch.addresses]
    BY <1>8 DEF ListChain
  <2>6. fetch' \in Lookup /\ fetch'.service = s /\ TrueOf(s, fetch'.handle, fetch'.pods)
    BY <2>2, <2>3, <2>4, <2>5 DEF Lookup, Rule, TrueOf
  <2>7. TypeOK'
    BY <1>1, <2>1, <2>6
  <2> QED BY <1>1, <1>2, <2>1, <2>6, <2>7 DEF MemoryInv, TrueOf
<1>9. CASE Insert
  <2> DEFINE entry == [handle |-> fetch.handle, pods |-> fetch.pods, applied |-> FALSE]
  <2>1. /\ services' = [services EXCEPT ![fetch.service] = entry]
        /\ fetch' = NoFetch /\ UNCHANGED <<lock, stream>>
        /\ watcher' = [watcher EXCEPT !.ok = watcher.stage = "init"]
    BY <1>9 DEF Insert, scores
  <2>2. fetch \in Lookup /\ fetch.step = "insert" /\ fetch # NoFetch
    BY <1>9 DEF Insert, Looking
  <2>3. entry \in Entry /\ TrueOf(fetch.service, entry.handle, entry.pods)
    BY <2>2 DEF Entry, Lookup, MemoryInv
  <2> HIDE DEF entry
  <2>4. TypeOK'
    BY <1>1, <2>1, <2>2, <2>3 DEF Lookup
  <2>5. \A s \in Service : services'[s] # NoService =>
          TrueOf(s, services'[s].handle, services'[s].pods)
    BY <2>1, <2>2, <2>3 DEF MemoryInv, Lookup
  <2> QED BY <1>1, <1>2, <2>1, <2>4, <2>5 DEF MemoryInv, TrueOf
<1> QED BY <1>5, <1>6, <1>7, <1>8, <1>9 DEF Watch, Fetch

\* All other steps.
LEMMA OtherInv ==
  ASSUME IInv,
         \/ \E s \in Service : PodsChange(s)
         \/ BeginReconcile \/ ApplyFails \/ Crash
         \/ \E h \in Host : CollectCpu(h)
         \/ ProbeLatency \/ UNCHANGED vars
  PROVE  IInv'
<1>1. UNCHANGED <<synced, chain>>
  BY DEF PodsChange, BeginReconcile, ApplyFails, Crash, CollectCpu, ProbeLatency, vars, kernel
<1>2. ChainInv'
  BY <1>1 DEF IInv, ChainInv
<1> USE DEF IInv
<1>3. ASSUME NEW s \in Service, PodsChange(s) PROVE IInv'
  <2>1. PICK pods \in Objects[s] \ {addresses[s]} :
          /\ addresses' = [addresses EXCEPT ![s] = pods]
          /\ stream' = IF watcher.stage = "watch" THEN Append(stream, <<s, pods>>) ELSE stream
    BY <1>3 DEF PodsChange
  <2>2. pods \in SUBSET Pod /\ <<s, pods>> \in Listing
    BY ClusterAssumption DEF Listing
  <2>3. /\ disturbances' = disturbances + 1
        /\ UNCHANGED <<watcher, fetch, services, lock, reconciler, cpu, latency>>
    BY <1>3 DEF PodsChange, scores
  <2>4. TypeOK'
    BY <1>1, <2>1, <2>2, <2>3 DEF TypeOK
  <2> QED BY <1>1, <1>2, <2>3, <2>4 DEF MemoryInv, TrueOf
<1>4. CASE BeginReconcile
  <2>1. PICK batch : /\ \A s \in Service : batch[s] \in Commands(s, ScoresNow)
                     /\ DOMAIN batch = Service /\ batch = [s \in Service |-> batch[s]]
                     /\ reconciler' = [stage |-> "apply", scored |-> DOMAIN ScoresNow,
                                       batch |-> batch]
    BY <1>4 DEF BeginReconcile
  <2>2. DOMAIN ScoresNow \subseteq Host
    BY ClusterAssumption DEF ScoresNow, HostScores, Scored, KnownHosts, Known, HostsOf, TypeOK, Entry
  <2>3. /\ lock' = "reconciler"
        /\ UNCHANGED <<addresses, disturbances, stream, watcher, fetch, services, cpu, latency>>
    BY <1>4 DEF BeginReconcile, cluster, watching, scores
  <2>4. \A s \in Service : batch[s] \in Command \union {NoRule}
    BY <2>1, CommandTyped
  <2>5. TypeOK'
    BY <1>1, <2>1, <2>2, <2>3, <2>4 DEF TypeOK
  <2>6. \A s \in Service : batch[s] # NoRule =>
          /\ services[s] # NoService
          /\ batch[s].handle = services[s].handle /\ batch[s].pods \subseteq services[s].pods
    BY <2>1, CommandTyped
  <2>7. \A s \in Service : batch[s] # NoRule => TrueOf(s, batch[s].handle, batch[s].pods)
    BY <2>6 DEF MemoryInv, TrueOf
  <2> QED BY <1>1, <1>2, <2>1, <2>3, <2>5, <2>7 DEF MemoryInv, TrueOf
<1>5. CASE ApplyFails
  <2>1. /\ lock' = Free /\ reconciler' = IdleReconciler
        /\ UNCHANGED <<addresses, disturbances, stream, watcher, fetch, services, cpu, latency>>
    BY <1>5 DEF ApplyFails, cluster, watching, scores
  <2>2. TypeOK'
    BY <1>1, <2>1 DEF TypeOK, IdleReconciler
  <2> QED BY <1>1, <1>2, <2>1, <2>2 DEF MemoryInv, TrueOf, IdleReconciler
<1>6. CASE Crash
  <2>1. TypeOK'
    BY <1>1, <1>6 DEF Crash, TypeOK, Starting, IdleReconciler, NoScores
  <2> QED BY <1>1, <1>2, <1>6, <2>1 DEF Crash, MemoryInv, IdleReconciler
<1>7. CASE ProbeLatency \/ UNCHANGED vars \/ \E h \in Host : CollectCpu(h)
  <2>1. UNCHANGED <<addresses, disturbances, stream, watcher, fetch, services, lock, reconciler>>
    BY <1>7 DEF CollectCpu, ProbeLatency, vars, cluster, watching
  <2>2. /\ DOMAIN cpu' = Host /\ \A h \in Host : cpu'[h] \in CpuEwmas[h] \union {NoScore}
        /\ latency' \in LatencyEwmas \union {NoScores}
    BY <1>1, <1>7 DEF CollectCpu, ProbeLatency, vars, scores, TypeOK
  <2>3. TypeOK'
    BY <1>1, <2>1, <2>2 DEF TypeOK
  <2> QED BY <1>1, <1>2, <2>1, <2>3 DEF MemoryInv, TrueOf
<1> QED BY <1>3, <1>4, <1>5, <1>6, <1>7

LEMMA Invariance == Spec => []IInv
<1>1. IInv /\ [Next]_vars => IInv'
  BY SyncInv, ApplyInv, WatchInv, OtherInv DEF Next
<1> QED BY InitInv, <1>1, PTL DEF Spec

\* Every variable keeps its type.
THEOREM V1Typing == Spec => []TypeOK
  BY Invariance, PTL DEF IInv

\* The chain of a service never has two verdict maps, for any interleaving of
\* the watcher, the reconciler and kube-proxy.
THEOREM OneMapPerChain == Spec => []OneVerdictMap
<1>1. IInv => OneVerdictMap
  BY DEF IInv, ChainInv, OneVerdictMap
<1> QED BY Invariance, <1>1, PTL

\* Every pod in a chain is one that kube-proxy last wrote the chain for.
THEOREM NoPodComesBack == Spec => []NoResurrection
<1>1. IInv => NoResurrection
  <2> SUFFICES ASSUME IInv, NEW s \in Service, NEW i \in DOMAIN chain[s]
               PROVE  chain[s][i].pods \subseteq synced[s]
    BY DEF NoResurrection
  <2>1. chain[s] \in Seq(Rule) /\ Len(chain[s]) <= 1
    BY DEF IInv, TypeOK, ChainInv
  <2> QED BY <2>1 DEF IInv, ChainInv
<1> QED BY Invariance, <1>1, PTL
-----------------------------------------------------------------------------
\* The mutex: the reconciler has it from the scores to the end of its command,
\* the watcher during init, and no lookup is under way at any other time than
\* in init or in the watch.
LockInv ==
  /\ reconciler.stage = "apply" <=> lock = "reconciler"
  /\ watcher.stage = "init" <=> lock = "watcher"
  /\ fetch # NoFetch => watcher.stage \in {"init", "watch"}

\* A batch is about the services as they still are.
BatchInv ==
  reconciler.stage = "apply" =>
    \A s \in Service :
      IF reconciler.batch[s] = NoRule
      THEN \/ services[s] = NoService \/ services[s].applied \/ TooSmall(services[s].pods)
           \/ HostsOf(services[s].pods) \intersect reconciler.scored = {}
      ELSE services[s] # NoService /\ reconciler.batch[s].pods \subseteq services[s].pods

MutexInv == LockInv /\ BatchInv

LEMMA InitMutex == Init => MutexInv
  BY SentinelAssumption
  DEF Init, MutexInv, LockInv, BatchInv, Starting, IdleReconciler

\* Who takes the mutex finds it free; only its holder writes the services.
LEMMA MutexStep ==
  ASSUME IInv, MutexInv, [Next]_vars
  PROVE  MutexInv'
<1> USE SentinelAssumption DEF MutexInv, LockInv
<1>1. CASE BeginReconcile
  <2>1. /\ lock = Free /\ lock' = "reconciler"
        /\ UNCHANGED <<watcher, fetch, services>>
    BY <1>1 DEF BeginReconcile, CanReconcile, watching
  <2>2. /\ reconciler'.stage = "apply" /\ reconciler'.scored = DOMAIN ScoresNow
        /\ \A s \in Service : reconciler'.batch[s] \in Commands(s, ScoresNow)
    BY <1>1 DEF BeginReconcile
  <2>3. BatchInv'
    <3> SUFFICES ASSUME NEW s \in Service
                 PROVE  IF reconciler'.batch[s] = NoRule
                        THEN \/ services[s] = NoService \/ services[s].applied
                             \/ TooSmall(services[s].pods)
                             \/ HostsOf(services[s].pods) \intersect DOMAIN ScoresNow = {}
                        ELSE /\ services[s] # NoService
                             /\ reconciler'.batch[s].pods \subseteq services[s].pods
      BY <2>1, <2>2 DEF BatchInv
    <3>1. CASE reconciler'.batch[s] = NoRule
      BY <2>2, <3>1, CommandTyped DEF IInv, Batched, Known
    <3>2. CASE reconciler'.batch[s] # NoRule
      BY <2>2, <3>2, CommandTyped DEF IInv
    <3> QED BY <3>1, <3>2
  <2> QED BY <2>1, <2>2, <2>3
<1>2. CASE ApplyBatch \/ ApplyFails \/ Crash
  <2>1. lock' = Free /\ reconciler' = IdleReconciler
    BY <1>2 DEF ApplyBatch, ApplyFails, Crash
  <2>2. \/ UNCHANGED <<watcher, fetch>> /\ lock = "reconciler"
        \/ watcher' = Starting /\ fetch' = NoFetch
    BY <1>2 DEF ApplyBatch, ApplyFails, Crash, watching
  <2> QED BY <2>1, <2>2 DEF BatchInv, IdleReconciler, Starting
<1>3. CASE Watch \/ WatcherEnds
  <2>1. reconciler' = reconciler
    BY <1>3 DEF Watch, Fetch, WatcherEnds, ListObjects, LockForInit, InitObject, EndInit, TakeObject,
           FindChain, ListChain, FetchFails, Insert
  <2>2. services' = services \/ lock # "reconciler"
    BY <1>3 DEF Watch, Fetch, WatcherEnds, ListObjects, LockForInit, InitObject, EndInit, TakeObject,
           FindChain, ListChain, FetchFails, Insert
  <2>3. BatchInv'
    BY <2>1, <2>2 DEF BatchInv
  <2>4. watcher \in [stage : {"start", "lock", "init", "watch", "ended"}, todo : Seq(Listing),
                     ok : BOOLEAN, failed : BOOLEAN]
    BY DEF IInv, TypeOK
  <2>5. LockInv'
    <3>1. CASE ListObjects \/ LockForInit \/ WatcherEnds
      BY <2>1, <2>4, <3>1 DEF ListObjects, LockForInit, WatcherEnds
    <3>2. CASE EndInit
      BY <2>1, <2>4, <3>2 DEF EndInit, Starting
    <3>3. CASE InitObject \/ TakeObject
      BY <2>1, <2>4, <3>3 DEF InitObject, TakeObject
    <3>4. CASE Fetch
      BY <2>1, <2>4, <3>4 DEF Fetch, Looking, FindChain, ListChain, FetchFails, Insert
    <3> QED BY <1>3, <3>1, <3>2, <3>3, <3>4 DEF Watch
  <2> QED BY <2>3, <2>5
<1>4. CASE \/ SyncProxyRules \/ ProbeLatency \/ UNCHANGED vars
           \/ \E s \in Service : PodsChange(s)
           \/ \E h \in Host : CollectCpu(h)
  <2>1. UNCHANGED <<watcher, fetch, services, lock, reconciler>>
    BY <1>4 DEF SyncProxyRules, ProbeLatency, PodsChange, CollectCpu, vars, watching
  <2> QED BY <2>1 DEF BatchInv
<1> QED BY <1>1, <1>2, <1>3, <1>4 DEF Next

\* No service is ever taken for applied that was not weighted or rightly left
\* out: what came in while a batch was under way waits for the next.
THEOREM NothingTakenForApplied == Spec => AppliedForAReason
<1> DEFINE Reason(s) ==
      services'[s] # NoService /\ services'[s].applied /\ ~services[s].applied =>
        \/ TooSmall(services[s].pods)
        \/ HostsOf(services[s].pods) \intersect reconciler.scored = {}
        \/ chain'[s] # << >> /\ chain'[s][1].pods \subseteq services[s].pods
                             /\ chain'[s][1].owner = "prober"
<1>1. ASSUME IInv, MutexInv, [Next]_vars, NEW s \in Service PROVE Reason(s)
  <2>1. CASE ApplyBatch
    <3>1. CASE s \in InBatch
      <4> DEFINE rule == MapRule("prober", NewHandle(s), reconciler.batch[s].pods)
      <4>1. chain'[s] = <<rule>>
        BY <1>1, <2>1, <3>1, ApplyReplaces
      <4>2. rule.owner = "prober" /\ rule.pods = reconciler.batch[s].pods
        BY DEF MapRule
      <4>3. reconciler.batch[s].pods \subseteq services[s].pods
        BY <1>1, <2>1, <3>1 DEF MutexInv, BatchInv, InBatch, ApplyBatch
      <4> HIDE DEF rule
      <4> QED BY <4>1, <4>2, <4>3
    <3>2. CASE s \notin InBatch
      <4>1. services[s] = NoService => services'[s] = NoService
        BY <2>1 DEF ApplyBatch, Known
      <4> QED BY <1>1, <2>1, <3>2, <4>1 DEF MutexInv, BatchInv, InBatch, ApplyBatch
    <3> QED BY <3>1, <3>2
  <2>2. CASE Insert
    BY <1>1, <2>2 DEF Insert, Looking, IInv, TypeOK, Lookup
  <2>3. CASE Crash
    BY <2>3 DEF Crash
  <2>4. CASE ~(ApplyBatch \/ Insert \/ Crash)
    <3>1. services' = services
      BY <1>1, <2>4 DEF Next, Watch, Fetch, SyncProxyRules, PodsChange, WatcherEnds, ListObjects,
         LockForInit, InitObject, EndInit, TakeObject, FindChain, ListChain, FetchFails,
         BeginReconcile, ApplyFails, CollectCpu, ProbeLatency, vars
    <3> QED BY <3>1
  <2> QED BY <2>1, <2>2, <2>3, <2>4
<1>2. IInv /\ MutexInv /\ [Next]_vars => [\A s \in Service : Reason(s)]_vars
  BY <1>1
<1>3. Spec => [](IInv /\ MutexInv)
  BY InitInv, InitMutex, MutexStep, Invariance, PTL DEF Spec
<1> QED BY <1>2, <1>3, PTL DEF Spec, AppliedForAReason
-----------------------------------------------------------------------------
\* Induction and sums, for the rule that a reconciliation computes.

\* A set that has 0, and with each number the next, has every number: a number
\* it lacks would bound a finite part that adding 1 maps into itself without 0.
LEMMA NumbersByInduction ==
  ASSUME NEW P \in SUBSET Nat, 0 \in P, \A n \in P : n + 1 \in P
  PROVE  Nat \subseteq P
<1> SUFFICES ASSUME NEW m \in Nat, m \notin P PROVE FALSE
  OBVIOUS
<1> DEFINE Q == {n \in P : n <= m}
           next == [n \in Q |-> n + 1]
<1>1. IsFiniteSet(Q) /\ 0 \in Q
  <2>1. \A n \in Q : n \in 0..m
    OBVIOUS
  <2>2. Q \subseteq 0..m
    <3> HIDE DEF Q
    <3> QED BY <2>1
  <2>3. IsFiniteSet(0..m)
    BY FS_Interval
  <2>4. 0 \in Q
    <3>1. 0 <= m
      OBVIOUS
    <3> QED BY <3>1
  <2> HIDE DEF Q
  <2> QED BY <2>2, <2>3, <2>4, FS_Subset
<1>2. next \in [Q -> Q \ {0}]
  <2>1. \A n \in Q : n + 1 \in Q \ {0}
    OBVIOUS
  <2> QED BY <2>1
<1>3. IsFiniteSet(Q \ {0}) /\ Cardinality(Q \ {0}) < Cardinality(Q)
  <2> HIDE DEF Q
  <2>1. Cardinality(Q \ {0}) = Cardinality(Q) - 1 /\ Cardinality(Q) \in Nat /\ IsFiniteSet(Q \ {0})
    BY <1>1, FS_RemoveElement, FS_CardinalityType
  <2> QED BY <2>1
<1>4. \E x, y \in Q : x # y /\ next[x] = next[y]
  <2> HIDE DEF Q, next
  <2> QED BY <1>1, <1>2, <1>3, FS_PigeonHole
<1> QED BY <1>4

\* So does a family of sets that has {}, and with each set every larger one by
\* an element, have every finite set.
LEMMA SetsByInduction ==
  ASSUME NEW S, IsFiniteSet(S), NEW F, {} \in F,
         \A T \in SUBSET S : T \in F => \A x \in S \ T : T \union {x} \in F
  PROVE  S \in F
<1> DEFINE P == {n \in Nat : \A T \in SUBSET S : Cardinality(T) = n => T \in F}
<1>1. \A T \in SUBSET S : IsFiniteSet(T) /\ Cardinality(T) \in Nat
  BY FS_Subset, FS_CardinalityType
<1>2. 0 \in P
  BY <1>1, FS_EmptySet
<1>3. ASSUME NEW n \in P PROVE n + 1 \in P
  <2> SUFFICES ASSUME NEW T \in SUBSET S, Cardinality(T) = n + 1 PROVE T \in F
    OBVIOUS
  <2>1. PICK x \in T : TRUE
    <3>1. Cardinality(T) # 0
      OBVIOUS
    <3> QED BY <3>1, FS_EmptySet
  <2>2. Cardinality(T \ {x}) = n
    BY <1>1, <2>1, FS_RemoveElement
  <2>3. T \ {x} \in F
    BY <2>2
  <2>4. T = (T \ {x}) \union {x} /\ x \in S \ (T \ {x}) /\ T \ {x} \in SUBSET S
    OBVIOUS
  <2> QED BY <2>3, <2>4
<1>4. Nat \subseteq P
  <2> HIDE DEF P
  <2>1. P \in SUBSET Nat
    BY DEF P
  <2> QED BY <1>2, <1>3, <2>1, NumbersByInduction
<1> QED BY <1>1, <1>4

\* A gives each part of S the sum of f over it.
Additive(f, S, A) ==
  /\ A \in [SUBSET S -> Int] /\ A[{}] = 0
  /\ \A T \in SUBSET S : \A x \in S \ T : A[T \union {x}] = A[T] + f[x]

\* Such a function there is, for every finite set of integers.
LEMMA AdditiveExists ==
  ASSUME NEW S, IsFiniteSet(S), NEW f, \A x \in S : f[x] \in Int
  PROVE  \E A : Additive(f, S, A)
<1> DEFINE F == {T \in SUBSET S : \E A : Additive(f, T, A)}
<1>1. {} \in F
  <2>1. Additive(f, {}, [T \in SUBSET {} |-> 0])
    BY DEF Additive
  <2> QED BY <2>1
<1>2. ASSUME NEW T \in SUBSET S, T \in F, NEW x \in S \ T PROVE T \union {x} \in F
  <2>1. PICK A : Additive(f, T, A)
    BY <1>2
  <2> DEFINE B == [U \in SUBSET (T \union {x}) |-> IF x \in U THEN A[U \ {x}] + f[x] ELSE A[U]]
  <2>2. B \in [SUBSET (T \union {x}) -> Int]
    <3>1. ASSUME NEW U \in SUBSET (T \union {x})
          PROVE  (IF x \in U THEN A[U \ {x}] + f[x] ELSE A[U]) \in Int
      <4>1. U \ {x} \in SUBSET T /\ (x \notin U => U \in SUBSET T) /\ f[x] \in Int
        BY <1>2
      <4> QED BY <2>1, <4>1 DEF Additive
    <3> QED BY <3>1
  <2>3. B[{}] = 0
    BY <2>1 DEF Additive
  <2>4. ASSUME NEW U \in SUBSET (T \union {x}), NEW y \in (T \union {x}) \ U
        PROVE  B[U \union {y}] = B[U] + f[y]
    <3>0. U \union {y} \in SUBSET (T \union {x}) /\ f[y] \in Int /\ f[x] \in Int
      BY <1>2
    <3>1. CASE y = x
      <4>1. (U \union {y}) \ {x} = U /\ x \in U \union {y} /\ x \notin U
        BY <3>1
      <4> QED BY <3>0, <3>1, <4>1
    <3>2. CASE y # x /\ x \notin U
      <4>1. U \in SUBSET T /\ y \in T \ U /\ x \notin U \union {y}
        BY <3>2
      <4> QED BY <2>1, <3>0, <3>2, <4>1 DEF Additive
    <3>3. CASE y # x /\ x \in U
      <4>1. /\ U \ {x} \in SUBSET T /\ y \in T \ (U \ {x}) /\ x \in U \union {y}
            /\ (U \union {y}) \ {x} = (U \ {x}) \union {y}
        BY <3>3
      <4>2. A[(U \ {x}) \union {y}] = A[U \ {x}] + f[y] /\ A[U \ {x}] \in Int
        BY <2>1, <4>1 DEF Additive
      <4>3. B[U \union {y}] = A[(U \ {x}) \union {y}] + f[x] /\ B[U] = A[U \ {x}] + f[x]
        BY <3>0, <3>3, <4>1
      <4> QED BY <3>0, <4>2, <4>3
    <3> QED BY <3>1, <3>2, <3>3
  <2>5. Additive(f, T \union {x}, B)
    <3> HIDE DEF B
    <3> QED BY <2>2, <2>3, <2>4 DEF Additive
  <2> QED BY <2>5
<1>3. S \in F
  <2> HIDE DEF F
  <2> QED BY <1>1, <1>2, SetsByInduction
<1> QED BY <1>3

\* The element that the library takes next.
Chosen(S) == CHOOSE x \in S : TRUE

\* The library sums by taking out one element after another.
TakesOut(f, S, g) ==
  g = [T \in SUBSET S |-> IF T = {} THEN 0 ELSE f[Chosen(T)] + g[T \ {Chosen(T)}]]

\* Its CHOOSE has something to choose, if anything takes the elements out.
LEMMA SumTakesOut ==
  ASSUME NEW f, NEW S, \E g : TakesOut(f, S, g)
  PROVE  \E g : TakesOut(f, S, g) /\ SumFunctionOnSet(f, S) = g[S]
<1>1. SumFunctionOnSet(f, S) = (CHOOSE g : TakesOut(f, S, g))[S]
  BY DEF SumFunctionOnSet, FoldFunctionOnSet, MapThenFoldSet, TakesOut, Chosen
<1> QED BY <1>1

\* In whichever order it does, the sum is the same.
LEMMA SumIsAdditive ==
  ASSUME NEW S, IsFiniteSet(S), NEW f, \A x \in S : f[x] \in Int, NEW A, Additive(f, S, A),
         NEW T \in SUBSET S
  PROVE  SumFunctionOnSet(f, T) = A[T]
<1>0. \A U \in SUBSET S : IsFiniteSet(U) /\ Cardinality(U) \in Nat
  BY FS_Subset, FS_CardinalityType
<1>1. ASSUME NEW U \in SUBSET T, U # {}
      PROVE  /\ U \ {Chosen(U)} \in SUBSET T /\ A[U] = f[Chosen(U)] + A[U \ {Chosen(U)}]
             /\ Cardinality(U \ {Chosen(U)}) = Cardinality(U) - 1
  <2>1. PICK x : x = Chosen(U)
    OBVIOUS
  <2>2. x \in U
    BY <1>1, <2>1 DEF Chosen
  <2>3. /\ U \ {x} \in SUBSET T /\ U \ {x} \in SUBSET S /\ (U \ {x}) \union {x} = U
        /\ x \in S \ (U \ {x})
    BY <2>2
  <2>4. A[(U \ {x}) \union {x}] = A[U \ {x}] + f[x] /\ A[U \ {x}] \in Int /\ f[x] \in Int
    BY <2>3 DEF Additive
  <2>5. Cardinality(U \ {x}) = Cardinality(U) - 1
    BY <1>0, <2>2, FS_RemoveElement
  <2>6. A[U] = f[x] + A[U \ {x}]
    <3>1. A[(U \ {x}) \union {x}] = A[U]
      BY <2>3, Zenon
    <3> QED BY <2>4, <3>1
  <2> QED BY <2>1, <2>3, <2>5, <2>6
<1>2. TakesOut(f, T, [U \in SUBSET T |-> A[U]])
  <2> DEFINE g == [U \in SUBSET T |-> A[U]]
  <2>1. ASSUME NEW U \in SUBSET T
        PROVE  g[U] = IF U = {} THEN 0 ELSE f[Chosen(U)] + g[U \ {Chosen(U)}]
    <3>1. CASE U = {}
      BY <3>1 DEF Additive
    <3>2. CASE U # {}
      BY <1>1, <3>2
    <3> QED BY <3>1, <3>2
  <2>2. g = [U \in SUBSET T |-> g[U]]
    OBVIOUS
  <2> HIDE DEF g
  <2>3. TakesOut(f, T, g)
    BY <2>1, <2>2 DEF TakesOut
  <2> QED BY <2>3 DEF g
<1>3. PICK g : TakesOut(f, T, g) /\ SumFunctionOnSet(f, T) = g[T]
  BY <1>2, SumTakesOut
<1> DEFINE P == {n \in Nat : \A U \in SUBSET T : Cardinality(U) = n => g[U] = A[U]}
<1>4. 0 \in P
  <2>1. \A U \in SUBSET T : Cardinality(U) = 0 => U = {}
    BY <1>0, FS_EmptySet
  <2>2. g[{}] = 0 /\ A[{}] = 0
    BY <1>3 DEF TakesOut, Additive
  <2> QED BY <2>1, <2>2
<1>5. ASSUME NEW n \in P PROVE n + 1 \in P
  <2> SUFFICES ASSUME NEW U \in SUBSET T, Cardinality(U) = n + 1 PROVE g[U] = A[U]
    OBVIOUS
  <2>1. U # {}
    BY FS_EmptySet
  <2>2. g[U] = f[Chosen(U)] + g[U \ {Chosen(U)}]
    BY <1>3, <2>1 DEF TakesOut
  <2>3. /\ U \ {Chosen(U)} \in SUBSET T /\ A[U] = f[Chosen(U)] + A[U \ {Chosen(U)}]
        /\ Cardinality(U \ {Chosen(U)}) = n
    BY <1>1, <2>1
  <2> QED BY <2>2, <2>3
<1>6. Nat \subseteq P
  <2> HIDE DEF P
  <2>1. P \in SUBSET Nat
    BY DEF P
  <2> QED BY <1>4, <1>5, <2>1, NumbersByInduction
<1>7. Cardinality(T) \in P
  BY <1>0, <1>6
<1> QED BY <1>3, <1>7

\* What the proofs use of sums.
LEMMA SumStep ==
  ASSUME NEW S, IsFiniteSet(S), NEW f, \A x \in S : f[x] \in Int, NEW T \in SUBSET S
  PROVE  /\ SumFunctionOnSet(f, {}) = 0 /\ SumFunctionOnSet(f, T) \in Int
         /\ \A x \in S \ T : SumFunctionOnSet(f, T \union {x}) = SumFunctionOnSet(f, T) + f[x]
<1>1. PICK A : Additive(f, S, A)
  BY AdditiveExists
<1>2. \A U \in SUBSET S : SumFunctionOnSet(f, U) = A[U]
  BY <1>1, SumIsAdditive
<1>3. {} \in SUBSET S /\ \A x \in S \ T : T \union {x} \in SUBSET S
  OBVIOUS
<1> QED BY <1>1, <1>2, <1>3 DEF Additive
-----------------------------------------------------------------------------
\* Arithmetic of u32, which wraps: equal but for a multiple of the width.
SameModulo(m, x, y) == \E k \in Int : x = y + k * m

\* A number is the same as its remainder.
LEMMA SameAsRemainder ==
  ASSUME NEW m \in Nat \ {0}, NEW x \in Int
  PROVE  x % m \in 0..(m - 1) /\ SameModulo(m, x % m, x)
<1> DEFINE q == x \div m
           r == x % m
<1>1. q \in Int /\ r \in 0..(m - 1)
  OBVIOUS
<1>2. x = m * q + r
  OBVIOUS
<1> HIDE DEF q, r
<1>3. r = x + (-q) * m /\ -q \in Int
  BY <1>1, <1>2
<1>4. SameModulo(m, r, x)
  BY <1>3, Zenon DEF SameModulo
<1> QED BY <1>1, <1>4 DEF q, r

\* Sums and differences of what is the same are the same.
LEMMA SameSums ==
  ASSUME NEW m \in Nat, NEW x \in Int, NEW y \in Int, NEW u \in Int, NEW v \in Int,
         SameModulo(m, x, y), SameModulo(m, u, v)
  PROVE  SameModulo(m, x + u, y + v) /\ SameModulo(m, x - u, y - v)
<1>1. PICK k \in Int : x = y + k * m
  BY DEF SameModulo
<1>2. PICK l \in Int : u = v + l * m
  BY DEF SameModulo
<1>3. (k + l) * m = k * m + l * m /\ (k - l) * m = k * m - l * m /\ k * m \in Int /\ l * m \in Int
  OBVIOUS
<1>4. x + u = (y + v) + (k + l) * m /\ x - u = (y - v) + (k - l) * m
  BY <1>1, <1>2, <1>3
<1>5. k + l \in Int /\ k - l \in Int
  OBVIOUS
<1> QED BY <1>4, <1>5, Zenon DEF SameModulo

\* What is the same as a third number, is the same.
LEMMA SameTransitive ==
  ASSUME NEW m \in Nat, NEW x \in Int, NEW y \in Int, NEW z \in Int,
         SameModulo(m, x, y), SameModulo(m, y, z)
  PROVE  SameModulo(m, x, z)
<1>1. PICK k \in Int : x = y + k * m
  BY DEF SameModulo
<1>2. PICK l \in Int : y = z + l * m
  BY DEF SameModulo
<1>3. x = z + (k + l) * m
  BY <1>1, <1>2
<1>4. k + l \in Int
  OBVIOUS
<1> QED BY <1>3, <1>4, Zenon DEF SameModulo

\* It holds both ways.
LEMMA SameOtherWay ==
  ASSUME NEW m \in Nat, NEW x \in Int, NEW y \in Int, SameModulo(m, x, y)
  PROVE  SameModulo(m, y, x)
<1>1. PICK k \in Int : x = y + k * m
  BY DEF SameModulo
<1>2. y = x + (-k) * m /\ -k \in Int
  BY <1>1
<1> QED BY <1>2, Zenon DEF SameModulo

\* Every number is the same as itself.
LEMMA SameItself ==
  ASSUME NEW m \in Nat, NEW x \in Int
  PROVE  SameModulo(m, x, x)
<1>1. \A k \in Nat : 0 * k = 0
  OBVIOUS
<1>2. x = x + 0 * m
  BY <1>1
<1> QED BY <1>2 DEF SameModulo

\* Elements that are all e, modulo m, add their number times e.
LEMMA UniformSum ==
  ASSUME NEW m \in Nat, NEW S, IsFiniteSet(S), NEW f, \A x \in S : f[x] \in Int,
         NEW e \in Int, NEW B \in SUBSET S, NEW C \in SUBSET S, B \intersect C = {},
         \A x \in C : SameModulo(m, f[x], e)
  PROVE  /\ IsFiniteSet(C) /\ Cardinality(C) \in Nat
         /\ SameModulo(m, SumFunctionOnSet(f, B \union C), SumFunctionOnSet(f, B) + e * Cardinality(C))
<1>1. IsFiniteSet(C) /\ Cardinality(C) \in Nat
  BY FS_Subset, FS_CardinalityType
<1> DEFINE F == {T \in SUBSET C :
                   SameModulo(m, SumFunctionOnSet(f, B \union T), SumFunctionOnSet(f, B) + e * Cardinality(T))}
<1>2. {} \in F
  <2>1. B \union {} = B /\ SumFunctionOnSet(f, B) \in Int
    BY SumStep
  <2>2. SumFunctionOnSet(f, B) + e * Cardinality({}) = SumFunctionOnSet(f, B)
    <3>1. Cardinality({}) = 0 /\ \A k \in Int : k * 0 = 0
      BY FS_EmptySet
    <3> QED BY <2>1, <3>1
  <2>3. SameModulo(m, SumFunctionOnSet(f, B), SumFunctionOnSet(f, B))
    BY <2>1, SameItself
  <2> QED BY <2>1, <2>2, <2>3
<1>3. ASSUME NEW T \in SUBSET C, T \in F, NEW x \in C \ T PROVE T \union {x} \in F
  <2>1. /\ B \union T \in SUBSET S /\ x \in S \ (B \union T) /\ f[x] \in Int
        /\ B \union (T \union {x}) = (B \union T) \union {x}
    BY <1>3
  <2>2. /\ SumFunctionOnSet(f, B \union T) \in Int /\ SumFunctionOnSet(f, B) \in Int
        /\ SumFunctionOnSet(f, (B \union T) \union {x}) = SumFunctionOnSet(f, B \union T) + f[x]
    <3>1. SumFunctionOnSet(f, B) \in Int
      BY SumStep
    <3>2. PICK U : U = B \union T
      OBVIOUS
    <3>3. SumFunctionOnSet(f, U) \in Int /\ SumFunctionOnSet(f, U \union {x}) = SumFunctionOnSet(f, U) + f[x]
      <4>1. U \in SUBSET S /\ x \in S \ U
        BY <2>1, <3>2
      <4> HIDE DEF F
      <4> QED BY <4>1, SumStep
    <3> QED BY <3>1, <3>2, <3>3
  <2>3. Cardinality(T \union {x}) = Cardinality(T) + 1 /\ Cardinality(T) \in Nat
    <3>1. IsFiniteSet(T)
      BY <1>1, <1>3, FS_Subset
    <3>2. x \notin T
      BY <1>3
    <3> QED BY <3>1, <3>2, FS_AddElement, FS_CardinalityType
  <2> DEFINE b == SumFunctionOnSet(f, B)
             s == SumFunctionOnSet(f, B \union T)
             c == Cardinality(T)
  <2>4. SameModulo(m, s, b + e * c)
    BY <1>3
  <2>5. e * (c + 1) = e * c + e /\ e * c \in Int
    <3>1. c \in Int
      BY <2>3
    <3> HIDE DEF c
    <3> QED BY <3>1
  <2>6. SameModulo(m, s + f[x], (b + e * c) + e)
    <3> HIDE DEF b, s, c
    <3>1. s \in Int /\ b \in Int
      BY <2>2 DEF s, b
    <3>2. b + e * c \in Int
      BY <2>5, <3>1
    <3> QED BY <1>3, <2>1, <2>4, <3>1, <3>2, SameSums
  <2>7. (b + e * c) + e = b + e * (c + 1)
    BY <2>2, <2>5
  <2> QED BY <2>1, <2>2, <2>3, <2>6, <2>7
<1>4. C \in F
  <2> HIDE DEF F
  <2> QED BY <1>1, <1>2, <1>3, SetsByInduction
<1> QED BY <1>1, <1>4
-----------------------------------------------------------------------------
\* An order of a HashMap lists each of its keys once.
LEMMA OrderFacts ==
  ASSUME NEW hosts, IsFiniteSet(hosts), NEW order \in Orders(hosts)
  PROVE  /\ Len(order) = Cardinality(hosts) /\ Len(order) \in Nat
         /\ order \in [1..Len(order) -> hosts]
         /\ \A i, j \in 1..Len(order) : order[i] = order[j] => i = j
         /\ \A h \in hosts : \E i \in 1..Len(order) : order[i] = h
<1> DEFINE n == Cardinality(hosts)
<1>1. n \in Nat /\ order \in [1..n -> hosts] /\ IsInjective(order)
  BY FS_CardinalityType DEF Orders
<1>2. Len(order) = n
  BY <1>1
<1>3. order \in Surjection(1..n, hosts)
  <2>1. order \in Injection(1..n, hosts)
    BY <1>1 DEF Injection
  <2>2. Cardinality(1..n) = n
    BY <1>1, FS_Interval
  <2> HIDE DEF n
  <2> QED BY <2>1, <2>2, FS_Injection DEF n
<1>4. \A i, j \in 1..n : order[i] = order[j] => i = j
  BY <1>1 DEF IsInjective
<1> QED BY <1>1, <1>2, <1>3, <1>4 DEF Surjection

\* What the loop over the hosts of a service works on.
RuleInput(pods, each, order) ==
  /\ pods \in SUBSET Pod
  /\ DOMAIN each \subseteq HostsOf(pods)
  /\ \A h \in DOMAIN each : each[h] \in Nat
  /\ order \in Orders(DOMAIN each)

\* Finitely many pods have finitely many hosts.
LEMMA HostsFinite ==
  ASSUME NEW pods, IsFiniteSet(pods)
  PROVE  IsFiniteSet(HostsOf(pods))
<1> DEFINE f == [p \in pods |-> HostOf[p]]
<1>1. f \in Surjection(pods, HostsOf(pods))
  BY DEF Surjection, HostsOf
<1> HIDE DEF f
<1> QED BY <1>1, FS_Surjection

\* What the loop has to work on is finite, and each of its hosts has a pod.
LEMMA InputFacts ==
  ASSUME NEW pods, NEW each, NEW order, RuleInput(pods, each, order)
  PROVE  /\ IsFiniteSet(pods) /\ IsFiniteSet(HostsOf(pods)) /\ IsFiniteSet(DOMAIN each)
         /\ Len(order) \in Nat /\ order \in [1..Len(order) -> DOMAIN each]
         /\ \A i, j \in 1..Len(order) : order[i] = order[j] => i = j
         /\ \A h \in DOMAIN each : \E i \in 1..Len(order) : order[i] = h
         /\ \A h : /\ PodsOn(pods, h) \in SUBSET pods /\ IsFiniteSet(PodsOn(pods, h))
                   /\ Cardinality(PodsOn(pods, h)) \in Nat
         /\ \A h \in DOMAIN each : Cardinality(PodsOn(pods, h)) >= 1
<1>1. IsFiniteSet(pods)
  BY ClusterAssumption, FS_Subset DEF RuleInput
<1>2. IsFiniteSet(HostsOf(pods))
  BY <1>1, HostsFinite
<1>3. IsFiniteSet(DOMAIN each)
  BY <1>2, FS_Subset DEF RuleInput
<1>4. \A h : /\ PodsOn(pods, h) \in SUBSET pods /\ IsFiniteSet(PodsOn(pods, h))
             /\ Cardinality(PodsOn(pods, h)) \in Nat
  <2> SUFFICES ASSUME NEW h
               PROVE  /\ PodsOn(pods, h) \in SUBSET pods /\ IsFiniteSet(PodsOn(pods, h))
                      /\ Cardinality(PodsOn(pods, h)) \in Nat
    OBVIOUS
  <2>1. PodsOn(pods, h) \in SUBSET pods
    BY DEF PodsOn
  <2> QED BY <1>1, <2>1, FS_Subset, FS_CardinalityType
<1>5. ASSUME NEW h \in DOMAIN each PROVE Cardinality(PodsOn(pods, h)) >= 1
  <2>1. PodsOn(pods, h) # {}
    BY DEF RuleInput, HostsOf, PodsOn
  <2>2. Cardinality(PodsOn(pods, h)) # 0
    BY <1>4, <2>1, FS_EmptySet
  <2> QED BY <1>4, <2>2
<1>6. order \in Orders(DOMAIN each)
  BY DEF RuleInput
<1> QED BY <1>1, <1>2, <1>3, <1>4, <1>5, <1>6, OrderFacts

\* What the i-th host of the order is given in all.
HostDraws(order, each, pods) ==
  [i \in 1..Len(order) |-> each[order[i]] * Cardinality(PodsOn(pods, order[i]))]
DrawsBefore(i, order, each, pods) == SumFunctionOnSet(HostDraws(order, each, pods), 1..(i - 1))

\* Each host adds its draws to those given out before.
LEMMA DrawsStep ==
  ASSUME NEW pods, NEW each, NEW order, RuleInput(pods, each, order)
  PROVE  /\ DrawsBefore(1, order, each, pods) = 0
         /\ \A i \in 1..(Len(order) + 1) : DrawsBefore(i, order, each, pods) \in Int
         /\ \A i \in 1..Len(order) :
              /\ HostDraws(order, each, pods)[i] \in Nat
              /\ DrawsBefore(i + 1, order, each, pods)
                   = DrawsBefore(i, order, each, pods) + HostDraws(order, each, pods)[i]
<1> DEFINE n == Len(order)
           w == HostDraws(order, each, pods)
           S == 1..n
<1>1. n \in Nat
  BY InputFacts
<1>2. IsFiniteSet(S)
  BY <1>1, FS_Interval
<1>3. \A i \in S : w[i] = each[order[i]] * Cardinality(PodsOn(pods, order[i]))
  BY DEF HostDraws
<1>4. ASSUME NEW i \in S PROVE w[i] \in Nat
  <2>1. each[order[i]] \in Nat /\ Cardinality(PodsOn(pods, order[i])) \in Nat
    <3>1. order \in [1..n -> DOMAIN each] /\ \A h : Cardinality(PodsOn(pods, h)) \in Nat
      BY InputFacts
    <3>2. \A h \in DOMAIN each : each[h] \in Nat
      BY DEF RuleInput
    <3> QED BY <3>1, <3>2
  <2>2. \A a, b \in Nat : a * b \in Nat
    OBVIOUS
  <2> QED BY <1>3, <2>1, <2>2
<1> HIDE DEF w
<1>5. DrawsBefore(1, order, each, pods) = 0
  <2>1. 1..(1 - 1) = {}
    OBVIOUS
  <2>2. SumFunctionOnSet(w, {}) = 0
    <3>1. {} \in SUBSET S /\ \A i \in S : w[i] \in Int
      BY <1>4
    <3> HIDE DEF S
    <3> QED BY <1>2, <3>1, SumStep
  <2> QED BY <2>1, <2>2 DEF DrawsBefore, w
<1>6. ASSUME NEW i \in 1..(n + 1)
      PROVE  /\ SumFunctionOnSet(w, 1..(i - 1)) \in Int
             /\ i \in S => SumFunctionOnSet(w, 1..i) = SumFunctionOnSet(w, 1..(i - 1)) + w[i]
  <2> DEFINE T == 1..(i - 1)
  <2>1. T \in SUBSET S /\ (i \in S => i \in S \ T /\ 1..i = T \union {i})
    BY <1>1
  <2>2. \A j \in S : w[j] \in Int
    BY <1>4
  <2> HIDE DEF S, T
  <2>3. /\ SumFunctionOnSet(w, T) \in Int
        /\ \A x \in S \ T :
             SumFunctionOnSet(w, T \union {x}) = SumFunctionOnSet(w, T) + w[x]
    BY <1>2, <2>1, <2>2, SumStep
  <2> QED BY <2>1, <2>3 DEF T
<1>7. \A i \in S : (i + 1) - 1 = i /\ i \in 1..(n + 1)
  BY <1>1
<1> QED BY <1>4, <1>5, <1>6, <1>7 DEF DrawsBefore, w

\* Two numbers within one width are the same only if they are equal.
LEMMA SameRemainders ==
  ASSUME NEW m \in Nat \ {0}, NEW x \in 0..m, NEW y \in 0..(m - 1), SameModulo(m, x, y),
         x < m \/ y > 0
  PROVE  x = y
<1>1. PICK k \in Int : x = y + k * m
  BY DEF SameModulo
<1>2. CASE k >= 1
  <2>1. k * m >= m
    BY <1>2
  <2> QED BY <1>1, <2>1
<1>3. CASE k <= -1
  <2>1. k * m <= -m
    BY <1>3
  <2> QED BY <1>1, <2>1
<1>4. CASE k = 0
  <2>1. \A a \in Nat : 0 * a = 0
    OBVIOUS
  <2> QED BY <1>1, <1>4, <2>1
<1> QED BY <1>2, <1>3, <1>4

\* start_range is what was given out before, as a u32.
StartsAt(s, order, each, pods) ==
  s = [i \in 1..(Len(order) + 1) |->
        IF i = 1 THEN 0
        ELSE (s[i - 1] + each[order[i - 1]] * Cardinality(PodsOn(pods, order[i - 1]))) % U32]

\* The loop computes it.
LEMMA StartIsDraws ==
  ASSUME NEW pods, NEW each, NEW order, RuleInput(pods, each, order)
  PROVE  \A i \in 1..(Len(order) + 1) :
           StartRange(order, each, pods)[i] = DrawsBefore(i, order, each, pods) % U32
<1> DEFINE n == Len(order)
           d(i) == DrawsBefore(i, order, each, pods)
           w == HostDraws(order, each, pods)
           g == [i \in 1..(n + 1) |-> d(i) % U32]
<1>1. n \in Nat /\ U32 \in Nat \ {0}
  BY InputFacts, WidthAssumption
<1>2. /\ d(1) = 0 /\ \A i \in 1..(n + 1) : d(i) \in Int
      /\ \A i \in 1..n : w[i] \in Nat /\ d(i + 1) = d(i) + w[i]
  BY DrawsStep
<1>3. \A i \in 1..n : w[i] = each[order[i]] * Cardinality(PodsOn(pods, order[i]))
  BY DEF HostDraws
<1> HIDE DEF d, w
<1>4. 0 % U32 = 0
  BY <1>1
<1>5. ASSUME NEW i \in 1..n PROVE d(i + 1) % U32 = ((d(i) % U32) + w[i]) % U32
  <2>1. d(i) \in Int /\ d(i + 1) \in Int /\ w[i] \in Int /\ d(i + 1) = d(i) + w[i]
    BY <1>1, <1>2
  <2>2. d(i) % U32 \in Int /\ SameModulo(U32, d(i) % U32, d(i))
    <3>1. PICK x \in Int : x = d(i)
      BY <2>1
    <3>2. x % U32 \in 0..(U32 - 1) /\ SameModulo(U32, x % U32, x)
      BY <1>1, SameAsRemainder
    <3>3. x % U32 \in Int
      BY <1>1, <3>2
    <3> QED BY <3>1, <3>2, <3>3
  <2>3. SameModulo(U32, (d(i) % U32) + w[i], d(i + 1))
    <3>1. SameModulo(U32, w[i], w[i])
      BY <1>1, <2>1, SameItself
    <3> QED BY <1>1, <2>1, <2>2, <3>1, SameSums
  <2> DEFINE a == (d(i) % U32) + w[i]
             b == d(i + 1)
  <2>4. a \in Int /\ b \in Int /\ SameModulo(U32, a, b)
    BY <2>1, <2>2, <2>3
  <2> HIDE DEF a, b
  <2>5. a % U32 \in 0..(U32 - 1) /\ b % U32 \in 0..(U32 - 1)
        /\ SameModulo(U32, a % U32, a) /\ SameModulo(U32, b % U32, b)
    BY <1>1, <2>4, SameAsRemainder
  <2>6. SameModulo(U32, a % U32, b % U32)
    <3>1. SameModulo(U32, a % U32, b)
      BY <1>1, <2>4, <2>5, SameTransitive
    <3>2. SameModulo(U32, b, b % U32)
      BY <1>1, <2>4, <2>5, SameOtherWay
    <3> QED BY <1>1, <2>4, <2>5, <3>1, <3>2, SameTransitive
  <2>7. a % U32 = b % U32
    <3>1. a % U32 \in 0..U32 /\ a % U32 < U32
      BY <1>1, <2>5
    <3> QED BY <1>1, <2>5, <2>6, <3>1, SameRemainders
  <2> QED BY <2>7 DEF a, b
<1>6. StartsAt(g, order, each, pods)
  <2>1. ASSUME NEW i \in 1..(n + 1)
        PROVE  g[i] = IF i = 1 THEN 0
                      ELSE (g[i - 1] + each[order[i - 1]] * Cardinality(PodsOn(pods, order[i - 1]))) % U32
    <3>1. CASE i = 1
      BY <1>2, <1>4, <3>1
    <3>2. CASE i # 1
      <4>1. i - 1 \in 1..n /\ (i - 1) + 1 = i /\ i - 1 \in 1..(n + 1)
        BY <1>1, <3>2
      <4>2. d(i) % U32 = ((d(i - 1) % U32) + w[i - 1]) % U32
        BY <1>5, <4>1
      <4> QED BY <1>3, <3>2, <4>1, <4>2
    <3> QED BY <3>1, <3>2
  <2>2. g = [i \in 1..(n + 1) |-> g[i]]
    OBVIOUS
  <2> HIDE DEF g
  <2> QED BY <2>1, <2>2 DEF StartsAt
<1>7. StartRange(order, each, pods) = CHOOSE s : StartsAt(s, order, each, pods)
  BY DEF StartRange, StartsAt
<1>8. PICK s : s = StartRange(order, each, pods) /\ StartsAt(s, order, each, pods)
  BY <1>6, <1>7
<1> DEFINE P == {k \in Nat : k + 1 \in 1..(n + 1) => s[k + 1] = d(k + 1) % U32}
<1>9. 0 \in P
  <2>1. 1 \in 1..(n + 1)
    BY <1>1
  <2>2. s[1] = 0
    BY <1>8, <2>1 DEF StartsAt
  <2> QED BY <1>2, <1>4, <2>2
<1>10. ASSUME NEW k \in P PROVE k + 1 \in P
  <2> SUFFICES ASSUME (k + 1) + 1 \in 1..(n + 1) PROVE s[(k + 1) + 1] = d((k + 1) + 1) % U32
    OBVIOUS
  <2>1. k + 1 \in 1..n /\ k + 1 \in 1..(n + 1) /\ ((k + 1) + 1) - 1 = k + 1 /\ (k + 1) + 1 # 1
    BY <1>1
  <2>2. s[(k + 1) + 1] = (s[k + 1] + each[order[k + 1]] * Cardinality(PodsOn(pods, order[k + 1]))) % U32
    BY <1>8, <2>1 DEF StartsAt
  <2>3. s[k + 1] = d(k + 1) % U32
    BY <2>1
  <2> QED BY <1>3, <1>5, <2>1, <2>2, <2>3
<1>11. Nat \subseteq P
  <2>1. P \in SUBSET Nat
    OBVIOUS
  <2> HIDE DEF P
  <2> QED BY <1>9, <1>10, <2>1, NumbersByInduction
<1>12. ASSUME NEW i \in 1..(n + 1) PROVE s[i] = d(i) % U32
  <2>1. i - 1 \in Nat /\ (i - 1) + 1 = i
    BY <1>1
  <2>2. i - 1 \in P
    BY <1>11, <2>1
  <2> QED BY <2>1, <2>2
<1> QED BY <1>8, <1>12 DEF d

\* A host's pods have different places, as many as there are pods.
LEMMA PlaceFacts ==
  ASSUME NEW T, IsFiniteSet(T)
  PROVE  /\ \A p \in T : PlaceOf(p, T) \in 0..(Cardinality(T) - 1)
         /\ \A p, q \in T : PlaceOf(p, T) = PlaceOf(q, T) => p = q
<1> DEFINE c == Cardinality(T)
           En == [T -> 0..(c - 1)]
<1>1. c \in Nat
  BY FS_CardinalityType
<1>2. \E f \in En : IsInjective(f)
  <2>1. PICK g \in Bijection(1..c, T) : TRUE
    BY FS_CardinalityType DEF ExistsBijection
  <2>2. g \in [1..c -> T] /\ \A p \in T : \E i \in 1..c : g[i] = p
    BY <2>1 DEF Bijection, Surjection
  <2> DEFINE at(p) == CHOOSE i \in 1..c : g[i] = p
             f == [p \in T |-> at(p) - 1]
  <2>3. \A p \in T : at(p) \in 1..c /\ g[at(p)] = p
    BY <2>2
  <2> HIDE DEF at
  <2>4. f \in En
    BY <1>1, <2>3
  <2>5. \A p, q \in T : f[p] = f[q] => p = q
    <3>1. \A p, q \in T : f[p] = f[q] => at(p) = at(q)
      BY <1>1, <2>3
    <3> QED BY <2>3, <3>1
  <2>6. IsInjective(f)
    <3>1. DOMAIN f = T
      OBVIOUS
    <3> HIDE DEF f
    <3> QED BY <2>5, <3>1 DEF IsInjective
  <2> QED BY <2>4, <2>6
<1> DEFINE e == CHOOSE f \in En : IsInjective(f)
<1>3. e \in En /\ IsInjective(e)
  BY <1>2
<1>4. \A p : PlaceOf(p, T) = e[p]
  BY DEF PlaceOf
<1> HIDE DEF e
<1>5. \A p, q \in T : e[p] = e[q] => p = q
  BY <1>3 DEF IsInjective
<1> QED BY <1>3, <1>4, <1>5

\* The first draw of each pod, before it is taken for a u32.
FirstDraw(p, i, order, each, pods) ==
  StartRange(order, each, pods)[i] + PlaceOf(p, PodsOn(pods, HostOf[p])) * each[HostOf[p]]

\* A range of e draws from x on, in u32.
RangeFrom(x, e) == <<x % U32, (x + e - 1) % U32>>
Ranged(p, i, order, each, pods) ==
  /\ order[i] = HostOf[p]
  /\ FirstDraw(p, i, order, each, pods) \in Nat
  /\ VerdictMap(order, each, pods)[p] = RangeFrom(FirstDraw(p, i, order, each, pods), each[HostOf[p]])

\* The verdict map gives each pod its range.
LEMMA RangeFacts ==
  ASSUME NEW pods, NEW each, NEW order, RuleInput(pods, each, order),
         NEW p \in pods, HostOf[p] \in DOMAIN each
  PROVE  \E i \in 1..Len(order) : Ranged(p, i, order, each, pods)
<1> DEFINE i == CHOOSE j \in 1..Len(order) : order[j] = HostOf[p]
           x == FirstDraw(p, i, order, each, pods)
<1>1. i \in 1..Len(order) /\ order[i] = HostOf[p]
  BY InputFacts
<1>2. VerdictMap(order, each, pods)[p] = RangeFrom(x, each[HostOf[p]])
  BY DEF VerdictMap, FirstDraw, RangeFrom
<1> HIDE DEF i
<1>3. x \in Nat
  <2>1. StartRange(order, each, pods)[i] \in Nat
    <3>1. i \in 1..(Len(order) + 1) /\ Len(order) \in Nat
      BY <1>1, InputFacts
    <3>2. DrawsBefore(i, order, each, pods) \in Int
      BY <3>1, DrawsStep
    <3>3. StartRange(order, each, pods)[i] = DrawsBefore(i, order, each, pods) % U32
      BY <3>1, StartIsDraws
    <3>4. \A y \in Int : y % U32 \in Nat
      BY WidthAssumption
    <3> QED BY <3>2, <3>3, <3>4
  <2>2. PlaceOf(p, PodsOn(pods, HostOf[p])) \in Nat
    <3>1. p \in PodsOn(pods, HostOf[p])
      BY DEF PodsOn
    <3>2. IsFiniteSet(PodsOn(pods, HostOf[p])) /\ Cardinality(PodsOn(pods, HostOf[p])) \in Nat
      BY InputFacts
    <3>3. PlaceOf(p, PodsOn(pods, HostOf[p])) \in 0..(Cardinality(PodsOn(pods, HostOf[p])) - 1)
      BY <3>1, <3>2, PlaceFacts
    <3> QED BY <3>2, <3>3
  <2>3. each[HostOf[p]] \in Nat
    BY DEF RuleInput
  <2>4. \A a, b, d \in Nat : a + b * d \in Nat
    OBVIOUS
  <2> QED BY <2>1, <2>2, <2>3, <2>4 DEF FirstDraw
<1> QED BY <1>1, <1>2, <1>3 DEF Ranged

\* A range has, modulo the width, as many draws as the pod was to have.
Sized(map, each, pods) ==
  /\ DOMAIN map = {p \in pods : HostOf[p] \in DOMAIN each} /\ DOMAIN Sizes(map) = DOMAIN map
  /\ IsFiniteSet(DOMAIN map)
  /\ \A p \in DOMAIN map :
       /\ map[p][1] \in 0..(U32 - 1) /\ map[p][2] \in 0..(U32 - 1)
       /\ Sizes(map)[p] \in Int /\ Sizes(map)[p] = map[p][2] - map[p][1] + 1
       /\ SameModulo(U32, Sizes(map)[p], each[HostOf[p]])

\* The verdict map is like that.
LEMMA SizeFacts ==
  ASSUME NEW pods, NEW each, NEW order, RuleInput(pods, each, order), NEW map,
         map = VerdictMap(order, each, pods)
  PROVE  Sized(map, each, pods)
<1>1. DOMAIN map = {p \in pods : HostOf[p] \in DOMAIN each} /\ DOMAIN Sizes(map) = DOMAIN map
  BY DEF VerdictMap, Sizes
<1>2. IsFiniteSet(DOMAIN map)
  BY <1>1, InputFacts, FS_Subset
<1>3. ASSUME NEW p \in DOMAIN map
      PROVE  /\ map[p][1] \in 0..(U32 - 1) /\ map[p][2] \in 0..(U32 - 1)
             /\ Sizes(map)[p] \in Int /\ Sizes(map)[p] = map[p][2] - map[p][1] + 1
             /\ SameModulo(U32, Sizes(map)[p], each[HostOf[p]])
  <2>1. p \in pods /\ HostOf[p] \in DOMAIN each
    BY <1>1
  <2>2. PICK x \in Nat : map[p] = RangeFrom(x, each[HostOf[p]])
    <3>1. PICK i \in 1..Len(order) : Ranged(p, i, order, each, pods)
      BY <2>1, RangeFacts
    <3> QED BY <3>1 DEF Ranged
  <2> DEFINE e == each[HostOf[p]]
             y == x + e - 1
  <2>3. e \in Nat /\ y \in Int /\ U32 \in Nat \ {0}
    BY <2>1, WidthAssumption DEF RuleInput
  <2>4. Sizes(map)[p] = map[p][2] - map[p][1] + 1
    BY DEF Sizes, Size
  <2>5. map[p][1] = x % U32 /\ map[p][2] = y % U32
    BY <2>2 DEF RangeFrom
  <2> HIDE DEF e
  <2>6. (y - x) + 1 = e
    BY <2>3
  <2> HIDE DEF y
  <2>7. x % U32 \in 0..(U32 - 1) /\ y % U32 \in 0..(U32 - 1)
        /\ SameModulo(U32, x % U32, x) /\ SameModulo(U32, y % U32, y)
    <3>1. x % U32 \in 0..(U32 - 1) /\ SameModulo(U32, x % U32, x)
      BY <2>3, SameAsRemainder
    <3>2. y % U32 \in 0..(U32 - 1) /\ SameModulo(U32, y % U32, y)
      BY <2>3, SameAsRemainder
    <3> QED BY <3>1, <3>2
  <2> DEFINE a == x % U32
             b == y % U32
  <2>8. a \in Int /\ b \in Int /\ SameModulo(U32, a, x) /\ SameModulo(U32, b, y)
    BY <2>3, <2>7
  <2> HIDE DEF a, b
  <2>9. SameModulo(U32, b - a, y - x)
    BY <2>3, <2>8, SameSums
  <2>10. SameModulo(U32, (b - a) + 1, (y - x) + 1)
    <3>1. SameModulo(U32, 1, 1) /\ b - a \in Int /\ y - x \in Int
      BY <2>3, <2>8, SameItself
    <3> QED BY <2>3, <2>9, <3>1, SameSums
  <2>11. Sizes(map)[p] = (b - a) + 1 /\ (b - a) + 1 \in Int
    BY <2>4, <2>5, <2>8 DEF a, b
  <2> QED BY <2>4, <2>5, <2>6, <2>7, <2>10, <2>11 DEF e
<1> QED BY <1>1, <1>2, <1>3 DEF Sized

\* If each range has as many draws as its pod was to have, modulo m, then all
\* together have as many as were given out.
LEMMA SizesAddUp ==
  ASSUME NEW pods, NEW each, NEW order, RuleInput(pods, each, order), NEW map,
         map = VerdictMap(order, each, pods), NEW m \in Nat,
         \A p \in DOMAIN map : SameModulo(m, Sizes(map)[p], each[HostOf[p]])
  PROVE  /\ SumFunction(Sizes(map)) \in Int
         /\ SameModulo(m, SumFunction(Sizes(map)), DrawsBefore(Len(order) + 1, order, each, pods))
<1> DEFINE n == Len(order)
           D == DOMAIN map
           z == Sizes(map)
           d(i) == DrawsBefore(i, order, each, pods)
           w == HostDraws(order, each, pods)
           First(k) == {p \in D : \E j \in 1..k : order[j] = HostOf[p]}
           P == {k \in Nat : k <= n => SameModulo(m, SumFunctionOnSet(z, First(k)), d(k + 1))}
<1>1. n \in Nat
  BY InputFacts
<1>0. Sized(map, each, pods)
  BY SizeFacts
<1>2. IsFiniteSet(D) /\ \A p \in D : z[p] \in Int /\ SameModulo(m, z[p], each[HostOf[p]])
  BY <1>0 DEF Sized
<1>3. D = {p \in pods : HostOf[p] \in DOMAIN each} /\ DOMAIN z = D
  BY <1>0 DEF Sized
<1>4. /\ d(1) = 0 /\ \A i \in 1..(n + 1) : d(i) \in Int
      /\ \A i \in 1..n : d(i + 1) = d(i) + w[i]
  BY DrawsStep
<1>5. \A i \in 1..n : w[i] = each[order[i]] * Cardinality(PodsOn(pods, order[i]))
  BY DEF HostDraws
<1>6. \A T \in SUBSET D : SumFunctionOnSet(z, T) \in Int
  <2> HIDE DEF D, z
  <2> QED BY <1>2, SumStep
<1>7. SumFunctionOnSet(z, {}) = 0
  <2> HIDE DEF D, z
  <2>1. {} \in SUBSET D
    OBVIOUS
  <2> QED BY <1>2, <2>1, SumStep
<1> HIDE DEF D, z, d, w
<1>8. 0 \in P
  <2>1. First(0) = {}
    OBVIOUS
  <2>2. SameModulo(m, 0, 0)
    BY <1>1, SameItself
  <2>3. d(0 + 1) = 0
    BY <1>4
  <2> HIDE DEF First
  <2> QED BY <1>7, <2>1, <2>2, <2>3
<1>9. ASSUME NEW k \in P PROVE k + 1 \in P
  <2> SUFFICES ASSUME k + 1 <= n PROVE SameModulo(m, SumFunctionOnSet(z, First(k + 1)), d((k + 1) + 1))
    OBVIOUS
  <2> DEFINE C == PodsOn(pods, order[k + 1])
             e == each[order[k + 1]]
             c == Cardinality(C)
  <2>1. k \in Nat /\ k <= n /\ k + 1 \in 1..n /\ k + 1 \in 1..(n + 1)
    BY <1>1
  <2>2. order[k + 1] \in DOMAIN each /\ e \in Nat /\ \A j \in 1..k : order[j] # order[k + 1]
    <3>1. order \in [1..n -> DOMAIN each] /\ \A i, j \in 1..n : order[i] = order[j] => i = j
      BY InputFacts
    <3>2. \A j \in 1..k : j \in 1..n /\ j # k + 1
      BY <1>1, <2>1
    <3>3. \A h \in DOMAIN each : each[h] \in Nat
      BY DEF RuleInput
    <3> QED BY <2>1, <3>1, <3>2, <3>3
  <2>3. C \in SUBSET D /\ \A p \in C : HostOf[p] = order[k + 1]
    BY <1>3, <2>2 DEF PodsOn
  <2>4. First(k) \in SUBSET D /\ First(k) \intersect C = {}
    BY <2>2, <2>3
  <2>5. First(k + 1) = First(k) \union C
    <3>1. 1..(k + 1) = (1..k) \union {k + 1}
      BY <2>1
    <3>2. C = {p \in D : order[k + 1] = HostOf[p]}
      BY <1>3, <2>2 DEF PodsOn
    <3> HIDE DEF C
    <3> QED BY <3>1, <3>2
  <2> DEFINE B == First(k)
  <2>6. \A p \in C : SameModulo(m, z[p], e)
    BY <1>2, <2>3
  <2> HIDE DEF First, C, e
  <2>7. /\ c \in Nat
        /\ SameModulo(m, SumFunctionOnSet(z, B \union C), SumFunctionOnSet(z, B) + e * c)
    <3>1. e \in Int /\ B \in SUBSET D /\ C \in SUBSET D /\ B \intersect C = {}
      BY <2>2, <2>3, <2>4
    <3> HIDE DEF B, P
    <3> QED BY <1>1, <1>2, <2>6, <3>1, UniformSum
  <2>8. SameModulo(m, SumFunctionOnSet(z, B), d(k + 1))
    BY <2>1
  <2> HIDE DEF P
  <2>9. d((k + 1) + 1) = d(k + 1) + e * c /\ d(k + 1) \in Int /\ e * c \in Int
    <3>1. d((k + 1) + 1) = d(k + 1) + w[k + 1] /\ w[k + 1] = e * c /\ d(k + 1) \in Int
      BY <1>4, <1>5, <2>1 DEF C, e
    <3>2. \A a, b \in Nat : a * b \in Int
      OBVIOUS
    <3> QED BY <2>2, <2>7, <3>1, <3>2
  <2>10. SumFunctionOnSet(z, B) \in Int /\ SumFunctionOnSet(z, B \union C) \in Int
    <3>1. B \union C \in SUBSET D /\ B \in SUBSET D
      BY <2>3, <2>4
    <3> QED BY <1>6, <3>1
  <2> DEFINE s == SumFunctionOnSet(z, B)
             t == SumFunctionOnSet(z, B \union C)
             x == d(k + 1)
             y == e * c
  <2>11. SameModulo(m, s + y, x + y)
    <3>1. s \in Int /\ x \in Int /\ y \in Int /\ SameModulo(m, s, x)
      BY <2>8, <2>9, <2>10
    <3> HIDE DEF s, x, y
    <3>2. SameModulo(m, y, y)
      BY <1>1, <3>1, SameItself
    <3> QED BY <1>1, <3>1, <3>2, SameSums
  <2>12. SameModulo(m, t, x + y)
    <3>1. s \in Int /\ x \in Int /\ y \in Int /\ t \in Int /\ SameModulo(m, t, s + y)
      BY <2>7, <2>9, <2>10
    <3> HIDE DEF s, x, y, t
    <3>2. s + y \in Int /\ x + y \in Int
      BY <3>1
    <3> QED BY <1>1, <2>11, <3>1, <3>2, SameTransitive
  <2> QED BY <2>5, <2>9, <2>12
<1>10. Nat \subseteq P
  <2>1. P \in SUBSET Nat
    OBVIOUS
  <2> HIDE DEF P
  <2> QED BY <1>8, <1>9, <2>1, NumbersByInduction
<1>11. First(n) = D
  <2>1. \A h \in DOMAIN each : \E i \in 1..n : order[i] = h
    BY InputFacts
  <2> QED BY <1>3, <2>1
<1>12. SumFunction(z) = SumFunctionOnSet(z, D)
  BY <1>3 DEF SumFunction
<1>13. SameModulo(m, SumFunctionOnSet(z, First(n)), d(n + 1))
  BY <1>1, <1>10
<1> HIDE DEF First
<1>14. SumFunction(z) \in Int /\ SameModulo(m, SumFunction(z), d(n + 1))
  BY <1>6, <1>11, <1>12, <1>13
<1> QED BY <1>14 DEF z, d

\* All draws that go to any pod.
Covered(map) == UNION {map[p][1]..map[p][2] : p \in DOMAIN map}

\* Ranges that do not overlap have no more draws than there are, and no fewer
\* than each of them: as many as they cover.
LEMMA RangesFit ==
  ASSUME NEW pods, NEW each, NEW order, RuleInput(pods, each, order), NEW map,
         map = VerdictMap(order, each, pods), NEW modulus, NftAccepts(map, modulus)
  PROVE  /\ SumFunction(Sizes(map)) \in 0..U32
         /\ \A p \in DOMAIN map :
              Sizes(map)[p] \in 1..U32 /\ Sizes(map)[p] <= SumFunction(Sizes(map))
         /\ IsFiniteSet(Covered(map)) /\ Cardinality(Covered(map)) = SumFunction(Sizes(map))
<1> DEFINE D == DOMAIN map
           z == Sizes(map)
           Run(p) == map[p][1]..map[p][2]
           Runs(T) == UNION {Run(p) : p \in T}
           F == {T \in SUBSET D : /\ IsFiniteSet(Runs(T))
                                  /\ Cardinality(Runs(T)) = SumFunctionOnSet(z, T)}
<1>1. U32 \in Nat \ {0}
  BY WidthAssumption
<1>2. /\ IsFiniteSet(D) /\ DOMAIN z = D
      /\ \A p \in D : /\ map[p][1] \in 0..(U32 - 1) /\ map[p][2] \in 0..(U32 - 1)
                      /\ z[p] \in Int /\ z[p] = map[p][2] - map[p][1] + 1
  <2>1. Sized(map, each, pods)
    BY SizeFacts
  <2> QED BY <2>1 DEF Sized
<1>3. /\ \A p \in D : map[p][1] <= map[p][2]
      /\ \A p, q \in D : p # q => map[p][2] < map[q][1] \/ map[q][2] < map[p][1]
  BY DEF NftAccepts
<1>0. Covered(map) = Runs(D)
  BY DEF Covered
<1> HIDE DEF D, z
<1>4. ASSUME NEW p \in D
      PROVE  /\ z[p] \in 1..U32 /\ IsFiniteSet(Run(p)) /\ Cardinality(Run(p)) = z[p]
             /\ Run(p) \subseteq 0..(U32 - 1)
  <2> DEFINE a == map[p][1]
             b == map[p][2]
  <2>1. a \in 0..(U32 - 1) /\ b \in 0..(U32 - 1) /\ a <= b /\ z[p] = b - a + 1
    BY <1>2, <1>3
  <2> HIDE DEF a, b
  <2>2. z[p] \in 1..U32 /\ a..b \subseteq 0..(U32 - 1) /\ a \in Int /\ b \in Int
    BY <1>1, <2>1
  <2>3. IsFiniteSet(a..b) /\ Cardinality(a..b) = b - a + 1
    BY <2>1, <2>2, FS_Interval
  <2> QED BY <2>1, <2>2, <2>3 DEF a, b
<1>5. ASSUME NEW p \in D, NEW q \in D, p # q PROVE Run(p) \intersect Run(q) = {}
  <2>1. map[p][1] \in Int /\ map[p][2] \in Int /\ map[q][1] \in Int /\ map[q][2] \in Int
    BY <1>1, <1>2
  <2> QED BY <1>3, <1>5, <2>1
<1>6. ASSUME NEW p \in D, NEW T \in SUBSET D, p \notin T PROVE Runs(T) \intersect Run(p) = {}
  <2>1. \A q \in T : Run(q) \intersect Run(p) = {}
    BY <1>5, <1>6
  <2> HIDE DEF Run
  <2> QED BY <2>1
<1> HIDE DEF Run
<1>7. \A T \in SUBSET D : \A p \in D : Runs(T \union {p}) = Runs(T) \union Run(p)
  OBVIOUS
<1>8. Runs({}) = {}
  OBVIOUS
<1>9. Runs(D) \subseteq 0..(U32 - 1) /\ \A p \in D : Run(p) \subseteq Runs(D)
  BY <1>4
<1> HIDE DEF Runs
<1>10. {} \in F
  <2>1. SumFunctionOnSet(z, {}) = 0
    <3>1. {} \in SUBSET D
      OBVIOUS
    <3> HIDE DEF F
    <3> QED BY <1>2, <3>1, SumStep
  <2> QED BY <1>8, <2>1, FS_EmptySet
<1>11. ASSUME NEW T \in SUBSET D, T \in F, NEW p \in D \ T PROVE T \union {p} \in F
  <2>1. SumFunctionOnSet(z, T \union {p}) = SumFunctionOnSet(z, T) + z[p]
    <3> HIDE DEF F
    <3> QED BY <1>2, SumStep
  <2> DEFINE A == Runs(T)
             B == Run(p)
  <2>2. /\ IsFiniteSet(A) /\ Cardinality(A) = SumFunctionOnSet(z, T)
        /\ IsFiniteSet(B) /\ Cardinality(B) = z[p] /\ A \intersect B = {}
    BY <1>4, <1>6, <1>11
  <2>3. Runs(T \union {p}) = A \union B
    BY <1>7
  <2> HIDE DEF A, B
  <2>4. IsFiniteSet(A \union B) /\ Cardinality(A \union B) = Cardinality(A) + Cardinality(B)
    <3>1. Cardinality(A \intersect B) = 0 /\ Cardinality(A) \in Nat /\ Cardinality(B) \in Nat
      BY <2>2, FS_EmptySet, FS_CardinalityType
    <3>2. IsFiniteSet(A) /\ IsFiniteSet(B) /\ A \cap B = A \intersect B
      BY <2>2
    <3>3. /\ IsFiniteSet(A \union B)
          /\ Cardinality(A \union B) = Cardinality(A) + Cardinality(B) - Cardinality(A \intersect B)
      BY <3>2, FS_Union
    <3> QED BY <3>1, <3>3
  <2> QED BY <2>1, <2>2, <2>3, <2>4
<1>12. D \in F
  <2> HIDE DEF F
  <2> QED BY <1>2, <1>10, <1>11, SetsByInduction
<1>13. Cardinality(Runs(D)) \in 0..U32
  <2>1. IsFiniteSet(0..(U32 - 1)) /\ Cardinality(0..(U32 - 1)) = U32
    BY <1>1, FS_Interval
  <2>2. Cardinality(Runs(D)) <= U32 /\ IsFiniteSet(Runs(D))
    <3>1. Runs(D) \in SUBSET (0..(U32 - 1))
      BY <1>9
    <3> DEFINE R == 0..(U32 - 1)
    <3>2. IsFiniteSet(R) /\ Cardinality(R) = U32 /\ Runs(D) \in SUBSET R
      BY <2>1, <3>1
    <3> HIDE DEF R, Runs
    <3>3. IsFiniteSet(Runs(D)) /\ Cardinality(Runs(D)) <= Cardinality(R)
      BY <3>2, FS_Subset
    <3> QED BY <3>2, <3>3
  <2>3. Cardinality(Runs(D)) \in Nat
    BY <2>2, FS_CardinalityType
  <2> QED BY <1>1, <2>2, <2>3
<1>14. SumFunction(z) = Cardinality(Runs(D))
  BY <1>2, <1>12 DEF SumFunction
<1>15. \A p \in D : z[p] <= Cardinality(Runs(D))
  <2> SUFFICES ASSUME NEW p \in D PROVE z[p] <= Cardinality(Runs(D))
    OBVIOUS
  <2>1. Cardinality(Run(p)) <= Cardinality(Runs(D))
    BY <1>9, <1>12, FS_Subset
  <2> QED BY <1>4, <2>1
<1>16. SumFunction(z) \in 0..U32 /\ \A p \in D : z[p] \in 1..U32 /\ z[p] <= SumFunction(z)
  BY <1>4, <1>13, <1>14, <1>15
<1>17. IsFiniteSet(Covered(map)) /\ Cardinality(Covered(map)) = SumFunction(z)
  BY <1>0, <1>12, <1>14
<1> QED BY <1>16, <1>17 DEF D, z

\* The ranges of a rule that nft takes have as many draws as its modulus.
LEMMA RuleLands ==
  ASSUME NEW pods, NEW each, NEW order, RuleInput(pods, each, order), NEW map,
         map = VerdictMap(order, each, pods), NEW modulus, modulus = Modulus(order, each, pods),
         NftAccepts(map, modulus)
  PROVE  SumFunction(Sizes(map)) = modulus /\ modulus \in 1..(U32 - 1)
<1> DEFINE s == SumFunction(Sizes(map))
           d == DrawsBefore(Len(order) + 1, order, each, pods)
<1>1. U32 \in Nat \ {0} /\ modulus > 0
  BY WidthAssumption DEF NftAccepts
<1>2. s \in 0..U32 /\ SameModulo(U32, s, d)
  <2>1. \A p \in DOMAIN map : SameModulo(U32, Sizes(map)[p], each[HostOf[p]])
    BY SizeFacts DEF Sized
  <2> QED BY <1>1, <2>1, SizesAddUp, RangesFit
<1>3. d \in Int /\ modulus = d % U32
  <2>1. Len(order) + 1 \in 1..(Len(order) + 1)
    BY InputFacts
  <2> QED BY <2>1, DrawsStep, StartIsDraws DEF Modulus
<1> HIDE DEF s, d
<1>4. modulus \in 0..(U32 - 1) /\ SameModulo(U32, modulus, d)
  BY <1>1, <1>3, SameAsRemainder
<1>5. SameModulo(U32, s, modulus)
  <2>1. s \in Int /\ modulus \in Int
    BY <1>1, <1>2, <1>4
  <2>2. SameModulo(U32, d, modulus)
    BY <1>1, <1>3, <1>4, <2>1, SameOtherWay
  <2> QED BY <1>1, <1>2, <1>3, <2>1, <2>2, SameTransitive
<1>6. s = modulus
  BY <1>1, <1>2, <1>4, <1>5, SameRemainders
<1> QED BY <1>1, <1>4, <1>6 DEF s

\* In such a rule each pod has exactly the draws it was to have.
LEMMA SizeExact ==
  ASSUME NEW pods, NEW each, NEW order, RuleInput(pods, each, order), NEW map,
         map = VerdictMap(order, each, pods), NftAccepts(map, Modulus(order, each, pods)),
         NEW p \in DOMAIN map, each[HostOf[p]] < U32
  PROVE  Sizes(map)[p] = each[HostOf[p]]
<1> DEFINE z == Sizes(map)
           e == each[HostOf[p]]
<1>1. SameModulo(U32, z[p], e)
  BY SizeFacts DEF Sized
<1>2. z[p] \in 1..U32 /\ z[p] <= SumFunction(z)
  BY RangesFit
<1>3. SumFunction(z) \in 1..(U32 - 1)
  BY RuleLands
<1>4. U32 \in Nat \ {0} /\ e \in 0..(U32 - 1)
  <2>1. DOMAIN map = {q \in pods : HostOf[q] \in DOMAIN each}
    <3>1. Sized(map, each, pods)
      BY SizeFacts
    <3> QED BY <3>1 DEF Sized
  <2>2. HostOf[p] \in DOMAIN each
    BY <2>1
  <2> QED BY <2>2, WidthAssumption DEF RuleInput
<1> HIDE DEF z, e
<1>5. z[p] \in 0..U32 /\ z[p] < U32
  BY <1>2, <1>3, <1>4
<1>6. z[p] = e
  BY <1>1, <1>4, <1>5, SameRemainders
<1> QED BY <1>6 DEF z, e
-----------------------------------------------------------------------------
\* The sum of what is not negative is not negative, and grows with the set.
LEMMA SumGrows ==
  ASSUME NEW S, IsFiniteSet(S), NEW f, \A x \in S : f[x] \in Nat, NEW T \in SUBSET S, NEW U \in SUBSET T
  PROVE  /\ SumFunctionOnSet(f, U) \in Nat /\ SumFunctionOnSet(f, T) \in Nat
         /\ SumFunctionOnSet(f, U) <= SumFunctionOnSet(f, T)
<1>0. \A x \in S : f[x] \in Int
  OBVIOUS
<1>1. ASSUME NEW V \in SUBSET S, NEW W \in SUBSET V
      PROVE  SumFunctionOnSet(f, W) <= SumFunctionOnSet(f, V) /\ SumFunctionOnSet(f, W) \in Int
  <2> DEFINE F == {Y \in SUBSET (V \ W) : SumFunctionOnSet(f, W) <= SumFunctionOnSet(f, W \union Y)}
  <2>1. SumFunctionOnSet(f, W) \in Int
    BY <1>0, SumStep
  <2>2. {} \in F
    <3>1. W \union {} = W
      OBVIOUS
    <3> QED BY <2>1, <3>1
  <2>3. ASSUME NEW Y \in SUBSET (V \ W), Y \in F, NEW x \in (V \ W) \ Y PROVE Y \union {x} \in F
    <3> DEFINE Z == W \union Y
    <3>1. Z \in SUBSET S /\ x \in S \ Z /\ W \union (Y \union {x}) = Z \union {x} /\ f[x] \in Nat
      BY <2>3
    <3>2. SumFunctionOnSet(f, W) <= SumFunctionOnSet(f, Z)
      BY <2>3
    <3> HIDE DEF F, Z
    <3>3. SumFunctionOnSet(f, Z) \in Int /\ SumFunctionOnSet(f, Z \union {x}) = SumFunctionOnSet(f, Z) + f[x]
      BY <1>0, <3>1, SumStep
    <3>4. SumFunctionOnSet(f, W) <= SumFunctionOnSet(f, W \union (Y \union {x}))
      BY <2>1, <3>1, <3>2, <3>3
    <3>5. Y \union {x} \in SUBSET (V \ W)
      BY <2>3
    <3> QED BY <3>4, <3>5 DEF F
  <2>4. IsFiniteSet(V \ W)
    <3>1. V \ W \in SUBSET S
      OBVIOUS
    <3> QED BY <3>1, FS_Subset
  <2>5. V \ W \in F
    <3> HIDE DEF F
    <3> QED BY <2>2, <2>3, <2>4, SetsByInduction
  <2>6. W \union (V \ W) = V
    OBVIOUS
  <2> QED BY <2>1, <2>5, <2>6
<1>2. SumFunctionOnSet(f, {}) = 0
  <2>1. {} \in SUBSET S
    OBVIOUS
  <2> QED BY <1>0, <2>1, SumStep
<1>3. T \in SUBSET S /\ U \in SUBSET S /\ {} \in SUBSET U /\ {} \in SUBSET T
  OBVIOUS
<1>4. SumFunctionOnSet(f, U) \in Int /\ SumFunctionOnSet(f, T) \in Int
  BY <1>0, <1>3, SumStep
<1>5. /\ SumFunctionOnSet(f, {}) <= SumFunctionOnSet(f, U) /\ SumFunctionOnSet(f, {}) <= SumFunctionOnSet(f, T)
      /\ SumFunctionOnSet(f, U) <= SumFunctionOnSet(f, T)
  BY <1>1, <1>3
<1> QED BY <1>2, <1>4, <1>5

\* A portion is a number of draws within the width, whatever the scores.
LEMMA PortionTyped ==
  ASSUME NEW s \in Int, NEW total \in Int, NEW n \in Nat, n >= 1, NEW lost
  PROVE  PortionEach(s, total, n, lost) \in Nat /\ PortionEach(s, total, n, lost) < U32
<1>0. U32 \in Nat /\ U32 - 1 \in Nat /\ 0 < U32 /\ U32 - 1 < U32
  BY WidthAssumption
<1>1. CASE total = 0
  BY <1>0, <1>1 DEF PortionEach
<1>2. CASE total # 0 /\ s * total <= 0
  BY <1>0, <1>2 DEF PortionEach
<1>3. CASE total # 0 /\ ~(s * total <= 0)
  <2> DEFINE num == IF total > 0 THEN 100 * s ELSE -100 * s
             den == IF total > 0 THEN total * n ELSE -total * n
             quotient == (num \div den) - (IF lost /\ num % den = 0 THEN 1 ELSE 0)
  <2>1. num \in Nat /\ num > 0
    <3>1. CASE total > 0
      <4>1. s > 0
        BY <1>3, <3>1
      <4> QED BY <3>1, <4>1
    <3>2. CASE total < 0
      <4>1. s < 0
        BY <1>3, <3>2
      <4> QED BY <3>2, <4>1
    <3> QED BY <1>3, <3>1, <3>2
  <2>2. den \in Nat /\ den > 0
    <3>1. \A a, b \in Nat : a > 0 /\ b > 0 => a * b \in Nat /\ a * b > 0
      OBVIOUS
    <3>2. CASE total > 0
      BY <3>1, <3>2
    <3>3. CASE total < 0
      <4>1. -total \in Nat /\ -total > 0
        BY <3>3
      <4> QED BY <3>1, <3>3, <4>1
    <3> QED BY <1>3, <3>2, <3>3
  <2>3. PortionEach(s, total, n, lost) = IF quotient < U32 THEN quotient ELSE U32 - 1
    BY <1>3 DEF PortionEach
  <2> HIDE DEF num, den
  <2>4. quotient \in Nat
    <3>1. num \div den \in Nat /\ (num % den = 0 => num \div den >= 1)
      BY <2>1, <2>2
    <3> HIDE DEF num, den
    <3> QED BY <3>1
  <2> HIDE DEF quotient
  <2> QED BY <1>0, <2>3, <2>4
<1> QED BY <1>1, <1>2, <1>3

\* What \div and % are.
LEMMA Division ==
  ASSUME NEW a \in Int, NEW b \in Nat \ {0}
  PROVE  /\ a \div b \in Int /\ (a \in Nat => a \div b \in Nat)
         /\ a = b * (a \div b) + (a % b) /\ a % b \in 0..(b - 1)
<1> DEFINE q == a \div b
           r == a % b
<1>1. q \in Int /\ (a \in Nat => q \in Nat) /\ r \in 0..(b - 1)
  OBVIOUS
<1>2. a = b * q + r
  OBVIOUS
<1> QED BY <1>1, <1>2

\* With positive scores it is a host's percentage, divided by its pods.
LEMMA PortionShare ==
  ASSUME NEW s \in Nat, NEW total \in Nat, s > 0, s <= total, NEW n \in Nat, n >= 1, NEW lost,
         NEW e, e = PortionEach(s, total, n, lost)
  PROVE  /\ e \in 0..100 /\ e * (n * total) <= 100 * s /\ 100 * s <= e * (n * total) + n * total
         /\ 100 * s > n * total => e >= 1
<1> DEFINE den == total * n
           quotient == (100 * s) \div den
           short == IF lost /\ (100 * s) % den = 0 THEN 1 ELSE 0
<1>1. den \in Nat /\ den >= total /\ den > 0 /\ n * total = den
  <2>1. \A a, b \in Nat : a > 0 /\ b >= 1 => a * b \in Nat /\ a * b >= a /\ b * a = a * b
    OBVIOUS
  <2> QED BY <2>1
<1>2. e = IF quotient - short < U32 THEN quotient - short ELSE U32 - 1
  <2>1. total # 0 /\ total > 0 /\ ~(s * total <= 0)
    <3>1. \A a, b \in Nat : a > 0 /\ b > 0 => ~(a * b <= 0)
      OBVIOUS
    <3> QED BY <3>1
  <2> QED BY <2>1 DEF PortionEach
<1> HIDE DEF den
<1>3. quotient \in Nat /\ 100 * s = den * quotient + ((100 * s) % den) /\ (100 * s) % den \in 0..(den - 1)
  <2>1. 100 * s \in Nat /\ 100 * s \in Int /\ den \in Nat \ {0}
    BY <1>1
  <2>2. PICK a \in Nat : a = 100 * s
    BY <2>1
  <2>3. a \div den \in Nat /\ a = den * (a \div den) + (a % den) /\ a % den \in 0..(den - 1)
    <3>1. a \in Int
      OBVIOUS
    <3> HIDE DEF quotient, short
    <3> QED BY <2>1, <3>1, Division
  <2> QED BY <2>2, <2>3
<1> DEFINE r == (100 * s) % den
<1>4. 100 * s = den * quotient + r /\ r \in 0..(den - 1) /\ (short = 0 \/ (short = 1 /\ r = 0))
  <2>1. short = 0 \/ (short = 1 /\ r = 0)
    OBVIOUS
  <2>2. 100 * s = den * quotient + r /\ r \in 0..(den - 1)
    BY <1>3, Zenon
  <2> HIDE DEF quotient, short, r
  <2> QED BY <2>1, <2>2
<1>5. short \in {0, 1}
  OBVIOUS
<1> HIDE DEF quotient, short, r
<1>6. quotient <= 100
  <2> SUFFICES ASSUME quotient >= 101 PROVE FALSE
    BY <1>3
  <2> DEFINE A == den * quotient
  <2>1. A \in Nat /\ A >= den * 101
    BY <1>1, <1>3
  <2>2. 100 * s = A + r /\ r \in Nat
    BY <1>1, <1>4
  <2> HIDE DEF A
  <2> QED BY <1>1, <2>1, <2>2
<1>7. quotient >= 1 \/ short = 0
  <2> SUFFICES ASSUME quotient = 0, short = 1 PROVE FALSE
    BY <1>3, <1>5
  <2>1. den * quotient = 0
    BY <1>1
  <2> QED BY <1>4, <2>1
<1>8. e = quotient - short /\ e \in 0..100
  BY <1>2, <1>3, <1>5, <1>6, <1>7, WidthAssumption
<1>9. e * den = den * quotient - den * short
  BY <1>1, <1>3, <1>5, <1>8
<1>10. (den * short = 0 /\ short = 0) \/ (den * short = den /\ r = 0 /\ short = 1)
  <2>1. den * 0 = 0 /\ den * 1 = den
    BY <1>1
  <2> QED BY <1>4, <2>1
<1>11. den * quotient \in Nat
  BY <1>1, <1>3
<1>12. e * den <= 100 * s /\ 100 * s <= e * den + den
  <2> DEFINE A == den * quotient
             B == den * short
             C == e * den
  <2>1. A \in Nat /\ 100 * s = A + r /\ r \in 0..(den - 1) /\ C = A - B /\ (B = 0 \/ (B = den /\ r = 0))
    BY <1>4, <1>9, <1>10, <1>11
  <2> HIDE DEF A, B, C
  <2>2. C <= 100 * s /\ 100 * s <= C + den
    BY <1>1, <2>1
  <2> QED BY <2>2 DEF C
<1>13. 100 * s > den => e >= 1
  <2> SUFFICES ASSUME 100 * s > den, e = 0 PROVE FALSE
    BY <1>8
  <2>1. e * den = 0
    BY <1>1
  <2> QED BY <1>1, <1>12, <2>1
<1> QED BY <1>1, <1>8, <1>12, <1>13

\* Portions that follow positive scores come to at most 100 draws in all.
LEMMA DrawsBounded ==
  ASSUME NEW pods, NEW each, NEW order, RuleInput(pods, each, order),
         NEW score, IsFiniteSet(DOMAIN score), \A h \in DOMAIN score : score[h] \in Nat,
         NEW total, total = Total(score), total > 0, DOMAIN each \subseteq DOMAIN score,
         \A h \in DOMAIN each : each[h] * (Cardinality(PodsOn(pods, h)) * total) <= 100 * score[h]
  PROVE  DrawsBefore(Len(order) + 1, order, each, pods) <= 100
<1> DEFINE n == Len(order)
           S == DOMAIN score
           d(i) == DrawsBefore(i, order, each, pods)
           w == HostDraws(order, each, pods)
           First(k) == {order[j] : j \in 1..k}
           P == {k \in Nat : k <= n => d(k + 1) * total <= 100 * SumFunctionOnSet(score, First(k))}
<1>1. n \in Nat /\ order \in [1..n -> DOMAIN each] /\ \A i, j \in 1..n : order[i] = order[j] => i = j
  BY InputFacts
<1>2. /\ d(1) = 0 /\ \A i \in 1..(n + 1) : d(i) \in Int
      /\ \A i \in 1..n : w[i] \in Nat /\ d(i + 1) = d(i) + w[i]
  BY DrawsStep
<1>3. \A i \in 1..n : w[i] = each[order[i]] * Cardinality(PodsOn(pods, order[i]))
  BY DEF HostDraws
<1>4. \A T \in SUBSET S : SumFunctionOnSet(score, T) \in Nat /\ SumFunctionOnSet(score, T) <= total
  <2>1. \A T \in SUBSET S : /\ SumFunctionOnSet(score, T) \in Nat
                             /\ SumFunctionOnSet(score, T) <= SumFunctionOnSet(score, S)
    <3>1. S \in SUBSET S
      OBVIOUS
    <3> HIDE DEF P, First
    <3> QED BY <3>1, SumGrows
  <2> QED BY <2>1 DEF Total, SumFunction
<1>5. total \in Nat
  <2>1. S \in SUBSET S
    OBVIOUS
  <2> QED BY <1>4, <2>1 DEF Total, SumFunction
<1>6. \A k \in 0..n : First(k) \in SUBSET S
  BY <1>1
<1> HIDE DEF d, w
<1>7. 0 \in P
  <2>1. First(0) = {}
    OBVIOUS
  <2>2. SumFunctionOnSet(score, {}) \in Nat
    BY <1>4
  <2>3. d(0 + 1) = 0 /\ 0 * total = 0
    BY <1>2, <1>5
  <2> HIDE DEF First
  <2>4. 0 <= 100 * SumFunctionOnSet(score, First(0))
    BY <2>1, <2>2
  <2> QED BY <2>3, <2>4
<1>8. ASSUME NEW k \in P PROVE k + 1 \in P
  <2> SUFFICES ASSUME k + 1 <= n
               PROVE  d((k + 1) + 1) * total <= 100 * SumFunctionOnSet(score, First(k + 1))
    OBVIOUS
  <2> DEFINE h == order[k + 1]
             A == First(k)
             s == SumFunctionOnSet(score, A)
  <2>1. k \in Nat /\ k + 1 \in 1..n /\ k + 1 \in 1..(n + 1) /\ k \in 0..n
    BY <1>1
  <2>2. d(k + 1) * total <= 100 * s
    BY <1>1, <2>1
  <2>3. h \in DOMAIN each /\ h \in S /\ h \notin A /\ A \in SUBSET S
    <3>1. \A j \in 1..k : j \in 1..n /\ j # k + 1
      BY <1>1, <2>1
    <3> QED BY <1>1, <1>6, <2>1, <3>1
  <2>4. First(k + 1) = A \union {h}
    <3>1. 1..(k + 1) = (1..k) \union {k + 1}
      BY <2>1
    <3> QED BY <3>1
  <2> HIDE DEF P, First, A
  <2>5. SumFunctionOnSet(score, A \union {h}) = s + score[h] /\ s \in Nat /\ score[h] \in Nat
    <3>1. \A x \in S : score[x] \in Int
      OBVIOUS
    <3>2. h \in S \ A /\ A \in SUBSET S
      BY <2>3
    <3> HIDE DEF h
    <3>3. SumFunctionOnSet(score, A \union {h}) = SumFunctionOnSet(score, A) + score[h]
      BY <3>1, <3>2, SumStep
    <3> QED BY <1>4, <3>2, <3>3
  <2> DEFINE e == each[h]
             c == Cardinality(PodsOn(pods, h))
  <2>6. e \in Nat /\ c \in Nat /\ e * (c * total) <= 100 * score[h] /\ w[k + 1] = e * c
    <3>1. \A g \in DOMAIN each : each[g] \in Nat
      BY DEF RuleInput
    <3>2. \A g : Cardinality(PodsOn(pods, g)) \in Nat
      BY InputFacts
    <3> QED BY <1>3, <2>1, <2>3, <3>1, <3>2
  <2>7. d((k + 1) + 1) = d(k + 1) + w[k + 1] /\ d(k + 1) \in Int
    BY <1>2, <2>1
  <2> DEFINE x == d(k + 1)
             g == score[h]
  <2>8. (x + e * c) * total <= 100 * (s + g)
    <3>1. x \in Int /\ e \in Nat /\ c \in Nat /\ s \in Nat /\ g \in Nat
          /\ x * total <= 100 * s /\ e * (c * total) <= 100 * g
      BY <2>2, <2>5, <2>6, <2>7
    <3> HIDE DEF x, e, c, s, g
    <3>2. (x + e * c) * total = x * total + e * (c * total)
      BY <1>5, <3>1
    <3>3. x * total \in Int /\ e * (c * total) \in Int
      BY <1>5, <3>1
    <3> QED BY <3>1, <3>2, <3>3
  <2> QED BY <2>4, <2>5, <2>6, <2>7, <2>8
<1>9. Nat \subseteq P
  <2>1. P \in SUBSET Nat
    OBVIOUS
  <2> HIDE DEF P
  <2> QED BY <1>7, <1>8, <2>1, NumbersByInduction
<1>10. d(n + 1) * total <= 100 * SumFunctionOnSet(score, First(n))
  BY <1>1, <1>9
<1>11. SumFunctionOnSet(score, First(n)) \in Nat /\ SumFunctionOnSet(score, First(n)) <= total
  BY <1>1, <1>4, <1>6
<1>12. d(n + 1) \in Int
  BY <1>1, <1>2
<1>13. d(n + 1) <= 100
  <2> DEFINE x == d(n + 1)
             t == SumFunctionOnSet(score, First(n))
  <2>1. x \in Int /\ t \in Nat /\ t <= total /\ x * total <= 100 * t
    BY <1>10, <1>11, <1>12
  <2> HIDE DEF x, t
  <2> SUFFICES ASSUME x >= 101 PROVE FALSE
    BY <2>1 DEF x
  <2>2. x * total >= 101 * total
    BY <1>5, <2>1
  <2> QED BY <1>5, <2>1, <2>2
<1> QED BY <1>13 DEF d

\* Pods at different places are a whole portion apart.
LEMMA PlacesApart ==
  ASSUME NEW a \in Nat, NEW b \in Nat, a < b, NEW e \in Nat
  PROVE  a * e \in Nat /\ b * e \in Nat /\ a * e + e <= b * e
<1>1. PICK k \in Nat : b = a + 1 + k
  <2>1. b - a - 1 \in Nat /\ b = a + 1 + (b - a - 1)
    OBVIOUS
  <2> QED BY <2>1
<1>2. (a + 1 + k) * e = a * e + e + k * e /\ a * e \in Nat /\ k * e \in Nat
  OBVIOUS
<1> QED BY <1>1, <1>2

\* If nothing wraps and every pod has a draw, nft takes the ranges, and they lie
\* between the first draw and the last.
LEMMA RuleTaken ==
  ASSUME NEW pods, NEW each, NEW order, RuleInput(pods, each, order), NEW map,
         map = VerdictMap(order, each, pods), DOMAIN each # {}, \A h \in DOMAIN each : each[h] >= 1,
         DrawsBefore(Len(order) + 1, order, each, pods) < U32
  PROVE  /\ NftAccepts(map, Modulus(order, each, pods))
         /\ Modulus(order, each, pods) = DrawsBefore(Len(order) + 1, order, each, pods)
         /\ \A p \in DOMAIN map :
              /\ map[p][1] \in Nat /\ map[p][2] \in Nat
              /\ map[p][2] < Modulus(order, each, pods)
<1> DEFINE n == Len(order)
           d(i) == DrawsBefore(i, order, each, pods)
           w == HostDraws(order, each, pods)
           count(h) == Cardinality(PodsOn(pods, h))
           place(p) == PlaceOf(p, PodsOn(pods, HostOf[p]))
<1>1. n \in Nat /\ order \in [1..n -> DOMAIN each] /\ U32 \in Nat \ {0} /\ n >= 1
      /\ \A i, j \in 1..n : order[i] = order[j] => i = j
  <2>1. /\ n \in Nat /\ order \in [1..n -> DOMAIN each]
        /\ \A i, j \in 1..n : order[i] = order[j] => i = j
        /\ \A h \in DOMAIN each : \E i \in 1..n : order[i] = h
    BY InputFacts
  <2>2. \E i : i \in 1..n
    BY <2>1
  <2>3. n >= 1
    BY <2>1, <2>2
  <2> QED BY <2>1, <2>3, WidthAssumption
<1>2. /\ d(1) = 0 /\ \A i \in 1..(n + 1) : d(i) \in Int
      /\ \A i \in 1..n : w[i] \in Nat /\ d(i + 1) = d(i) + w[i]
  BY DrawsStep
<1>3. \A i \in 1..n : w[i] = each[order[i]] * count(order[i])
  BY DEF HostDraws
<1>4. \A h \in DOMAIN each : each[h] \in Nat /\ each[h] >= 1 /\ count(h) \in Nat /\ count(h) >= 1
  BY InputFacts DEF RuleInput
<1>5. ASSUME NEW i \in 1..(n + 1), NEW j \in 1..(n + 1), i <= j
      PROVE  d(i) \in Nat /\ d(i) <= d(j)
  <2> DEFINE S == 1..n
             T == 1..(j - 1)
             U == 1..(i - 1)
  <2>1. T \in SUBSET S /\ U \in SUBSET T /\ \A k \in S : w[k] \in Nat
    BY <1>1, <1>2, <1>5
  <2>2. IsFiniteSet(S)
    BY <1>1, FS_Interval
  <2>3. SumFunctionOnSet(w, U) \in Nat /\ SumFunctionOnSet(w, U) <= SumFunctionOnSet(w, T)
    <3> HIDE DEF S, T, U, w
    <3> QED BY <2>1, <2>2, SumGrows
  <2> QED BY <2>3 DEF DrawsBefore
<1>6. \A i \in 1..(n + 1) : StartRange(order, each, pods)[i] = d(i) % U32
  BY StartIsDraws
<1>7. \A i \in 1..(n + 1) : d(i) \in 0..(U32 - 1) /\ d(i) % U32 = d(i)
  <2> SUFFICES ASSUME NEW i \in 1..(n + 1) PROVE d(i) \in 0..(U32 - 1) /\ d(i) % U32 = d(i)
    OBVIOUS
  <2>1. i <= n + 1 /\ n + 1 \in 1..(n + 1)
    BY <1>1
  <2>2. d(i) \in Nat /\ d(i) <= d(n + 1) /\ d(n + 1) < U32
    BY <1>5, <2>1
  <2>3. PICK x \in Nat : x = d(i)
    BY <2>2
  <2>4. x < U32
    BY <1>1, <1>2, <2>1, <2>2, <2>3
  <2>5. x % U32 = x
    BY <1>1, <2>4
  <2> QED BY <1>1, <2>3, <2>4, <2>5
<1> HIDE DEF d, w
<1>8. DOMAIN map = {p \in pods : HostOf[p] \in DOMAIN each}
  BY DEF VerdictMap
<1>9. ASSUME NEW p \in DOMAIN map
      PROVE  \E i \in 1..n :
               /\ order[i] = HostOf[p] /\ place(p) \in 0..(count(HostOf[p]) - 1)
               /\ map[p][1] = d(i) + place(p) * each[HostOf[p]]
               /\ map[p][2] = map[p][1] + each[HostOf[p]] - 1
               /\ d(i) <= map[p][1] /\ map[p][2] < d(i + 1)
               /\ map[p][1] \in Int /\ map[p][2] \in Int
  <2>1. p \in pods /\ HostOf[p] \in DOMAIN each
    BY <1>8
  <2>2. PICK i \in 1..n : Ranged(p, i, order, each, pods)
    BY <2>1, RangeFacts
  <2> DEFINE e == each[HostOf[p]]
             c == count(HostOf[p])
             a == place(p)
             x == d(i) + a * e
  <2>3. order[i] = HostOf[p]
    BY <2>2 DEF Ranged
  <2>4. a \in 0..(c - 1)
    <3>1. p \in PodsOn(pods, HostOf[p])
      BY <2>1 DEF PodsOn
    <3>2. IsFiniteSet(PodsOn(pods, HostOf[p]))
      BY InputFacts
    <3> QED BY <3>1, <3>2, PlaceFacts
  <2>5. i \in 1..(n + 1) /\ i + 1 \in 1..(n + 1)
    BY <1>1
  <2>6. FirstDraw(p, i, order, each, pods) = x
    BY <1>6, <1>7, <2>5 DEF FirstDraw
  <2>7. map[p] = <<x % U32, (x + e - 1) % U32>>
    BY <2>2, <2>6 DEF Ranged, RangeFrom
  <2>8. e \in Nat /\ e >= 1 /\ c \in Nat /\ c >= 1
    BY <1>4, <2>1
  <2>9. d(i + 1) = d(i) + e * c
    BY <1>2, <1>3, <2>3
  <2>10. d(i) \in 0..(U32 - 1) /\ d(i + 1) \in 0..(U32 - 1)
    BY <1>7, <2>5
  <2>11. a * e \in Nat /\ a * e + e <= e * c
    <3> HIDE DEF a, e, c
    <3>1. a \in Nat /\ a + 1 <= c
      BY <2>4, <2>8
    <3>2. (a + 1) * e <= c * e
      BY <2>8, <3>1
    <3>3. (a + 1) * e = a * e + e /\ c * e = e * c /\ a * e \in Nat
      BY <2>8, <3>1
    <3> QED BY <3>2, <3>3
  <2> DEFINE y == x + e - 1
             u == d(i)
             v == d(i + 1)
             b == a * e
             q == e * c
  <2>12. /\ x = u + b /\ v = u + q /\ u \in 0..(U32 - 1) /\ v \in 0..(U32 - 1)
         /\ b \in Nat /\ b + e <= q /\ q \in Nat
    BY <2>8, <2>9, <2>10, <2>11
  <2>13. u <= x /\ x \in 0..(U32 - 1) /\ y \in 0..(U32 - 1) /\ y < v /\ y = x + e - 1
    <3>1. y = x + e - 1
      OBVIOUS
    <3>2. e \in Nat /\ e >= 1
      BY <2>8
    <3> HIDE DEF x, y, u, v, b, q, e
    <3>3. u <= x /\ x + e <= v /\ x \in Nat /\ v < U32
      BY <1>1, <2>12, <3>2
    <3> QED BY <1>1, <2>12, <3>1, <3>2, <3>3
  <2>14. x % U32 = x /\ y % U32 = y
    <3>1. \A z \in 0..(U32 - 1) : z % U32 = z
      BY <1>1
    <3>2. x \in 0..(U32 - 1) /\ y \in 0..(U32 - 1)
      BY <2>13
    <3> HIDE DEF x, y
    <3> QED BY <3>1, <3>2
  <2>15. map[p][1] = x /\ map[p][2] = y
    BY <2>7, <2>14
  <2> QED BY <2>3, <2>4, <2>13, <2>15
<1>10. \A p \in DOMAIN map : map[p][1] \in Int /\ map[p][2] \in Int
  BY <1>9
<1>11. \A p \in DOMAIN map : map[p][1] <= map[p][2]
  <2> SUFFICES ASSUME NEW p \in DOMAIN map PROVE map[p][1] <= map[p][2]
    OBVIOUS
  <2>1. PICK i \in 1..n : /\ map[p][1] = d(i) + place(p) * each[HostOf[p]]
                          /\ map[p][2] = map[p][1] + each[HostOf[p]] - 1
                          /\ place(p) \in 0..(count(HostOf[p]) - 1)
    BY <1>9
  <2>2. each[HostOf[p]] \in Nat /\ each[HostOf[p]] >= 1 /\ place(p) \in Nat /\ d(i) \in Int
    BY <1>1, <1>2, <1>4, <1>8, <2>1
  <2>3. place(p) * each[HostOf[p]] \in Int
    BY <2>2
  <2> HIDE DEF place
  <2> QED BY <2>1, <2>2, <2>3
<1>12. ASSUME NEW p \in DOMAIN map, NEW q \in DOMAIN map, p # q
       PROVE  map[p][2] < map[q][1] \/ map[q][2] < map[p][1]
  <2>1. PICK i \in 1..n :
          /\ order[i] = HostOf[p] /\ place(p) \in 0..(count(HostOf[p]) - 1)
          /\ map[p][1] = d(i) + place(p) * each[HostOf[p]]
          /\ map[p][2] = map[p][1] + each[HostOf[p]] - 1
          /\ d(i) <= map[p][1] /\ map[p][2] < d(i + 1)
    BY <1>9
  <2>2. PICK j \in 1..n :
          /\ order[j] = HostOf[q] /\ place(q) \in 0..(count(HostOf[q]) - 1)
          /\ map[q][1] = d(j) + place(q) * each[HostOf[q]]
          /\ map[q][2] = map[q][1] + each[HostOf[q]] - 1
          /\ d(j) <= map[q][1] /\ map[q][2] < d(j + 1)
    BY <1>9
  <2>3. /\ each[HostOf[p]] \in Nat /\ each[HostOf[p]] >= 1 /\ place(p) \in Nat
        /\ each[HostOf[q]] \in Nat /\ place(q) \in Nat
    <3>1. HostOf[p] \in DOMAIN each /\ HostOf[q] \in DOMAIN each
      BY <1>8
    <3>2. /\ each[HostOf[p]] \in Nat /\ each[HostOf[p]] >= 1 /\ each[HostOf[q]] \in Nat
          /\ count(HostOf[p]) \in Nat /\ count(HostOf[q]) \in Nat
      BY <1>4, <3>1
    <3>3. place(p) \in 0..(count(HostOf[p]) - 1) /\ place(q) \in 0..(count(HostOf[q]) - 1)
      BY <2>1, <2>2
    <3> HIDE DEF place, count
    <3> QED BY <3>2, <3>3
  <2>4. /\ i \in 1..(n + 1) /\ j \in 1..(n + 1) /\ i + 1 \in 1..(n + 1) /\ j + 1 \in 1..(n + 1)
        /\ d(i) \in Int /\ d(j) \in Int /\ d(i + 1) \in Int /\ d(j + 1) \in Int
    BY <1>1, <1>2
  <2>5. map[p][1] \in Int /\ map[p][2] \in Int /\ map[q][1] \in Int /\ map[q][2] \in Int
    BY <1>10
  <2>6. \A k, l, m, o \in Int : k < l /\ l <= m /\ m <= o => k < o
    OBVIOUS
  <2>7. CASE i < j
    <3>1. d(i + 1) <= d(j)
      BY <1>5, <2>4, <2>7
    <3>2. map[p][2] < d(i + 1) /\ d(j) <= map[q][1]
      BY <2>1, <2>2
    <3>3. map[p][2] < map[q][1]
      BY <2>4, <2>5, <2>6, <3>1, <3>2
    <3> QED BY <3>3
  <2>8. CASE j < i
    <3>1. d(j + 1) <= d(i)
      BY <1>5, <2>4, <2>8
    <3>2. map[q][2] < d(j + 1) /\ d(i) <= map[p][1]
      BY <2>1, <2>2
    <3>3. map[q][2] < map[p][1]
      BY <2>4, <2>5, <2>6, <3>1, <3>2
    <3> QED BY <3>3
  <2>9. CASE i = j
    <3>1. HostOf[p] = HostOf[q]
      BY <2>1, <2>2, <2>9
    <3>2. place(p) # place(q)
      <4>1. p \in PodsOn(pods, HostOf[p]) /\ q \in PodsOn(pods, HostOf[p])
        BY <1>8, <3>1 DEF PodsOn
      <4>2. IsFiniteSet(PodsOn(pods, HostOf[p]))
        BY InputFacts
      <4> QED BY <1>12, <3>1, <4>1, <4>2, PlaceFacts
    <3> DEFINE a == place(p)
               b == place(q)
               e == each[HostOf[p]]
               u == d(i)
    <3>3. /\ a \in Nat /\ b \in Nat /\ e \in Nat /\ e >= 1 /\ u \in Int /\ a # b
          /\ map[p][1] = u + a * e /\ map[p][2] = map[p][1] + e - 1
          /\ map[q][1] = u + b * e /\ map[q][2] = map[q][1] + e - 1
      BY <2>1, <2>2, <2>3, <2>4, <2>9, <3>1, <3>2
    <3> HIDE DEF a, b, e, u
    <3>4. a \in Nat /\ b \in Nat /\ e \in Nat /\ (a < b \/ b < a)
      BY <3>3
    <3> DEFINE f == a * e
               g == b * e
    <3>5. a < b => f \in Nat /\ g \in Nat /\ f + e <= g
      BY <3>4, PlacesApart
    <3>6. b < a => f \in Nat /\ g \in Nat /\ g + e <= f
      BY <3>4, PlacesApart
    <3>7. f \in Nat /\ g \in Nat /\ (f + e <= g \/ g + e <= f)
      BY <3>4, <3>5, <3>6, Zenon
    <3>8. /\ map[p][1] = u + f /\ map[p][2] = map[p][1] + e - 1
          /\ map[q][1] = u + g /\ map[q][2] = map[q][1] + e - 1
      BY <3>3
    <3>9. e \in Nat /\ e >= 1 /\ u \in Int
      BY <3>3
    <3> HIDE DEF f, g
    <3>10. map[p][1] = u + f /\ map[p][2] = u + f + e - 1
      BY <3>8
    <3>11. map[q][1] = u + g /\ map[q][2] = u + g + e - 1
      BY <3>8
    <3>12. u + f + e - 1 < u + g \/ u + g + e - 1 < u + f
      BY <3>7, <3>9
    <3> QED BY <3>10, <3>11, <3>12
  <2>10. i < j \/ j < i \/ i = j
    BY <2>4
  <2> QED BY <2>7, <2>8, <2>9, <2>10
<1>13. Modulus(order, each, pods) = d(n + 1)
  <2>1. n + 1 \in 1..(n + 1)
    BY <1>1
  <2> QED BY <1>6, <1>7, <2>1 DEF Modulus
<1>14. Modulus(order, each, pods) > 0
  <2>1. 1 \in 1..n /\ 1 + 1 \in 1..(n + 1) /\ n + 1 \in 1..(n + 1) /\ 1 + 1 <= n + 1
    BY <1>1
  <2>2. Modulus(order, each, pods) = d(n + 1)
    BY <1>13
  <2>3. d(1 + 1) = 0 + w[1] /\ w[1] = each[order[1]] * count(order[1])
    BY <1>2, <1>3, <2>1
  <2>4. w[1] >= 1
    <3>1. \A a, b \in Nat : a >= 1 /\ b >= 1 => a * b >= 1
      OBVIOUS
    <3> QED BY <1>1, <1>4, <2>1, <2>3, <3>1
  <2>5. d(1 + 1) <= d(n + 1) /\ w[1] \in Nat /\ d(n + 1) \in Int
    BY <1>2, <1>5, <2>1
  <2> QED BY <2>2, <2>3, <2>4, <2>5
<1>15. ASSUME NEW p \in DOMAIN map
       PROVE  map[p][1] \in Nat /\ map[p][2] \in Nat /\ map[p][2] < d(n + 1)
  <2> DEFINE a == map[p][1]
             b == map[p][2]
  <2>1. PICK i \in 1..n : d(i) <= a /\ b < d(i + 1) /\ a \in Int /\ b \in Int
    BY <1>9
  <2>2. a <= b
    BY <1>11
  <2>3. i \in 1..(n + 1) /\ i + 1 \in 1..(n + 1) /\ n + 1 \in 1..(n + 1) /\ i + 1 <= n + 1
    BY <1>1
  <2>4. d(i) \in Nat /\ d(i + 1) <= d(n + 1) /\ d(i + 1) \in Int /\ d(n + 1) \in Int
    BY <1>2, <1>5, <2>3
  <2> HIDE DEF a, b
  <2>5. a \in Nat /\ b \in Nat /\ b < d(n + 1)
    BY <2>1, <2>2, <2>4
  <2> QED BY <2>5 DEF a, b
<1>16. NftAccepts(map, Modulus(order, each, pods))
  BY <1>11, <1>12, <1>14 DEF NftAccepts
<1> QED BY <1>13, <1>15, <1>16 DEF d

\* A rule that nft takes was given out without a wrap, with a draw for each pod.
LEMMA NothingWraps ==
  ASSUME NEW pods, NEW each, NEW order, RuleInput(pods, each, order),
         \A h \in DOMAIN each : each[h] < U32, NEW map, map = VerdictMap(order, each, pods),
         NftAccepts(map, Modulus(order, each, pods))
  PROVE  /\ DOMAIN each # {} /\ \A h \in DOMAIN each : each[h] >= 1
         /\ DrawsBefore(Len(order) + 1, order, each, pods) < U32
<1> DEFINE n == Len(order)
           d(i) == DrawsBefore(i, order, each, pods)
           modulus == Modulus(order, each, pods)
           z == Sizes(map)
<1>1. /\ DOMAIN map = {p \in pods : HostOf[p] \in DOMAIN each}
      /\ \A p \in DOMAIN map : z[p] \in Int
  BY SizeFacts DEF Sized
<1>2. \A p \in DOMAIN map : z[p] = each[HostOf[p]] /\ z[p] \in 1..U32
  <2> SUFFICES ASSUME NEW p \in DOMAIN map PROVE z[p] = each[HostOf[p]] /\ z[p] \in 1..U32
    OBVIOUS
  <2>1. each[HostOf[p]] < U32
    BY <1>1
  <2> QED BY <2>1, SizeExact, RangesFit
<1>3. SumFunction(z) = modulus /\ modulus \in 1..(U32 - 1)
  BY RuleLands
<1>4. n \in Nat /\ d(1) = 0 /\ d(n + 1) \in Int
  <2>1. n \in Nat /\ n + 1 \in 1..(n + 1)
    BY InputFacts
  <2> QED BY <2>1, DrawsStep
<1>5. SumFunction(z) = d(n + 1)
  <2>1. \A p \in DOMAIN map : SameModulo(0, z[p], each[HostOf[p]])
    BY <1>1, <1>2, SameItself
  <2>2. SumFunction(z) \in Int /\ SameModulo(0, SumFunction(z), d(n + 1))
    <3>1. 0 \in Nat
      OBVIOUS
    <3> QED BY <2>1, <3>1, SizesAddUp
  <2>3. \E k \in Int : SumFunction(z) = d(n + 1) + k * 0
    BY <2>2 DEF SameModulo
  <2>4. \A k \in Int : k * 0 = 0
    OBVIOUS
  <2> HIDE DEF z, d, n
  <2> QED BY <1>4, <2>2, <2>3, <2>4
<1>6. DOMAIN each # {}
  <2> SUFFICES ASSUME DOMAIN each = {} PROVE FALSE
    OBVIOUS
  <2>1. order \in [1..n -> {}]
    BY InputFacts
  <2>2. n = 0
    <3> HIDE DEF n
    <3>1. 1 \notin 1..n
      BY <2>1
    <3> QED BY <1>4, <3>1
  <2>3. d(n + 1) = 0
    BY <1>4, <2>2
  <2> HIDE DEF d, n, modulus, z
  <2> QED BY <1>3, <1>5, <2>3
<1>7. ASSUME NEW h \in DOMAIN each PROVE each[h] >= 1
  <2>1. PICK p \in pods : HostOf[p] = h
    BY DEF RuleInput, HostsOf
  <2>2. each[h] \in 1..U32
    BY <1>1, <1>2, <2>1
  <2> QED BY <2>2, WidthAssumption
<1>8. d(n + 1) < U32
  <2> HIDE DEF d, n, modulus, z
  <2> QED BY <1>3, <1>5, WidthAssumption
<1> QED BY <1>6, <1>7, <1>8

\* Every draw of a rule that nft takes has one pod, and no other draw has one.
LEMMA RuleCovers ==
  ASSUME NEW pods, NEW each, NEW order, RuleInput(pods, each, order),
         \A h \in DOMAIN each : each[h] < U32, NEW map, map = VerdictMap(order, each, pods),
         NEW modulus, modulus = Modulus(order, each, pods), NftAccepts(map, modulus)
  PROVE  /\ \A draw \in 0..(modulus - 1) : \E p \in DOMAIN map : LandsOn(map, draw) = {p}
         /\ \A p \in DOMAIN map : map[p][2] < modulus
<1> DEFINE Draws == 0..(modulus - 1)
           Run(p) == map[p][1]..map[p][2]
<1>1. \A p \in DOMAIN map : map[p][1] \in Nat /\ map[p][2] \in Nat /\ map[p][2] < modulus
  BY NothingWraps, RuleTaken
<1>2. /\ modulus \in Nat /\ modulus > 0
      /\ IsFiniteSet(Covered(map)) /\ Cardinality(Covered(map)) = modulus
  <2>1. SumFunction(Sizes(map)) = modulus /\ modulus \in 1..(U32 - 1)
    BY RuleLands
  <2>2. IsFiniteSet(Covered(map)) /\ Cardinality(Covered(map)) = SumFunction(Sizes(map))
    BY RangesFit
  <2> QED BY <2>1, <2>2, WidthAssumption
<1>3. Covered(map) \in SUBSET Draws
  <2> SUFFICES ASSUME NEW p \in DOMAIN map PROVE Run(p) \subseteq Draws
    BY DEF Covered
  <2> DEFINE a == map[p][1]
             b == map[p][2]
  <2>1. a \in Nat /\ b \in Nat /\ b < modulus
    BY <1>1
  <2> HIDE DEF a, b
  <2>2. a..b \subseteq 0..(modulus - 1)
    BY <1>2, <2>1
  <2> QED BY <2>2 DEF a, b
<1>4. IsFiniteSet(Draws) /\ Cardinality(Draws) = modulus
  <2>1. 0 \in Int /\ modulus - 1 \in Int /\ modulus - 1 - 0 + 1 = modulus /\ 0 <= modulus - 1
    BY <1>2
  <2> QED BY <2>1, FS_Interval
<1>5. Draws = Covered(map)
  <2> HIDE DEF Draws
  <2> QED BY <1>2, <1>3, <1>4, FS_Subset
<1>6. ASSUME NEW draw \in Draws PROVE \E p \in DOMAIN map : LandsOn(map, draw) = {p}
  <2>1. PICK p \in DOMAIN map : draw \in Run(p)
    BY <1>5 DEF Covered
  <2>2. ASSUME NEW q \in DOMAIN map, draw \in Run(q) PROVE q = p
    <3> SUFFICES ASSUME q # p PROVE FALSE
      OBVIOUS
    <3>1. map[p][2] < map[q][1] \/ map[q][2] < map[p][1]
      BY DEF NftAccepts
    <3> DEFINE a == map[p][1]
               b == map[p][2]
               u == map[q][1]
               v == map[q][2]
    <3>2. /\ a \in Nat /\ b \in Nat /\ u \in Nat /\ v \in Nat /\ (b < u \/ v < a)
          /\ draw \in a..b /\ draw \in u..v
      BY <1>1, <2>1, <2>2, <3>1
    <3> HIDE DEF a, b, u, v
    <3> QED BY <3>2
  <2>3. LandsOn(map, draw) = {p}
    BY <2>1, <2>2 DEF LandsOn
  <2> QED BY <2>3
<1> QED BY <1>1, <1>6
-----------------------------------------------------------------------------
\* The scores of a state are integers, one for each of finitely many hosts.
LEMMA ScoresTyped ==
  ASSUME TypeOK
  PROVE  /\ IsFiniteSet(DOMAIN ScoresNow) /\ DOMAIN ScoresNow \subseteq Host
         /\ \A h \in DOMAIN ScoresNow : ScoresNow[h] \in Int
         /\ Total(ScoresNow) \in Int
         /\ \A s \in Known : services[s].pods \in SUBSET Pod /\ IsFiniteSet(services[s].pods)
<1> DEFINE D == Scored(KnownHosts, cpu, latency)
<1>1. ASSUME NEW s \in Known PROVE services[s].pods \in SUBSET Pod /\ IsFiniteSet(services[s].pods)
  <2>1. services[s].pods \in SUBSET Pod
    BY DEF Known, TypeOK, Entry
  <2> QED BY <2>1, ClusterAssumption, FS_Subset
<1>2. KnownHosts \subseteq HostsOf(Pod) /\ HostsOf(Pod) \subseteq Host
  BY <1>1, ClusterAssumption DEF KnownHosts, HostsOf
<1>3. IsFiniteSet(HostsOf(Pod))
  BY ClusterAssumption, HostsFinite
<1>4. D \subseteq KnownHosts
  BY DEF Scored
<1>5. IsFiniteSet(D) /\ D \subseteq Host
  BY <1>2, <1>3, <1>4, FS_Subset
<1>6. ScoresNow = [h \in D |-> cpu[h] + latency[h]]
  BY DEF ScoresNow, HostScores
<1>7. ASSUME NEW h \in D PROVE ScoresNow[h] \in Int
  <2>1. h \in Host /\ cpu[h] # NoScore /\ latency[h] # NoScore
    BY <1>5 DEF Scored
  <2>2. cpu[h] \in Int
    BY <2>1, EwmaAssumption DEF TypeOK
  <2>3. latency[h] \in Int
    BY <2>1, EwmaAssumption DEF TypeOK, NoScores
  <2> QED BY <1>6, <2>2, <2>3
<1>8. DOMAIN ScoresNow = D
  BY <1>6
<1>9. Total(ScoresNow) \in Int
  <2>1. DOMAIN ScoresNow \in SUBSET DOMAIN ScoresNow
    OBVIOUS
  <2> QED BY <1>5, <1>7, <1>8, <2>1, SumStep DEF Total, SumFunction
<1> QED BY <1>1, <1>5, <1>7, <1>8, <1>9

\* A rule that the reconciler may compute, and what it is computed from.
Computed(rule, pods, each, order) ==
  /\ RuleInput(pods, each, order)
  /\ DOMAIN each = HostsOf(pods) \intersect DOMAIN ScoresNow
  /\ \A h \in DOMAIN each : \E lost \in BOOLEAN :
       each[h] = PortionEach(ScoresNow[h], Total(ScoresNow), Cardinality(PodsOn(pods, h)), lost)
  /\ rule.map = VerdictMap(order, each, pods)
  /\ rule.modulus = Modulus(order, each, pods)

\* Every rule of a service is computed like that.
LEMMA RuleOfService ==
  ASSUME TypeOK, NEW s \in Known, NEW rule \in RulesFor(s, ScoresNow)
  PROVE  \E each, order : Computed(rule, services[s].pods, each, order)
<1> DEFINE pods == services[s].pods
           score == ScoresNow
           hosts == HostsOf(pods) \intersect DOMAIN score
<1>1. PICK lost \in SUBSET DOMAIN score, order \in Orders(hosts) :
        rule = [modulus |-> Modulus(order, Portions(pods, score, lost), pods),
                map |-> VerdictMap(order, Portions(pods, score, lost), pods)]
  BY DEF RulesFor
<1>2. PICK each : each = Portions(pods, score, lost)
  OBVIOUS
<1>3. /\ DOMAIN each = hosts
      /\ \A h \in hosts :
           each[h] = PortionEach(score[h], Total(score), Cardinality(PodsOn(pods, h)), h \in lost)
  BY <1>2 DEF Portions
<1>4. rule.map = VerdictMap(order, each, pods) /\ rule.modulus = Modulus(order, each, pods)
  BY <1>1, <1>2
<1>5. pods \in SUBSET Pod /\ IsFiniteSet(pods)
  BY ScoresTyped
<1>6. \A h \in hosts : each[h] \in Nat
  <2> SUFFICES ASSUME NEW h \in hosts PROVE each[h] \in Nat
    OBVIOUS
  <2>1. score[h] \in Int /\ Total(score) \in Int
    BY ScoresTyped
  <2>2. PodsOn(pods, h) \subseteq pods /\ \E p : p \in PodsOn(pods, h)
    BY DEF PodsOn, HostsOf
  <2>3. IsFiniteSet(PodsOn(pods, h)) /\ PodsOn(pods, h) # {}
    BY <1>5, <2>2, FS_Subset
  <2>4. Cardinality(PodsOn(pods, h)) \in Nat /\ Cardinality(PodsOn(pods, h)) # 0
    BY <2>3, FS_CardinalityType, FS_EmptySet
  <2>5. Cardinality(PodsOn(pods, h)) >= 1
    BY <2>4
  <2> QED BY <1>3, <2>1, <2>4, <2>5, PortionTyped
<1>7. RuleInput(pods, each, order)
  BY <1>1, <1>3, <1>5, <1>6 DEF RuleInput
<1>8. \A h \in DOMAIN each : \E l \in BOOLEAN :
        each[h] = PortionEach(score[h], Total(score), Cardinality(PodsOn(pods, h)), l)
  <2> SUFFICES ASSUME NEW h \in hosts
               PROVE  \E l \in BOOLEAN :
                 each[h] = PortionEach(score[h], Total(score), Cardinality(PodsOn(pods, h)), l)
    BY <1>3
  <2> WITNESS (h \in lost) \in BOOLEAN
  <2> QED BY <1>3
<1> QED BY <1>3, <1>4, <1>7, <1>8 DEF Computed

\* In a state of the right type, every draw has a pod.
LEMMA DrawsLand == TypeOK => EveryDrawLands
<1> SUFFICES ASSUME TypeOK, NEW s \in Known, NEW rule \in RulesFor(s, ScoresNow),
                    NftAccepts(rule.map, rule.modulus)
             PROVE  /\ \A draw \in 0..(rule.modulus - 1) :
                         \E p \in DOMAIN rule.map : LandsOn(rule.map, draw) = {p}
                    /\ \A p \in DOMAIN rule.map : rule.map[p][2] < rule.modulus
  BY DEF EveryDrawLands
<1> DEFINE pods == services[s].pods
<1>1. PICK each, order : Computed(rule, pods, each, order)
  BY RuleOfService
<1>2. /\ RuleInput(pods, each, order) /\ rule.map = VerdictMap(order, each, pods)
      /\ rule.modulus = Modulus(order, each, pods) /\ DOMAIN each \subseteq DOMAIN ScoresNow
  BY <1>1 DEF Computed
<1>3. ASSUME NEW h \in DOMAIN each PROVE each[h] < U32
  <2>1. PICK lost \in BOOLEAN :
          each[h] = PortionEach(ScoresNow[h], Total(ScoresNow), Cardinality(PodsOn(pods, h)), lost)
    BY <1>1 DEF Computed
  <2>2. Cardinality(PodsOn(pods, h)) \in Nat /\ Cardinality(PodsOn(pods, h)) >= 1
    BY <1>2, InputFacts
  <2>3. ScoresNow[h] \in Int /\ Total(ScoresNow) \in Int
    BY <1>2, ScoresTyped
  <2> QED BY <2>1, <2>2, <2>3, PortionTyped
<1> HIDE DEF pods
<1> QED BY <1>2, <1>3, RuleCovers

\* With positive scores every portion is the host's percentage, rounded down.
Shared(each, pods, score, total) ==
  \A h \in DOMAIN each :
    /\ each[h] \in 0..100
    /\ each[h] * (Cardinality(PodsOn(pods, h)) * total) <= 100 * score[h]
    /\ 100 * score[h] <= each[h] * (Cardinality(PodsOn(pods, h)) * total)
                          + Cardinality(PodsOn(pods, h)) * total
    /\ 100 * score[h] > Cardinality(PodsOn(pods, h)) * total => each[h] >= 1

\* They are so in every rule, and come to at most 100 draws.
LEMMA PortionsShared ==
  ASSUME TypeOK, \A h \in DOMAIN ScoresNow : ScoresNow[h] > 0,
         NEW pods, NEW each, NEW order, NEW rule, Computed(rule, pods, each, order), DOMAIN each # {}
  PROVE  /\ Shared(each, pods, ScoresNow, Total(ScoresNow))
         /\ Total(ScoresNow) \in Nat /\ Total(ScoresNow) > 0
         /\ DrawsBefore(Len(order) + 1, order, each, pods) <= 100
<1> DEFINE score == ScoresNow
           total == Total(ScoresNow)
           D == DOMAIN score
           n(h) == Cardinality(PodsOn(pods, h))
<1>1. RuleInput(pods, each, order) /\ DOMAIN each \subseteq D
  BY DEF Computed
<1>2. IsFiniteSet(D) /\ \A h \in D : score[h] \in Nat /\ score[h] > 0
  <2>1. IsFiniteSet(D) /\ \A h \in D : score[h] \in Int
    BY ScoresTyped
  <2> QED BY <2>1
<1>3. ASSUME NEW h \in D PROVE total \in Nat /\ score[h] <= total
  <2>1. D \in SUBSET D /\ {h} \in SUBSET D /\ {} \in SUBSET D /\ h \in D \ {} /\ {} \union {h} = {h}
    OBVIOUS
  <2>2. \A x \in D : score[x] \in Nat /\ score[x] \in Int
    BY <1>2
  <2>3. SumFunctionOnSet(score, {h}) <= SumFunctionOnSet(score, D) /\ SumFunctionOnSet(score, D) \in Nat
    BY <1>2, <2>1, <2>2, SumGrows
  <2>4. /\ SumFunctionOnSet(score, {}) = 0
        /\ SumFunctionOnSet(score, {} \union {h}) = SumFunctionOnSet(score, {}) + score[h]
    BY <1>2, <2>1, <2>2, SumStep
  <2>5. SumFunctionOnSet(score, {h}) = 0 + score[h]
    BY <2>1, <2>4, Zenon
  <2> QED BY <2>2, <2>3, <2>5 DEF Total, SumFunction
<1>4. total \in Nat /\ total > 0
  <2>1. PICK h : h \in DOMAIN each
    OBVIOUS
  <2>2. h \in D
    BY <1>1, <2>1
  <2>3. total \in Nat /\ score[h] <= total /\ score[h] \in Nat /\ score[h] > 0
    BY <1>2, <1>3, <2>2
  <2> HIDE DEF total, score
  <2> QED BY <2>3
<1>5. ASSUME NEW h \in DOMAIN each
      PROVE  /\ each[h] \in 0..100 /\ each[h] * (n(h) * total) <= 100 * score[h]
             /\ 100 * score[h] <= each[h] * (n(h) * total) + n(h) * total
             /\ 100 * score[h] > n(h) * total => each[h] >= 1
  <2>1. PICK lost \in BOOLEAN : each[h] = PortionEach(score[h], total, n(h), lost)
    BY DEF Computed
  <2>2. n(h) \in Nat /\ n(h) >= 1
    BY <1>1, InputFacts
  <2>3. score[h] \in Nat /\ score[h] > 0 /\ score[h] <= total
    BY <1>1, <1>2, <1>3
  <2> HIDE DEF n, score, total
  <2> QED BY <1>4, <2>1, <2>2, <2>3, PortionShare
<1>6. Shared(each, pods, score, total)
  BY <1>5 DEF Shared
<1>7. DrawsBefore(Len(order) + 1, order, each, pods) <= 100
  <2>1. \A h \in D : score[h] \in Nat
    BY <1>2
  <2>2. \A h \in DOMAIN each : each[h] * (n(h) * total) <= 100 * score[h]
    BY <1>5
  <2>3. total = Total(score)
    OBVIOUS
  <2> HIDE DEF score, total
  <2> QED BY <1>1, <1>2, <1>4, <2>1, <2>2, <2>3, DrawsBounded
<1> QED BY <1>4, <1>6, <1>7

\* A host gets the portion of each of its pods, in a rule that nft takes.
LEMMA SlotsOfHost ==
  ASSUME NEW pods, NEW each, NEW order, RuleInput(pods, each, order), NEW map,
         map = VerdictMap(order, each, pods), NftAccepts(map, Modulus(order, each, pods)),
         NEW h \in DOMAIN each, each[h] \in 0..100
  PROVE  Slots(map, h) = each[h] * Cardinality(PodsOn(pods, h))
<1> DEFINE z == Sizes(map)
           D == DOMAIN map
           C == {p \in D : HostOf[p] = h}
           e == each[h]
<1>1. Sized(map, each, pods)
  BY SizeFacts
<1>2. C = PodsOn(pods, h) /\ C \in SUBSET D
  BY <1>1 DEF Sized, PodsOn
<1>3. IsFiniteSet(D) /\ \A p \in D : z[p] \in Int
  BY <1>1 DEF Sized
<1>4. ASSUME NEW p \in C PROVE z[p] = e
  <2>1. p \in D /\ HostOf[p] = h /\ each[HostOf[p]] < U32
    BY WidthAssumption
  <2> QED BY <2>1, SizeExact
<1>5. \A p \in C : SameModulo(0, z[p], e)
  BY <1>4, SameItself
<1>6. {} \in SUBSET D /\ {} \intersect C = {} /\ {} \union C = C
  OBVIOUS
<1>7. SumFunctionOnSet(z, {}) = 0 /\ SumFunctionOnSet(z, C) \in Int
  BY <1>2, <1>3, SumStep
<1>8. /\ Cardinality(C) \in Nat
      /\ SameModulo(0, SumFunctionOnSet(z, {} \union C), SumFunctionOnSet(z, {}) + e * Cardinality(C))
  <2> HIDE DEF z, C, D
  <2>1. 0 \in Nat /\ e \in Int
    OBVIOUS
  <2> HIDE DEF e
  <2> QED BY <1>2, <1>3, <1>5, <1>6, <2>1, UniformSum
<1>9. SumFunctionOnSet(z, C) = e * Cardinality(C)
  <2> HIDE DEF z, C, D
  <2>1. SameModulo(0, SumFunctionOnSet(z, C), 0 + e * Cardinality(C))
    BY <1>6, <1>7, <1>8, Zenon
  <2>2. \E k \in Int : SumFunctionOnSet(z, C) = (0 + e * Cardinality(C)) + k * 0
    BY <2>1 DEF SameModulo
  <2> DEFINE x == e * Cardinality(C)
  <2>3. x \in Int /\ \E k \in Int : SumFunctionOnSet(z, C) = (0 + x) + k * 0
    BY <1>8, <2>2
  <2>4. \A k \in Int : k * 0 = 0
    OBVIOUS
  <2> HIDE DEF x, e
  <2>5. SumFunctionOnSet(z, C) = x
    BY <1>7, <2>3, <2>4
  <2> QED BY <2>5 DEF x
<1> QED BY <1>2, <1>9 DEF Slots

\* In a state of the right type, the shares follow the scores.
LEMMA SharesFollow == TypeOK => SharesFollowScores
<1> SUFFICES ASSUME TypeOK, \A h \in DOMAIN ScoresNow : ScoresNow[h] > 0,
                    NEW s \in Known, NEW rule \in RulesFor(s, ScoresNow),
                    NEW hosts, hosts = HostsOf(services[s].pods) \intersect DOMAIN ScoresNow
             PROVE  LET exact(h) == 100 * ScoresNow[h]
                        onePerPod(h) == Cardinality(PodsOn(services[s].pods, h)) * Total(ScoresNow)
                        got(h) == Slots(rule.map, h) * Total(ScoresNow)
                    IN  /\ hosts # {} /\ (\A h \in hosts : exact(h) > onePerPod(h)) =>
                             NftAccepts(rule.map, rule.modulus)
                        /\ NftAccepts(rule.map, rule.modulus) =>
                             \A h \in hosts :
                               got(h) <= exact(h) /\ exact(h) <= got(h) + onePerPod(h)
  BY DEF SharesFollowScores
<1> DEFINE pods == services[s].pods
           total == Total(ScoresNow)
           n(h) == Cardinality(PodsOn(pods, h))
<1>1. PICK each, order : Computed(rule, pods, each, order)
  BY RuleOfService
<1>2. /\ RuleInput(pods, each, order) /\ DOMAIN each = hosts
      /\ rule.map = VerdictMap(order, each, pods) /\ rule.modulus = Modulus(order, each, pods)
  BY <1>1 DEF Computed
<1>3. ASSUME hosts # {}
      PROVE  /\ Shared(each, pods, ScoresNow, total) /\ total \in Nat /\ total > 0
             /\ DrawsBefore(Len(order) + 1, order, each, pods) <= 100
  BY <1>1, <1>2, <1>3, PortionsShared
<1>4. ASSUME hosts # {}, \A h \in hosts : 100 * ScoresNow[h] > n(h) * total
      PROVE  NftAccepts(rule.map, rule.modulus)
  <2>1. \A h \in DOMAIN each : each[h] >= 1
    BY <1>2, <1>3, <1>4 DEF Shared
  <2>2. DrawsBefore(Len(order) + 1, order, each, pods) < U32
    <3>1. Len(order) \in Nat /\ Len(order) + 1 \in 1..(Len(order) + 1)
      BY <1>2, InputFacts
    <3>2. DrawsBefore(Len(order) + 1, order, each, pods) \in Int
      BY <1>2, <3>1, DrawsStep
    <3> QED BY <1>3, <1>4, <3>2, WidthAssumption
  <2>3. DOMAIN each # {}
    BY <1>2, <1>4
  <2> HIDE DEF pods
  <2>4. NftAccepts(rule.map, Modulus(order, each, pods))
    BY <1>2, <2>1, <2>2, <2>3, RuleTaken
  <2> QED BY <1>2, <2>4
<1>5. ASSUME NftAccepts(rule.map, rule.modulus), NEW h \in hosts
      PROVE  /\ Slots(rule.map, h) * total <= 100 * ScoresNow[h]
             /\ 100 * ScoresNow[h] <= Slots(rule.map, h) * total + n(h) * total
  <2>1. /\ each[h] \in 0..100 /\ each[h] * (n(h) * total) <= 100 * ScoresNow[h]
        /\ 100 * ScoresNow[h] <= each[h] * (n(h) * total) + n(h) * total
        /\ total \in Nat
    BY <1>2, <1>3, <1>5 DEF Shared
  <2>2. Slots(rule.map, h) = each[h] * n(h)
    BY <1>2, <1>5, <2>1, SlotsOfHost
  <2>3. n(h) \in Nat
    BY <1>2, InputFacts
  <2>4. Slots(rule.map, h) * total = each[h] * (n(h) * total)
    <3> DEFINE e == each[h]
               c == n(h)
    <3>1. e \in Nat /\ c \in Nat
      BY <2>1, <2>3
    <3> HIDE DEF e, c, total
    <3>2. (e * c) * total = e * (c * total)
      BY <2>1, <3>1
    <3> QED BY <2>2, <3>2 DEF e, c
  <2> QED BY <2>1, <2>4
<1> QED BY <1>4, <1>5

\* Every draw of a rule that nft takes has one pod, and no pod has a draw beyond
\* them, whatever the scores, the rounding and the order of the hosts
\* (nftables_reconciler.rs:121-148).
THEOREM EveryDrawHasAPod == Spec => []EveryDrawLands
  BY V1Typing, DrawsLand, PTL

\* While all scores are positive nft takes a rule with a draw for each pod, and
\* the hosts' shares are their scores', to one draw for each pod
\* (nftables_reconciler.rs:83-100, 128-142).
THEOREM HostsGetTheirShares == Spec => []SharesFollowScores
  BY V1Typing, SharesFollow, PTL
=============================================================================
