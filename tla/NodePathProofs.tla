----------------------------- MODULE NodePathProofs -----------------------------
(***************************************************************************)
(* What holds on a node's way into the actor, for any nodes, samples and   *)
(* length of the channel: events of the two tasks that know of a node do   *)
(* not overtake each other, as long as the actor's receiver does not lag.  *)
(***************************************************************************)
EXTENDS NodePath, BroadcastProofs

Readers == {"actor", "cpu"}
Msg == [kind : {"joined"}, node : Node] \union [kind : {"cpu"}, node : Node, value : CpuSamples]
Datapoint == [latency : {0}, cpu : CpuSamples] \union {NoKey, NoData}

\* The shapes of the values that the tasks hold.
Typed ==
  /\ nodes \subseteq Node /\ nodeChanges \in 0..MaxNodeChanges
  /\ nodeWatcher \in [stage : {"list", "listed", "watch", "ended"}, pending : SUBSET Node]
  /\ cpuProbe \in [stage : {"spawned", "drain", "query", "wait"}, known : SUBSET Node, left : SUBSET Node]
  /\ cpuProbe.left \subseteq cpuProbe.known
  /\ data \in [Node -> Datapoint]
  /\ queue \in Channel(Readers, Msg)
  /\ queue["actor"].open

\* The actor has seen the node announced, or has yet to take the announcement.
Announced(n) ==
  \/ data[n] # NoKey
  \/ \E j \in 1..Len(queue["actor"].msgs) : queue["actor"].msgs[j] = A!NodeJoined(n)

Sound == {m \in Msg : m.kind = "joined" => Announced(m.node)}

\* Every node the CPU probe knows, or will read of, is announced to the actor.
OrderInv ==
  /\ \A n \in cpuProbe.known : Announced(n)
  /\ queue \in Channel(Readers, Sound)
  /\ NoGhosts
-----------------------------------------------------------------------------
\* The tasks share one channel.
LEMMA OneChannel ==
  /\ \A c, m : N!Send(c, m) = Send(c, m) /\ C!Send(c, m) = Send(c, m)
  /\ \A c, r : /\ C!CanTake(c, r) <=> CanTake(c, r)
               /\ A!CanTake(c, r) <=> CanTake(c, r)
               /\ C!Take(c, r) = Take(c, r) /\ A!Take(c, r) = Take(c, r)
               /\ C!SkipLagged(c, r) = SkipLagged(c, r) /\ A!SkipLagged(c, r) = SkipLagged(c, r)
  /\ C!Subscribed = Subscribed
BY DEF N!Send, C!Send, Send, N!Receive, C!Receive, Receive, C!CanTake, A!CanTake, CanTake,
   C!Take, A!Take, Take, C!SkipLagged, A!SkipLagged, SkipLagged, C!Subscribed, Subscribed

LEMMA InitTyped == Init => Typed /\ OrderInv
<1> SUFFICES ASSUME Init PROVE Typed /\ OrderInv
  OBVIOUS
<1>1. \A M : /\ Subscribed \in Receiver(M) /\ Unsubscribed \in Receiver(M)
             /\ Subscribed.msgs = << >> /\ Unsubscribed.msgs = << >> /\ Len(<< >>) = 0
  BY EmptySeq DEF Subscribed, Unsubscribed, Receiver
<1>2. \A M : queue \in Channel(Readers, M)
  BY <1>1, CapacityAssumption DEF Init, Channel, Readers
<1>3. queue["actor"].msgs = << >> /\ queue["actor"].open
  BY DEF Init, Subscribed
<1>4. Typed
  BY <1>2, <1>3, NodesAssumption
  DEF Init, N!NodeWatchInit, N!Announcing, C!CpuProbeInit, A!NoNodes, Typed, Datapoint
<1>5. OrderInv
  BY <1>2, <1>3 DEF Init, C!CpuProbeInit, OrderInv, NoGhosts
<1> QED BY <1>4, <1>5

\* A send by one of the tasks keeps the channel's shape, and what the actor has
\* still to take, unless its receiver lags.
LEMMA SendKeeps ==
  ASSUME Typed, NEW m \in Msg, queue' = Send(queue, m)
  PROVE  /\ queue' \in Channel(Readers, Msg) /\ queue'["actor"].open
         /\ ~queue'["actor"].lagged =>
              queue'["actor"].msgs = Append(queue["actor"].msgs, m)
<1>1. /\ queue' \in Channel(Readers, Msg)
      /\ queue'["actor"] = Receive(queue["actor"], m)
  BY SendProperties DEF Typed, Readers
<1>2. queue["actor"] \in Receiver(Msg) /\ Len(queue["actor"].msgs) <= Capacity
  BY DEF Typed, Channel, Readers
<1>3. ~queue'["actor"].lagged => queue'["actor"].msgs = Append(queue["actor"].msgs, m)
  BY <1>1, <1>2, ReceiveProperties DEF Typed
<1>4. queue'["actor"].open
  BY <1>1, <1>2 DEF Receive, Typed, Receiver
<1> QED BY <1>1, <1>3, <1>4

LEMMA AppendKeepsOrder ==
  ASSUME Typed, OrderInv, NEW m \in Msg, queue' = Send(queue, m), ~queue'["actor"].lagged,
         data' = data, cpuProbe'.known = cpuProbe.known,
         m.kind = "cpu" => Announced(m.node)
  PROVE  OrderInv'
<1> DEFINE s == queue["actor"].msgs
           t == queue'["actor"].msgs
<1>1. t = Append(s, m) /\ s \in Seq(Msg)
  BY SendKeeps DEF Typed, Channel, Receiver, Readers
<1>2. /\ Len(s) \in Nat /\ Len(t) = Len(s) + 1 /\ t[Len(s) + 1] = m
      /\ \A i \in 1..Len(s) : t[i] = s[i]
  BY <1>1, AppendProperties, LenProperties
<1>3. DOMAIN s = 1..Len(s) /\ DOMAIN t = 1..Len(t)
  <2>1. t \in Seq(Msg)
    BY <1>1, AppendProperties
  <2> QED BY <1>1, <2>1, LenProperties
<1>4. \A n : Announced(n) => Announced(n)'
  <2> SUFFICES ASSUME NEW n, Announced(n) PROVE Announced(n)'
    OBVIOUS
  <2>1. A!NodeJoined(n)' = A!NodeJoined(n)
    BY DEF A!NodeJoined
  <2> HIDE DEF s, t
  <2> QED BY <1>2, <2>1 DEF Announced, s, t
<1>5. m.kind = "joined" => Announced(m.node)'
  <2> SUFFICES ASSUME m.kind = "joined" PROVE Announced(m.node)'
    OBVIOUS
  <2>1. m = A!NodeJoined(m.node)
    BY DEF Msg, A!NodeJoined
  <2>2. Len(t) \in 1..Len(t) /\ t[Len(t)] = m
    BY <1>2
  <2> HIDE DEF s, t
  <2> QED BY <2>1, <2>2 DEF Announced, t, A!NodeJoined
<1>6. Sound \subseteq Sound' /\ m \in Sound'
  BY <1>4, <1>5 DEF Sound
<1>7. queue \in Channel(Readers, Sound')
  BY <1>6, ChannelWidens DEF OrderInv
<1>8. queue' \in Channel(Readers, Sound')
  BY <1>6, <1>7, SendProperties
<1>9. NoGhosts'
  <2> SUFFICES ASSUME NEW i \in DOMAIN t, t[i].kind = "cpu"
               PROVE  \/ data[t[i].node] # NoKey
                      \/ \E j \in 1..(i - 1) : t[j] = A!NodeJoined(t[i].node)
    BY DEF NoGhosts, A!NodeJoined
  <2>1. CASE i \in 1..Len(s)
    <3>1. s[i].kind = "cpu" /\ i \in DOMAIN s /\ t[i] = s[i]
      BY <1>2, <1>3, <2>1
    <3>2. \/ data[s[i].node] # NoKey
          \/ \E j \in 1..(i - 1) : s[j] = A!NodeJoined(s[i].node)
      BY <3>1 DEF OrderInv, NoGhosts
    <3>3. \A j \in 1..(i - 1) : j \in 1..Len(s)
      BY <1>2, <2>1
    <3> HIDE DEF s, t
    <3> QED BY <1>2, <3>1, <3>2, <3>3
  <2>2. CASE i = Len(s) + 1
    <3>1. t[i] = m /\ (i - 1) = Len(s) /\ Announced(m.node)
      BY <1>2, <2>2
    <3> HIDE DEF t
    <3> QED BY <1>2, <3>1 DEF Announced
  <2>3. i \in 1..(Len(s) + 1)
    BY <1>2, <1>3
  <2> QED BY <1>2, <2>1, <2>2, <2>3
<1>10. \A n \in cpuProbe'.known : Announced(n)'
  BY <1>4 DEF OrderInv
<1> QED BY <1>8, <1>9, <1>10 DEF OrderInv

\* The actor takes the oldest event; an announcement it takes, it records.
LEMMA TakeKeepsOrder ==
  ASSUME Typed, OrderInv, CanTake(queue, "actor"), queue' = Take(queue, "actor"),
         \A n \in Node : data[n] # NoKey => data'[n] # NoKey,
         Head(queue["actor"].msgs).kind = "joined" =>
           data'[Head(queue["actor"].msgs).node] # NoKey,
         cpuProbe' = cpuProbe
  PROVE  OrderInv'
<1> DEFINE s == queue["actor"].msgs
           t == queue'["actor"].msgs
<1>1. s \in Seq(Msg) /\ s # << >> /\ t = Tail(s)
  <2>1. queue \in Channel(Readers, Msg) /\ "actor" \in Readers
    BY DEF Typed, Readers
  <2>2. t = Tail(s)
    BY <2>1, TakeProperties
  <2>3. queue["actor"] \in Receiver(Msg)
    BY <2>1 DEF Channel
  <2> QED BY <2>2, <2>3 DEF CanTake, Receiver
<1>2. /\ Len(s) \in Nat /\ Len(s) > 0 /\ Len(t) = Len(s) - 1
      /\ Head(s) = s[1]
      /\ \A i \in 1..Len(t) : t[i] = s[i + 1]
      /\ DOMAIN s = 1..Len(s) /\ DOMAIN t = 1..Len(t)
  <2> HIDE DEF s, t
  <2>1. Head(s) \in Msg /\ t \in Seq(Msg) /\ Len(t) = Len(s) - 1
        /\ \A i \in 1..Len(t) : t[i] = s[i + 1]
    BY <1>1, HeadTailProperties
  <2>2. Len(s) \in Nat /\ Len(s) > 0 /\ Head(s) = s[1]
    BY <1>1
  <2>3. DOMAIN s = 1..Len(s) /\ DOMAIN t = 1..Len(t)
    BY <1>1, <2>1, LenProperties
  <2> QED BY <2>1, <2>2, <2>3
<1>3. \A n \in Node : Announced(n) => Announced(n)'
  <2> SUFFICES ASSUME NEW n \in Node, Announced(n), data[n] = NoKey, data'[n] = NoKey
               PROVE  \E j \in 1..Len(t) : t[j] = A!NodeJoined(n)
    BY DEF Announced, A!NodeJoined
  <2>1. PICK j \in 1..Len(s) : s[j] = A!NodeJoined(n)
    BY DEF Announced
  <2>2. j # 1
    BY <1>2, <2>1 DEF A!NodeJoined
  <2>3. (j - 1) \in 1..Len(t) /\ t[j - 1] = s[j]
    <3> HIDE DEF s, t
    <3>1. (j - 1) \in 1..Len(t) /\ (j - 1) + 1 = j
      BY <1>2, <2>2
    <3> QED BY <1>2, <3>1
  <2> QED BY <2>1, <2>3
<1>4. Sound \subseteq Sound'
  BY <1>3 DEF Sound, Msg
<1>5. queue \in Channel(Readers, Sound')
  BY <1>4, ChannelWidens DEF OrderInv
<1>6. queue' \in Channel(Readers, Sound')
  BY <1>5, TakeProperties DEF Readers
<1>7. NoGhosts'
  <2> SUFFICES ASSUME NEW i \in DOMAIN t, t[i].kind = "cpu", data'[t[i].node] = NoKey
               PROVE  \E j \in 1..(i - 1) : t[j] = A!NodeJoined(t[i].node)
    BY DEF NoGhosts, A!NodeJoined
  <2>1. i \in 1..Len(t) /\ (i + 1) \in DOMAIN s /\ s[i + 1] = t[i]
    <3> HIDE DEF s, t
    <3> QED BY <1>2
  <2>2. t[i].node \in Node
    <3>1. s[i + 1] \in Msg
      BY <1>1, <1>2, <2>1, ElementOfSeq
    <3> QED BY <2>1, <3>1 DEF Msg
  <2>3. data[t[i].node] = NoKey
    BY <2>2
  <2>4. PICK j \in 1..((i + 1) - 1) : s[j] = A!NodeJoined(t[i].node)
    BY <2>1, <2>3 DEF OrderInv, NoGhosts
  <2>5. j # 1
    BY <1>2, <2>4 DEF A!NodeJoined
  <2>6. (j - 1) \in 1..(i - 1) /\ (j - 1) \in 1..Len(t) /\ (j - 1) + 1 = j
    <3> HIDE DEF s, t
    <3> QED BY <1>2, <2>1, <2>5
  <2>7. t[j - 1] = s[j]
    <3> HIDE DEF s, t
    <3> QED BY <1>2, <2>6
  <2> QED BY <2>4, <2>6, <2>7
<1>8. \A n \in cpuProbe'.known : Announced(n)'
  BY <1>3 DEF OrderInv, Typed
<1> QED BY <1>6, <1>7, <1>8 DEF OrderInv

\* A step that does not touch what the actor has and has still to take.
LEMMA OthersKeepOrder ==
  ASSUME Typed, OrderInv, data' = data, queue'["actor"].msgs = queue["actor"].msgs,
         queue \in Channel(Readers, Sound) => queue' \in Channel(Readers, Sound),
         \A n \in cpuProbe'.known \ cpuProbe.known : Announced(n)
  PROVE  OrderInv'
<1>1. \A n : Announced(n)' <=> Announced(n)
  BY DEF Announced, A!NodeJoined
<1>2. Sound' = Sound
  BY <1>1 DEF Sound
<1>3. NoGhosts'
  BY DEF OrderInv, NoGhosts, A!NodeJoined
<1> QED BY <1>1, <1>2, <1>3 DEF OrderInv
-----------------------------------------------------------------------------
\* The watch of the nodes and the cluster.
LEMMA WatchKeeps ==
  ASSUME Typed, WatchStep \/ ClusterStep \/ WatchError
  PROVE  Typed' /\ (OrderInv /\ ~queue'["actor"].lagged => OrderInv')
<1>1. /\ nodeWatcher \in [stage : {"list", "listed", "watch", "ended"}, pending : SUBSET Node]
      /\ nodes \subseteq Node /\ nodeChanges \in 0..MaxNodeChanges /\ MaxNodeChanges \in Nat
  BY NodesAssumption DEF Typed
<1>2. UNCHANGED <<cpuProbe, data>>
  BY DEF WatchStep, ClusterStep, WatchError, actorVars
<1>3. ASSUME NEW n \in Node, N!Announce(n)
      PROVE  Typed' /\ (OrderInv /\ ~queue'["actor"].lagged => OrderInv')
  <2> DEFINE m == [kind |-> "joined", node |-> n]
  <2>1. m \in Msg /\ m.kind = "joined"
    BY DEF Msg
  <2>2. queue' = Send(queue, m)
    BY <1>3, OneChannel DEF N!Announce
  <2>3. /\ nodeWatcher' \in [stage : {"list", "listed", "watch", "ended"}, pending : SUBSET Node]
        /\ UNCHANGED <<nodes, nodeChanges>>
    BY <1>1, <1>3 DEF N!Announce
  <2> HIDE DEF m
  <2>4. Typed'
    BY <1>2, <2>1, <2>2, <2>3, SendKeeps DEF Typed
  <2>5. OrderInv /\ ~queue'["actor"].lagged => OrderInv'
    BY <1>2, <2>1, <2>2, AppendKeepsOrder
  <2> QED BY <2>4, <2>5
<1>4. ASSUME queue' = queue,
             nodeWatcher' \in [stage : {"list", "listed", "watch", "ended"}, pending : SUBSET Node],
             nodes' \subseteq Node /\ nodeChanges' \in 0..MaxNodeChanges
      PROVE  Typed' /\ (OrderInv => OrderInv')
  BY <1>2, <1>4, OthersKeepOrder DEF Typed
<1>5. CASE N!ListNodes \/ N!BeginWatch \/ N!NodeWatchError
  BY <1>1, <1>4, <1>5
  DEF N!ListNodes, N!BeginWatch, N!NodeWatchError, N!Announcing
<1>6. ASSUME NEW n \in Node, N!NodeAdded(n) \/ N!NodeRemoved(n) \/ N!NodeUpdated(n)
      PROVE  Typed' /\ (OrderInv => OrderInv')
  <2>1. queue' = queue
    BY <1>6 DEF N!NodeAdded, N!NodeRemoved, N!NodeUpdated
  <2>2. nodeWatcher' \in [stage : {"list", "listed", "watch", "ended"}, pending : SUBSET Node]
    BY <1>1, <1>6 DEF N!NodeAdded, N!NodeRemoved, N!NodeUpdated
  <2>3. nodes' \subseteq Node /\ nodeChanges' \in 0..MaxNodeChanges
    BY <1>1, <1>6 DEF N!NodeAdded, N!NodeRemoved, N!NodeUpdated
  <2> QED BY <1>4, <2>1, <2>2, <2>3
<1> QED BY <1>3, <1>5, <1>6 DEF WatchStep, N!NodeWatchStep, ClusterStep, WatchError

\* The CPU probe learns of nodes from its own receiver and sends samples.
LEMMA ProbeKeeps ==
  ASSUME Typed, ProbeStep \/ NextRound
  PROVE  Typed' /\ (OrderInv /\ ~queue'["actor"].lagged => OrderInv')
<1> DEFINE Probe == [stage : {"spawned", "drain", "query", "wait"}, known : SUBSET Node, left : SUBSET Node]
<1>1. cpuProbe \in Probe /\ cpuProbe.left \subseteq cpuProbe.known /\ "cpu" \in Readers /\ "actor" \in Readers
  BY DEF Typed, Readers
<1>2. UNCHANGED <<watchVars, data>>
  BY DEF ProbeStep, NextRound, actorVars
<1>3. ASSUME cpuProbe' \in Probe, cpuProbe'.left \subseteq cpuProbe'.known,
             queue' \in Channel(Readers, Msg), queue'["actor"] = queue["actor"]
      PROVE  Typed'
  BY <1>2, <1>3 DEF Typed, watchVars
<1>4. CASE C!SubscribeCpu
  <2>1. cpuProbe' \in Probe /\ cpuProbe'.left \subseteq cpuProbe'.known /\ cpuProbe'.known = cpuProbe.known
    BY <1>1, <1>4 DEF C!SubscribeCpu
  <2>2. queue' = [queue EXCEPT !["cpu"] = Subscribed]
    BY <1>4, OneChannel DEF C!SubscribeCpu
  <2>3. \A M : queue \in Channel(Readers, M) =>
          queue' \in Channel(Readers, M) /\ queue'["actor"] = queue["actor"]
    <3> SUFFICES ASSUME NEW M, queue \in Channel(Readers, M)
                 PROVE  /\ [queue EXCEPT !["cpu"] = Subscribed] \in Channel(Readers, M)
                        /\ [queue EXCEPT !["cpu"] = Subscribed]["actor"] = queue["actor"]
      BY <2>2
    <3>1. "actor" \in Readers \ {"cpu"}
      BY DEF Readers
    <3> QED BY <1>1, <3>1, SubscribeProperties
  <2>4. Typed'
    BY <1>3, <2>1, <2>3 DEF Typed
  <2> QED BY <1>2, <2>1, <2>3, <2>4, OthersKeepOrder DEF Typed
<1>5. CASE C!DrainJoined
  <2> DEFINE e == Head(queue["cpu"].msgs)
  <2>1. CanTake(queue, "cpu") /\ queue' = Take(queue, "cpu")
    BY <1>5, OneChannel DEF C!DrainJoined
  <2>2. \A M : queue \in Channel(Readers, M) =>
          /\ queue' \in Channel(Readers, M) /\ queue'["actor"] = queue["actor"]
          /\ e \in M
    BY <1>1, <2>1, TakeProperties
  <2>3. e \in Msg
    BY <2>2 DEF Typed
  <2>4. cpuProbe' = IF e.kind = "joined" THEN [cpuProbe EXCEPT !.known = @ \union {e.node}] ELSE cpuProbe
    BY <1>5 DEF C!DrainJoined
  <2> HIDE DEF e
  <2>5. e.node \in Node
    BY <2>3 DEF Msg
  <2>6. /\ cpuProbe' \in Probe /\ cpuProbe'.left \subseteq cpuProbe'.known
        /\ \A n \in cpuProbe'.known \ cpuProbe.known : e.kind = "joined" /\ n = e.node
    BY <1>1, <2>4, <2>5
  <2>7. Typed'
    BY <1>3, <2>2, <2>6 DEF Typed
  <2>8. OrderInv => \A n \in cpuProbe'.known \ cpuProbe.known : Announced(n)
    BY <2>2, <2>6 DEF OrderInv, Sound
  <2> QED BY <1>2, <2>2, <2>7, <2>8, OthersKeepOrder DEF Typed
<1>6. CASE C!StartCpuRound
  <2>1. cpuProbe' \in Probe /\ cpuProbe'.left \subseteq cpuProbe'.known /\ cpuProbe'.known = cpuProbe.known
    BY <1>1, <1>6 DEF C!StartCpuRound
  <2>2. queue' = SkipLagged(queue, "cpu")
    BY <1>6, OneChannel DEF C!StartCpuRound
  <2>3. \A M : queue \in Channel(Readers, M) =>
          queue' \in Channel(Readers, M) /\ queue'["actor"] = queue["actor"]
    <3> SUFFICES ASSUME NEW M, queue \in Channel(Readers, M)
                 PROVE  SkipLagged(queue, "cpu") \in Channel(Readers, M) /\ SkipLagged(queue, "cpu")["actor"] = queue["actor"]
      BY <2>2
    <3>1. "actor" \in Readers \ {"cpu"}
      BY DEF Readers
    <3> QED BY <1>1, <3>1, SkipProperties
  <2>4. Typed'
    BY <1>3, <2>1, <2>3 DEF Typed
  <2> QED BY <1>2, <2>1, <2>3, <2>4, OthersKeepOrder DEF Typed
<1>7. ASSUME NEW n \in Node, C!Sample(n)
      PROVE  Typed' /\ (OrderInv /\ ~queue'["actor"].lagged => OrderInv')
  <2>1. PICK v \in CpuSamples : queue' = Send(queue, [kind |-> "cpu", node |-> n, value |-> v])
    BY <1>7, OneChannel DEF C!Sample
  <2> DEFINE m == [kind |-> "cpu", node |-> n, value |-> v]
  <2>2. m \in Msg /\ m.node = n
    BY DEF Msg
  <2>3. n \in cpuProbe.known
    BY <1>1, <1>7 DEF C!Sample
  <2>4. cpuProbe' \in Probe /\ cpuProbe'.left \subseteq cpuProbe'.known /\ cpuProbe'.known = cpuProbe.known
    BY <1>1, <1>7 DEF C!Sample
  <2>5. Typed'
    BY <1>2, <2>1, <2>2, <2>4, SendKeeps DEF Typed, watchVars
  <2>6. OrderInv => Announced(m.node)
    BY <2>2, <2>3 DEF OrderInv
  <2> HIDE DEF m
  <2> QED BY <1>2, <2>1, <2>2, <2>4, <2>5, <2>6, AppendKeepsOrder DEF m
<1>8. ASSUME queue' = queue, cpuProbe' \in Probe, cpuProbe'.left \subseteq cpuProbe'.known,
             cpuProbe'.known = cpuProbe.known
      PROVE  Typed' /\ (OrderInv => OrderInv')
  BY <1>2, <1>3, <1>8, OthersKeepOrder DEF Typed
<1>9. ASSUME NEW n \in Node, C!NoSample(n) PROVE Typed' /\ (OrderInv => OrderInv')
  BY <1>1, <1>8, <1>9 DEF C!NoSample
<1>10. CASE C!EndCpuRound
  BY <1>1, <1>8, <1>10 DEF C!EndCpuRound
<1>11. CASE C!NextCpuRound
  BY <1>1, <1>8, <1>11 DEF C!NextCpuRound
<1> QED BY <1>4, <1>5, <1>6, <1>7, <1>9, <1>10, <1>11 DEF ProbeStep, C!CpuProbeStep, NextRound

\* The actor handles an event.
LEMMA ActorKeeps ==
  ASSUME Typed, ActorHandles
  PROVE  Typed' /\ (OrderInv => OrderInv')
<1> DEFINE e == Head(queue["actor"].msgs)
<1>1. UNCHANGED <<watchVars, cpuProbe>> /\ "actor" \in Readers
  BY DEF ActorHandles, Readers
<1>2. CASE A!ReceiveLagged
  <2>1. queue' = SkipLagged(queue, "actor") /\ data' = data
    BY <1>2, OneChannel DEF A!ReceiveLagged
  <2>2. \A M : queue \in Channel(Readers, M) =>
          /\ queue' \in Channel(Readers, M)
          /\ queue'["actor"].msgs = queue["actor"].msgs /\ queue'["actor"].open = queue["actor"].open
    BY <1>1, <2>1, SkipProperties
  <2>3. Typed'
    BY <1>1, <2>1, <2>2 DEF Typed, watchVars
  <2> QED BY <1>1, <2>1, <2>2, <2>3, OthersKeepOrder DEF Typed
<1>3. CASE A!ReceiveServiceChanged \/ A!ReceiveEwma \/ A!ReceiveNodeJoined
  <2>1. CanTake(queue, "actor") /\ queue' = Take(queue, "actor")
    BY <1>3, OneChannel DEF A!ReceiveServiceChanged, A!ReceiveEwma, A!ReceiveNodeJoined
  <2>2. queue' \in Channel(Readers, Msg) /\ e \in Msg /\ queue'["actor"].open
    BY <1>1, <2>1, TakeProperties DEF Typed
  <2>3. A!Event = e
    BY DEF A!Event
  <2> HIDE DEF e
  <2>4. e.node \in Node /\ e.kind \in {"joined", "cpu"} /\ (e.kind = "cpu" => e.value \in CpuSamples)
    BY <2>2 DEF Msg
  <2>5. ~A!ReceiveServiceChanged
    BY <2>3, <2>4 DEF A!ReceiveServiceChanged
  <2>6. /\ data' \in [Node -> Datapoint]
        /\ \A n \in Node : data[n] # NoKey => data'[n] # NoKey
        /\ e.kind = "joined" => data'[e.node] # NoKey
    <3>1. CASE A!ReceiveEwma
      <4> DEFINE old == IF data[e.node] = NoData THEN [latency |-> 0, cpu |-> 0] ELSE data[e.node]
                 new == [old EXCEPT !.cpu = e.value]
      <4>1. e.kind = "cpu" /\ data' = IF data[e.node] = NoKey THEN data ELSE [data EXCEPT ![e.node] = new]
        BY <2>3, <2>4, <3>1 DEF A!ReceiveEwma
      <4>2. data[e.node] # NoKey => new \in [latency : {0}, cpu : CpuSamples]
        BY <2>4, <4>1 DEF Typed, Datapoint
      <4> HIDE DEF new
      <4> QED BY <2>4, <4>1, <4>2, DataAssumption DEF Typed, Datapoint
    <3>2. CASE A!ReceiveNodeJoined
      BY <2>3, <2>4, <3>2, DataAssumption DEF A!ReceiveNodeJoined, Typed, Datapoint
    <3> QED BY <1>3, <2>5, <3>1, <3>2
  <2>7. Typed'
    BY <1>1, <2>2, <2>6 DEF Typed, watchVars
  <2> QED BY <1>1, <2>1, <2>6, <2>7, TakeKeepsOrder DEF e
<1> QED BY <1>2, <1>3 DEF ActorHandles, A!Handle

LEMMA NextKeeps ==
  ASSUME Typed, [Next]_vars
  PROVE  Typed' /\ (OrderInv /\ ~queue'["actor"].lagged => OrderInv')
<1>1. CASE UNCHANGED vars
  <2>1. UNCHANGED <<nodes, nodeChanges, nodeWatcher, cpuProbe, data, queue>>
    BY <1>1 DEF vars, watchVars, actorVars
  <2>2. Typed'
    BY <2>1 DEF Typed
  <2> QED BY <2>1, <2>2, OthersKeepOrder
<1> QED BY <1>1, WatchKeeps, ProbeKeeps, ActorKeeps DEF Next
-----------------------------------------------------------------------------
LEMMA Typing == Spec => []Typed
<1>1. Init => Typed
  BY InitTyped
<1>2. Typed /\ [Next]_vars => Typed'
  BY NextKeeps
<1> QED BY <1>1, <1>2, PTL DEF Spec

\* The channel keeps to its bound, and what the tasks hold comes from events
\* (node_watch.rs:29-83, cpu_usage_probe.rs:25-111).
THEOREM NodePathTyping == Spec => []TypeOK
<1>1. Typed => TypeOK
  <2> SUFFICES ASSUME Typed PROVE TypeOK
    OBVIOUS
  <2>1. \A n \in Node : data[n] \in {NoKey, NoData} \/ data[n].cpu \in CpuSamples
    BY DEF Typed, Datapoint
  <2>2. \A r \in DOMAIN queue : Len(queue[r].msgs) <= Capacity
    BY DEF Typed, Channel
  <2>3. /\ nodeWatcher.stage \in {"list", "listed", "watch", "ended"} /\ nodeWatcher.pending \subseteq Node
        /\ cpuProbe.stage \in {"spawned", "drain", "query", "wait"} /\ cpuProbe.known \subseteq Node
    BY DEF Typed
  <2> QED BY <2>1, <2>2, <2>3 DEF Typed, TypeOK
<1> QED BY <1>1, Typing, PTL

\* As long as the actor's receiver does not lag, no CPU sample reaches the actor
\* before the NodeJoined of its node, however many nodes join and however late
\* the probe subscribes (cpu_usage_probe.rs:35-39, actor.rs:103-127).
THEOREM NoSampleOvertakes == Spec /\ []~queue["actor"].lagged => []NoGhosts
<1> DEFINE Lags == queue["actor"].lagged
<1>1. Init => OrderInv
  BY InitTyped
<1>2. Typed /\ OrderInv /\ [Next]_vars /\ ~Lags' => OrderInv'
  BY NextKeeps
<1>3. OrderInv => NoGhosts
  BY DEF OrderInv
<1> HIDE DEF Lags
<1>4. Spec /\ []~Lags => []NoGhosts
  BY <1>1, <1>2, <1>3, Typing, PTL DEF Spec
<1> QED BY <1>4 DEF Lags
=============================================================================
