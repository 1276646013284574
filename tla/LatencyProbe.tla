------------------------------ MODULE LatencyProbe ------------------------------
(***************************************************************************)
(* probe_latency (proberv2/src/latency_probe.rs): every round it reads the *)
(* latest ServiceChanged off its own receiver, asks one pod of each node   *)
(* for a page, waits for all of the answers, and sends each node's EWMA.   *)
(* An answer takes 0 ms (less than a millisecond) or Positive; the EWMA,   *)
(* with its alpha strictly between 0 and 1, is 0 only while every answer   *)
(* took 0 ms.                                                              *)
(***************************************************************************)
EXTENDS Eligibility, Broadcast

CONSTANTS
  Positive,      \* any latency of 1 ms and more
  Answers,       \* the times an answer may take: some of 0 and Positive
  PodMayRefuse,  \* can a request to a pod that runs fail?
  PodMayHang     \* can a pod accept a request and never answer?

VARIABLES
  probe,         \* the task: its place, and the pods it knows
  latencies,     \* datapoint_by_nodename of this task; -1 is no entry
  pinging,       \* nodes whose request has not come back
  stuck,         \* those of them whose pod will never answer
  answers,       \* response_times: the nodes that answered, to be reported
  queue

ProbeInit ==
  /\ probe = [stage |-> "spawned", pods |-> [n \in Node |-> {}]]
  /\ latencies = [n \in Node |-> -1]
  /\ pinging = {}
  /\ stuck = {}
  /\ answers = {}

\* The receiver is made when the task first runs; what was sent before is not
\* for it.
Subscribe ==
  /\ probe.stage = "spawned"
  /\ queue' = [queue EXCEPT !["latency"] = Subscribed]
  /\ probe' = [probe EXCEPT !.stage = "drain"]
  /\ UNCHANGED <<latencies, pinging, stuck, answers>>

\* Mutant of DrainEvent: the new pods are added to the old ones.
DrainEvent_Merges ==
  /\ probe.stage = "drain"
  /\ CanTake(queue, "latency")
  /\ LET e == Head(queue["latency"].msgs)
     IN  probe' = IF e.kind = "service"
                  THEN [probe EXCEPT !.pods = [n \in Node |-> @[n] \union e.svc.pods[n]]]
                  ELSE probe
  /\ queue' = Take(queue, "latency")
  /\ UNCHANGED <<latencies, pinging, stuck, answers>>

DrainEvent ==
  /\ probe.stage = "drain"
  /\ CanTake(queue, "latency")
  /\ LET e == Head(queue["latency"].msgs)
     IN  probe' = IF e.kind = "service" THEN [probe EXCEPT !.pods = e.svc.pods] ELSE probe
  /\ queue' = Take(queue, "latency")
  /\ UNCHANGED <<latencies, pinging, stuck, answers>>

\* try_recv fails on an empty queue, and also, once, after a lag: what is left
\* in the queue then waits for the next round.
StartRound ==
  /\ probe.stage = "drain"
  /\ queue["latency"].lagged \/ queue["latency"].msgs = << >>
  /\ queue' = SkipLagged(queue, "latency")
  /\ pinging' = {n \in Node : probe.pods[n] # {}}
  /\ probe' = [probe EXCEPT !.stage = "ping"]
  /\ UNCHANGED <<latencies, stuck, answers>>

Answer(n, alive) ==
  /\ n \in pinging \ stuck
  /\ probe.pods[n] \intersect alive # {}
  /\ \E ms \in Answers : answers' = answers \union {<<n, ms>>}
  /\ pinging' = pinging \ {n}
  /\ UNCHANGED <<probe, latencies, stuck, queue>>

\* Requests to pods that are gone fail; when all of a node's do, the round has
\* no sample of the node.
NoAnswer(n, alive) ==
  /\ n \in pinging \ stuck
  /\ PodMayRefuse \/ probe.pods[n] \intersect alive = {}
  /\ pinging' = pinging \ {n}
  /\ UNCHANGED <<probe, latencies, stuck, answers, queue>>

\* reqwest::get has no timeout: a pod that accepts and stays silent is waited
\* for without end, and the pods after it are not tried.
Hang(n, alive) ==
  /\ PodMayHang
  /\ n \in pinging \ stuck
  /\ probe.pods[n] \intersect alive # {}
  /\ stuck' = stuck \union {n}
  /\ UNCHANGED <<probe, latencies, pinging, answers, queue>>

\* Mutant of Ewma: the old value is not weighted down.
Ewma_Sum(old, ms) == old + ms

Ewma(old, ms) == IF old = -1 THEN ms ELSE IF old = 0 /\ ms = 0 THEN 0 ELSE Positive

\* Every task is awaited before the first result is used.
AllBack == probe.stage = "ping" /\ pinging = {}

Report(n, ms) ==
  /\ AllBack
  /\ <<n, ms>> \in answers
  /\ latencies' = [latencies EXCEPT ![n] = Ewma(@, ms)]
  /\ queue' = Send(queue, [kind |-> "latency", node |-> n, value |-> latencies'[n]])
  /\ answers' = answers \ {<<n, ms>>}
  /\ UNCHANGED <<probe, pinging, stuck>>

RoundDone ==
  /\ AllBack
  /\ answers = {}
  /\ probe' = [probe EXCEPT !.stage = "wait"]
  /\ UNCHANGED <<latencies, pinging, stuck, answers, queue>>

NextRound ==
  /\ probe.stage = "wait"
  /\ probe' = [probe EXCEPT !.stage = "drain"]
  /\ UNCHANGED <<latencies, pinging, stuck, answers, queue>>

ProbeStep(alive) ==
  \/ Subscribe \/ DrainEvent \/ StartRound
  \/ \E n \in Node : Answer(n, alive) \/ NoAnswer(n, alive)
  \/ \E n \in Node, ms \in Answers : Report(n, ms)
  \/ RoundDone
=============================================================================
