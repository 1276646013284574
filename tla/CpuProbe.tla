-------------------------------- MODULE CpuProbe --------------------------------
(***************************************************************************)
(* probe_cpu_usage (proberv2/src/cpu_usage_probe.rs): every round it reads *)
(* the NodeJoined events off its own receiver, asks Prometheus for the CPU *)
(* usage of every node it has heard of, one after the other, and sends     *)
(* each node's EWMA.  What the EWMA is does not matter here: a sample is   *)
(* any of CpuSamples.  A node that left the cluster is asked for without   *)
(* end; Prometheus may not know it.                                        *)
(***************************************************************************)
EXTENDS Eligibility, Broadcast

CONSTANT CpuSamples

VARIABLES
  cpuProbe,  \* the task: its place, the nodes it knows, those left in the round
  queue

CpuProbeInit == cpuProbe = [stage |-> "spawned", known |-> {}, left |-> {}]

SubscribeCpu ==
  /\ cpuProbe.stage = "spawned"
  /\ queue' = [queue EXCEPT !["cpu"] = Subscribed]
  /\ cpuProbe' = [cpuProbe EXCEPT !.stage = "drain"]

DrainJoined ==
  /\ cpuProbe.stage = "drain"
  /\ CanTake(queue, "cpu")
  /\ LET e == Head(queue["cpu"].msgs)
     IN  cpuProbe' = IF e.kind = "joined" THEN [cpuProbe EXCEPT !.known = @ \union {e.node}]
                     ELSE cpuProbe
  /\ queue' = Take(queue, "cpu")

\* try_recv fails on an empty queue, and once after a lag.
StartCpuRound ==
  /\ cpuProbe.stage = "drain"
  /\ queue["cpu"].lagged \/ queue["cpu"].msgs = << >>
  /\ queue' = SkipLagged(queue, "cpu")
  /\ cpuProbe' = [cpuProbe EXCEPT !.stage = "query", !.left = cpuProbe.known]

Sample(n) ==
  /\ cpuProbe.stage = "query" /\ n \in cpuProbe.left
  /\ \E v \in CpuSamples : queue' = Send(queue, [kind |-> "cpu", node |-> n, value |-> v])
  /\ cpuProbe' = [cpuProbe EXCEPT !.left = @ \ {n}]

\* No client, no response, or no data for the node: on to the next one.
NoSample(n) ==
  /\ cpuProbe.stage = "query" /\ n \in cpuProbe.left
  /\ cpuProbe' = [cpuProbe EXCEPT !.left = @ \ {n}]
  /\ UNCHANGED queue

EndCpuRound ==
  /\ cpuProbe.stage = "query" /\ cpuProbe.left = {}
  /\ cpuProbe' = [cpuProbe EXCEPT !.stage = "wait"]
  /\ UNCHANGED queue

NextCpuRound ==
  /\ cpuProbe.stage = "wait"
  /\ cpuProbe' = [cpuProbe EXCEPT !.stage = "drain"]
  /\ UNCHANGED queue

CpuProbeStep ==
  \/ SubscribeCpu \/ DrainJoined \/ StartCpuRound
  \/ \E n \in Node : Sample(n) \/ NoSample(n)
  \/ EndCpuRound
=============================================================================
