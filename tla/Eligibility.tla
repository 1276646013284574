----------------------------- MODULE Eligibility -----------------------------
(***************************************************************************)
(* Which nodes and pods of a service may receive traffic: the tests that   *)
(* update_nftables (proberv2/src/update_nftables.rs) makes before it       *)
(* shares out any slot.  A service is given by the number of its pods on   *)
(* every node, `pods'; a node absent from endpoints_by_nodename has 0.     *)
(* A pod is the pair <<node, index>>, its place in the node's Vec.  CPU    *)
(* usage is in percent, latency in milliseconds.                           *)
(***************************************************************************)
EXTENDS Integers, FiniteSets

CONSTANTS
  Node,     \* the names of the cluster's nodes
  NoData    \* Option::None, or a node missing from datapoint_by_nodename

\* The keys of endpoints_by_nodename: a node is a key once one pod was pushed.
HostsOf(pods) == {n \in Node : pods[n] > 0}

\* The predicate of retain: a datapoint, and cpu strictly between 0 and 0.95.
\* A cpu of 0 is also what ScorePair::default holds before a CPU sample.
Usable(dp) == dp # NoData /\ dp.cpu > 0 /\ dp.cpu < 95

Kept(pods, data) == {n \in HostsOf(pods) : Usable(data[n])}

KeptPods(pods, data) == UNION {{n} \X (0..(pods[n] - 1)) : n \in Kept(pods, data)}

\* Mutant of Unmeasured: a latency of 0 is a score like any other.
Unmeasured_Never(pods, data) == {}

\* performance_score is infinite when the latency is 0 (no sample yet, or a
\* reply within the millisecond), and then so is total_score.
Unmeasured(pods, data) == {n \in Kept(pods, data) : data[n].latency = 0}

\* A rule needs a service on two nodes, two pods on usable nodes, and a
\* latency of every usable node.
MayBuild(pods, data) ==
  /\ Cardinality(HostsOf(pods)) >= 2
  /\ Cardinality(KeptPods(pods, data)) >= 2
  /\ Unmeasured(pods, data) = {}
=============================================================================
