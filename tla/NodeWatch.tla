------------------------------- MODULE NodeWatch -------------------------------
(***************************************************************************)
(* watch_nodes (proberv2/src/node_watch.rs): lists the worker nodes once,  *)
(* then watches every node, and sends NodeJoined for each one it is shown. *)
(* The cluster side is here too: the nodes it has, and the updates of      *)
(* their objects (a heartbeat is one) that the watch delivers.  Nodes      *)
(* without a usable InternalIP are skipped, and are left out.              *)
(***************************************************************************)
EXTENDS Eligibility, Broadcast

CONSTANTS
  Workers,        \* the nodes with the label the list selects
  MaxNodeChanges  \* bound: nodes added to or removed from the cluster

VARIABLES
  nodes,          \* the cluster's nodes now
  nodeChanges,    \* how often nodes has changed
  nodeWatcher,    \* the task: its place, and the nodes it has still to announce
  queue

\* A node's place in the stream does not matter: events differ by name only.
Announcing(stage, pending) == [stage |-> stage, pending |-> pending]

NodeWatchInit ==
  /\ nodes \in (SUBSET Node) \ {{}}
  /\ nodeChanges = 0
  /\ nodeWatcher = Announcing("list", {})

Watching == nodeWatcher.stage = "watch"

NodeAdded(n) ==
  /\ nodeChanges < MaxNodeChanges /\ n \notin nodes
  /\ nodeChanges' = nodeChanges + 1
  /\ nodes' = nodes \union {n}
  /\ nodeWatcher' = IF Watching THEN [nodeWatcher EXCEPT !.pending = @ \union {n}]
                    ELSE nodeWatcher
  /\ UNCHANGED queue

\* applied_objects passes no deletion on: nobody hears of it.
NodeRemoved(n) ==
  /\ nodeChanges < MaxNodeChanges /\ n \in nodes
  /\ nodeChanges' = nodeChanges + 1
  /\ nodes' = nodes \ {n}
  /\ UNCHANGED <<nodeWatcher, queue>>

NodeUpdated(n) ==
  /\ Watching /\ n \in nodes \ nodeWatcher.pending
  /\ nodeWatcher' = [nodeWatcher EXCEPT !.pending = @ \union {n}]
  /\ UNCHANGED <<nodes, nodeChanges, queue>>

ListNodes ==
  /\ nodeWatcher.stage = "list"
  /\ nodeWatcher' = Announcing("listed", nodes \intersect Workers)
  /\ UNCHANGED <<nodes, nodeChanges, queue>>

Announce(n) ==
  /\ n \in nodeWatcher.pending
  /\ queue' = Send(queue, [kind |-> "joined", node |-> n])
  /\ nodeWatcher' = [nodeWatcher EXCEPT !.pending = @ \ {n}]
  /\ UNCHANGED <<nodes, nodeChanges>>

\* Mutant of BeginWatch: the watch shows only what changes from then on.
BeginWatch_NoRelist ==
  /\ nodeWatcher = Announcing("listed", {})
  /\ nodeWatcher' = Announcing("watch", {})
  /\ UNCHANGED <<nodes, nodeChanges, queue>>

\* The watch begins with all the nodes there are: it has no selector.
BeginWatch ==
  /\ nodeWatcher = Announcing("listed", {})
  /\ nodeWatcher' = Announcing("watch", nodes)
  /\ UNCHANGED <<nodes, nodeChanges, queue>>

\* The list fails, or the watch yields an error: the task returns it to nobody.
NodeWatchError ==
  /\ nodeWatcher.stage \in {"list", "watch"}
  /\ nodeWatcher' = Announcing("ended", {})
  /\ UNCHANGED <<nodes, nodeChanges, queue>>

NodeWatchStep == ListNodes \/ (\E n \in Node : Announce(n)) \/ BeginWatch
=============================================================================
