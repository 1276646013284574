----------------------------- MODULE EndpointsWatch -----------------------------
(***************************************************************************)
(* watch_endpoints (proberv2/src/endpoints_watch.rs): follows the          *)
(* Endpoints object of the configured service and sends ServiceChanged.    *)
(* The cluster side is here too: the object, and the Service's nodeport,   *)
(* which the handler asks for after it has taken the object from the       *)
(* stream.                                                                 *)
(***************************************************************************)
EXTENDS Eligibility, Broadcast

CONSTANTS
  Port, Pod,
  NodeOf,        \* the node of a pod; a pod may have none
  NoPort,        \* the Service has no nodeport
  Nodeports,     \* what the Service's nodeport may be: ports, or NoPort
  Objects,       \* the states of the Endpoints object: its addresses, or Deleted
  Deleted,
  MaxChanges,    \* bound: changes of the object and of the Service
  WatchMayFail,  \* can the watch stream yield an error?
  ApiMayFail     \* can getting the Service fail?

VARIABLES
  endpoints,  \* the Endpoints object now
  nodeport,   \* the Service's nodeport now
  changes,    \* how often either has changed
  stream,     \* states of the object the watch has still to deliver
  watcher,    \* the task: idle, asking for the Service, or ended
  queue

cluster == <<endpoints, nodeport, changes>>

WatcherIdle == [stage |-> "idle", addresses |-> {}]
WatcherEnded == [stage |-> "ended", addresses |-> {}]

EndpointsInit ==
  /\ endpoints \in Objects \ {Deleted}
  /\ nodeport \in Nodeports
  /\ changes = 0
  /\ stream = <<endpoints>>
  /\ watcher = WatcherIdle

EndpointsChange ==
  /\ changes < MaxChanges
  /\ changes' = changes + 1
  /\ endpoints' \in Objects \ {endpoints}
  /\ stream' = Append(stream, endpoints')
  /\ UNCHANGED <<nodeport, watcher, queue>>

NodeportChange ==
  /\ changes < MaxChanges
  /\ changes' = changes + 1
  /\ nodeport' \in Nodeports \ {nodeport}
  /\ UNCHANGED <<endpoints, stream, watcher, queue>>

\* applied_objects passes no deletion on; an object without ready addresses
\* has no subset with addresses, and the handler returns at once.
Ignore ==
  /\ watcher.stage = "idle"
  /\ stream # << >>
  /\ Head(stream) \in {Deleted, {}}
  /\ stream' = Tail(stream)
  /\ UNCHANGED <<cluster, watcher, queue>>

TakeObject ==
  /\ watcher.stage = "idle"
  /\ stream # << >>
  /\ Head(stream) \notin {Deleted, {}}
  /\ watcher' = [stage |-> "get_service", addresses |-> Head(stream)]
  /\ stream' = Tail(stream)
  /\ UNCHANGED <<cluster, queue>>

\* An address without a node name is left out.
Grouped(addresses) == [n \in Node |-> {p \in addresses : NodeOf[p] = n}]
NodeCount(addresses) == Cardinality({n \in Node : Grouped(addresses)[n] # {}})

\* An error, no nodeport, or pods on one node only: the change is dropped.
DropChange ==
  /\ watcher.stage = "get_service"
  /\ ApiMayFail \/ nodeport = NoPort \/ NodeCount(watcher.addresses) = 1
  /\ watcher' = WatcherIdle
  /\ UNCHANGED <<cluster, stream, queue>>

\* The nodeport is the one the Service has now.
Publish ==
  /\ watcher.stage = "get_service"
  /\ nodeport # NoPort
  /\ NodeCount(watcher.addresses) # 1
  /\ queue' = Send(queue, [kind |-> "service",
                           svc |-> [port |-> nodeport, pods |-> Grouped(watcher.addresses)]])
  /\ watcher' = WatcherIdle
  /\ UNCHANGED <<cluster, stream>>

\* try_for_each stops at the first error of the stream: the task returns, and
\* nobody looks at its handle.
WatchError ==
  /\ WatchMayFail
  /\ watcher.stage = "idle"
  /\ watcher' = WatcherEnded
  /\ UNCHANGED <<cluster, stream, queue>>

Watch == Ignore \/ TakeObject \/ DropChange \/ Publish
=============================================================================
