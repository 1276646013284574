------------------------------ MODULE MCProberNode ------------------------------
(* ProberNode on two nodes.  The service loses pod a and gains pod c; it is  *)
(* also seen without any pod, and a node's CPU beyond the limit.            *)
EXTENDS ProberNode, TLC

CONSTANTS n1, n2, a, b, c

MCPodMaps ==
  {n1 :> {a} @@ n2 :> {b}, n1 :> {c} @@ n2 :> {b}, n1 :> {} @@ n2 :> {}}
MCSamples == [latency |-> {7}, cpu |-> {50, 99}]
=============================================================================
