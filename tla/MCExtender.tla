------------------------------- MODULE MCExtender -------------------------------
(* Two requests at a time over two nodes.  The second charge takes the first  *)
(* node below the CPU threshold; the second node is too slow for the filter,  *)
(* and not every prober knows of it.                                          *)
EXTENDS Extender, TLC

CONSTANTS n1, n2

Near == [cpu |-> 2, latency |-> 1]
Slow == [cpu |-> 2, latency |-> 0]
MCAnswers == {n1 :> Near @@ n2 :> Slow, n1 :> Near @@ n2 :> NoScore}
MCNormMaps == {n1 :> 0 @@ n2 :> 1}
MCPenalty == n1 :> 1 @@ n2 :> 2
=============================================================================
