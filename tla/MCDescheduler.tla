----------------------------- MODULE MCDescheduler -----------------------------
(* Two nodes, two pods that are idle under one policy and not under the other. *)
(* A third policy has an interval that no ticker accepts and a threshold that  *)
(* is not whole.                                                               *)
EXTENDS Descheduler, TLC

CONSTANTS a, b, t75_5

On == [enabled |-> TRUE, intervalSeconds |-> 120, idleCPUThreshold |-> 75]
Off == [enabled |-> FALSE, intervalSeconds |-> 120, idleCPUThreshold |-> 10]
Odd == [enabled |-> TRUE, intervalSeconds |-> -5, idleCPUThreshold |-> t75_5]
MCSpecs == {On, Off, Odd}
MCUsage == a :> 20 @@ b :> 50
=============================================================================
