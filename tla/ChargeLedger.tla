----------------------------- MODULE ChargeLedger -----------------------------
(***************************************************************************)
(* What the scheduler extender promises about the CPU scores it places     *)
(* pods by, with no handlers, no mutex and no second map: the node that a  *)
(* request has chosen is charged once for the pod it gets, and until the   *)
(* charge is old only another such request changes its score.  Extender    *)
(* implements this module.                                                 *)
(***************************************************************************)
EXTENDS Integers

CONSTANTS
  Node,
  Request,
  Penalty,  \* what a pod costs each node
  None,     \* no score is known
  Nowhere   \* no node is chosen

Cpu == Nat \union {None}

VARIABLES
  offer,   \* the CPU score that requests are answered from
  charged, \* the nodes with a charge that is not yet old
  chosen   \* the best node so far, of each request under way

ledger == <<offer, charged, chosen>>

Init ==
  /\ offer = [n \in Node |-> None]
  /\ charged = {}
  /\ chosen = [r \in Request |-> Nowhere]

\* A request finds a node, or a better one than it had.
Choose(r, n) ==
  /\ offer[n] # None
  /\ chosen' = [chosen EXCEPT ![r] = n]
  /\ UNCHANGED <<offer, charged>>

\* The node chosen last gets the pod, and the request is over.
Place(r) ==
  /\ chosen[r] # Nowhere
  /\ offer' = [offer EXCEPT ![chosen[r]] = IF @ > Penalty[chosen[r]] THEN @ - Penalty[chosen[r]] ELSE 0]
  /\ charged' = charged \union {chosen[r]}
  /\ chosen' = [chosen EXCEPT ![r] = Nowhere]

\* Probers are heard: about nodes without a recent charge they may say
\* anything, and no score that is known is lost.
Hear ==
  /\ offer' \in [Node -> Cpu]
  /\ \A n \in Node : offer[n] # None => offer'[n] # None
  /\ \A n \in charged : offer'[n] = offer[n]
  /\ UNCHANGED <<charged, chosen>>

\* The charge is old; the score stays until the prober is heard again.
Settle(n) ==
  /\ n \in charged
  /\ charged' = charged \ {n}
  /\ UNCHANGED <<offer, chosen>>

\* The maps are in memory only.
Restart ==
  /\ offer' = [n \in Node |-> None]
  /\ charged' = {}
  /\ chosen' = [r \in Request |-> Nowhere]

Next ==
  \/ Hear \/ Restart
  \/ \E r \in Request : Place(r) \/ \E n \in Node : Choose(r, n)
  \/ \E n \in Node : Settle(n)

Spec == Init /\ [][Next]_ledger
=============================================================================
