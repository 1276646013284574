------------------------------ MODULE RuleChoice ------------------------------
(***************************************************************************)
(* What update_nftables promises, without saying how: the call either      *)
(* leaves the ruleset alone or asks nft for one rule, a function from the  *)
(* draws of numgen to pods that may receive traffic.  SlotAllocation is    *)
(* shown to implement it, and the actor builds on its two conditions.      *)
(***************************************************************************)
EXTENDS Eligibility

CONSTANTS MaxPods, Caps

VARIABLES
  pods, data, cap,   \* the arguments of the call
  decision           \* "pending", "skip", or "rule" with the draws it maps

\* A call that may build a rule does build one, unless the slots are so few
\* that rounding can leave every node with fewer slots than pods.
MaySkip(p, d, c) ==
  \/ ~MayBuild(p, d)
  \/ c < Cardinality(Kept(p, d)) * (MaxPods + 1)

Pending == [kind |-> "pending", draws |-> << >>]
Skip == [kind |-> "skip", draws |-> << >>]

Init ==
  /\ pods \in [Node -> 0..MaxPods]
  /\ cap \in Caps
  /\ decision = Pending

DecideSkip ==
  /\ decision = Pending
  /\ MaySkip(pods, data, cap)
  /\ decision' = Skip
  /\ UNCHANGED <<pods, data, cap>>

DecideRule ==
  /\ decision = Pending
  /\ MayBuild(pods, data)
  /\ \E m \in 0..(cap - 1) :
       /\ decision'.draws \in [0..(m - 1) -> KeptPods(pods, data)]
       /\ decision' = [kind |-> "rule", draws |-> decision'.draws]
  /\ UNCHANGED <<pods, data, cap>>

Next == DecideSkip \/ DecideRule

Spec == Init /\ [][Next]_<<pods, data, cap, decision>>
=============================================================================
