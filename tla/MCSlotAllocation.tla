--------------------------- MODULE MCSlotAllocation ---------------------------
(* SlotAllocation on three interchangeable nodes, up to three pods each.   *)
EXTENDS SlotAllocation, TLC

NodeSymmetry == Permutations(Node)
=============================================================================
