------------------------------- MODULE MCNodePath -------------------------------
(* NodePath on a worker and a control-plane node. *)
EXTENDS NodePath

CONSTANTS w1, cp
=============================================================================
