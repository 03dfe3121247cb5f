----------------------------- MODULE MCNetNode -----------------------------
(* One place for a node, one peer address, and two threads besides the     *)
(* socket thread and the message handler, so that both may end up with the *)
(* same node and race with its removal; a slot for each of them.  A        *)
(* liveness property is checked, so there is no symmetry.                  *)
EXTENDS NetNode
=============================================================================
