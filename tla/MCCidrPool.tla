------------------------------ MODULE MCCidrPool ------------------------------
(* CidrPool on small sets of goroutines, nodes and addresses, see the cfgs. *)
EXTENDS CidrPool
=============================================================================
