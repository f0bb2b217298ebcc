----------------------------- MODULE MCCidrMath -----------------------------
(* CidrMath on addresses of two bytes of two bits: every network, every pair *)
(* of subnets in every block.                                                *)
EXTENDS CidrMath
=============================================================================
