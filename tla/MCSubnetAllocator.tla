-------------------------- MODULE MCSubnetAllocator --------------------------
(* SubnetAllocator for TLC: octets of four values, every base and size.      *)
EXTENDS SubnetAllocator, TLC

LB == <<1, 1>>
Symmetry == Permutations(Names)
=============================================================================
