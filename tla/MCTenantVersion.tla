-------------------------- MODULE MCTenantVersion --------------------------
(* Instances of TenantVersion for TLC.                                     *)
EXTENDS TenantVersion, TLC

MCSymmetry == Permutations(Requests)
=============================================================================
