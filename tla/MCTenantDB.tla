---------------------------- MODULE MCTenantDB ----------------------------
(***************************************************************************)
(* One tenant: the dictionaries of two have no entry in common.              *)
(***************************************************************************)
EXTENDS TenantDB, TLC

RequestSymmetry == Permutations(Requests)
=============================================================================
