---------------------------- MODULE MCAccounts ----------------------------
(***************************************************************************)
(* One account: rows, codes and challenges of two have no key in common.     *)
(***************************************************************************)
EXTENDS Accounts, TLC

WorkerSymmetry == Permutations(Workers)
=============================================================================
