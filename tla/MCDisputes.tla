----------------------------- MODULE MCDisputes -----------------------------
(* Calls and disputes are interchangeable: the routes compare ids only.       *)
EXTENDS Disputes, TLC

Symmetry == Permutations(Requests) \cup Permutations(Disputes)
=============================================================================
