--------------------------- MODULE MCConnections ---------------------------
(* Handlers and banks are interchangeable: the routes compare ids only.       *)
EXTENDS Connections, TLC

Symmetry == Permutations(Workers) \cup Permutations(Institutions)
=============================================================================
