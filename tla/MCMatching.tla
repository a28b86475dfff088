---------------------------- MODULE MCMatching ----------------------------
(***************************************************************************)
(* Small settlements for TLC, and the spellings of their references.         *)
(***************************************************************************)
EXTENDS Settlements, TLC

MCNorm == [r \in {"s-7", "S-7", "X-1"} |-> IF r = "s-7" THEN "S-7" ELSE r] @@ (None :> None)

Percent(p, fixed, iva) == [pct |-> p, fixed |-> fixed, iva |-> iva]
MCTerms == {None, Percent(14, 500, 21), Percent(10, 0, 0), Percent(-5, 300, 10)}
TwoTerms == {None, Percent(10, 0, 0)}
MCGrosses == {15000, 19900, -5000}
SettlementGrosses == {15000, 19900}
MCWithheld == {0, 100, 300}
NothingWithheld == {0}
MCOffsets == {0, 100, 300, -5000}
NoOffset == {0}
=============================================================================
