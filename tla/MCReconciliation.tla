------------------------- MODULE MCReconciliation -------------------------
(***************************************************************************)
(* Small ledgers for TLC.  Amounts are in ticks (10 euro = 100000 ticks).    *)
(***************************************************************************)
EXTENDS LedgerHistory

CONSTANTS w1, w2

MCNorm == [r \in {"a-1", "A-1", "A-2", "S-7"} |-> IF r = "a-1" THEN "A-1" ELSE r]
            @@ (None :> None)

Row(amt, ref, settle) == [amt |-> amt, ref |-> ref, settle |-> settle, day |-> 1]
LegOf(gross, net, ref, settle) ==
  [amount |-> net, gross |-> gross, fee |-> None, net |-> net, ref |-> ref, settle |-> settle,
   day |-> 1]
Contract(percent) == [pct |-> 10 * percent, fixed |-> 0, iva |-> 0]

(* Row 1 is the settlement of two legs, to the cent when the contract, 4 %,  *)
(* has been applied to one of them and not to the other; row 2 has the       *)
(* reference of leg 11, under contract.  Leg 12 is of row 1 only.            *)
MixedLegs == {11, 12}
MixedBankRow ==
  [b \in {1, 2} |-> IF b = 1 THEN Row(194000, "a-1", "S-7") ELSE Row(96000, "A-2", None)]
MixedLegRow ==
  [p \in MixedLegs |-> LegOf(100000, 98000, IF p = 12 THEN "A-1" ELSE "A-2", "S-7")]
MixedProviderOf == [p \in MixedLegs |-> "stripe"]
MixedImported == {12}
Stripe == {"stripe"}
StripeContracts == [v \in Stripe |-> {None, Contract(4)}]

(* Bank rows with one reference, and two legs that answer each of them: one  *)
(* exact, one that misses by 50 cents.                                       *)
SharedLegs == {13, 14}
SharedBankRow == [b \in 1..3 |-> Row(100000, IF b = 1 THEN "A-1" ELSE "a-1", None)]
SharedLegRow == [p \in SharedLegs |-> LegOf(None, IF p = 13 THEN 100000 ELSE 95000, "A-1", None)]
SharedProviderOf == [p \in SharedLegs |-> "tpv"]
SharedImported == {}
OneProvider == {"tpv"}
NoContracts == [v \in OneProvider |-> {None}]

(* One leg: row 1 misses it by 50 cents, row 2 equals it.                    *)
OverlapLegs == {13}
OverlapBankRow == [b \in {1, 2} |-> Row(IF b = 1 THEN 95000 ELSE 100000, "A-1", None)]

(* Row 1 has two legs of its own, one exact and one that misses by 50 cents; *)
(* row 2 has none and moves the pages.                                       *)
ApartBankRow == [b \in {1, 2} |-> Row(100000, IF b = 1 THEN "a-1" ELSE "A-2", None)]

AllRows == {Banks}
WorkerSymmetry == Permutations(Workers)
=============================================================================
