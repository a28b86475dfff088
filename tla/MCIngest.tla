----------------------------- MODULE MCIngest -----------------------------
(***************************************************************************)
(* Small files for TLC.  A reference in capitals is the upper case of the    *)
(* same one in small letters.                                                *)
(***************************************************************************)
EXTENDS Ingest, TLC

CONSTANTS d1, d2, d3

MCUpper(ref) == IF ref = "r-1" THEN "R-1" ELSE ref
MCRowLabel(n) == <<"row-1", "row-2", "row-3">>[n]

File(channel, source, name, rows) ==
  [channel |-> channel, source |-> source, name |-> name, rows |-> rows]
Row(ref, amount) == [ref |-> ref, settlement |-> None, concept |-> "venta", amount |-> amount]
NoAmount == Row("ch_2", None)
Settled(settlement, amount) == [Row(None, amount) EXCEPT !.settlement = settlement]

(* A statement of three batches with a row met twice, a sales report with a  *)
(* bad row, tickets without an id, and one order, charge and bank movement   *)
(* that reach the ledger by several paths.                                   *)
MCFiles ==
  {File("bank_csv", None, "enero.csv", <<Row("R-1", 1), Row(None, 2), Row(None, 2)>>),
   File("provider_csv", "stripe", "ventas.csv", <<Row("ch_1", 3), NoAmount, Row("ch_1", 3)>>),
   File("facturador", "caja", "caja.csv", <<Row(None, 4), Row("row-1", 5)>>),
   File("open_banking", "bbva", "ob", <<Row("r-1", 6), Row("R-1", 6)>>),
   File("redsys", "redsys", "tpv", <<Row("o-1", 7)>>),
   File("redsys", "redsys", "void", <<Row(None, 7)>>),
   File("stripe_event", "stripe", "hook", <<Row("ch_1", 8)>>),
   File("stripe_sync", "stripe", "sync", <<Row("ch_1", 8), Row("po_1", 9)>>)}

(* A report whose lines carry the settlement and no reference of their own.  *)
SettlementFiles ==
  {File("provider_csv", "tpv", "liquidacion.csv", <<Settled("L-7", 1), Settled("L-7", 2)>>)}

DeliverySymmetry == Permutations(Deliveries)
=============================================================================
