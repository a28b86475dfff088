--------------------------- MODULE ContractMath ---------------------------
(***************************************************************************)
(* The contract arithmetic of services/contract_math.py and the independent *)
(* recalculation of services/contractual_audit.py, over integers.           *)
(*                                                                         *)
(* Amounts are in ticks of 0.0001 euro, the precision the code rounds to    *)
(* (round(x, 4)); fee percentages are in tenths of a percent and the IVA    *)
(* rate in percent.  A missing value (Python None) is the constant None.    *)
(***************************************************************************)
EXTENDS Integers

CONSTANT None        \* Python's None: a column without a value

Magnitude(x) == IF x < 0 THEN -x ELSE x

NonNegative(x) == IF x < 0 THEN 0 ELSE x

\* round(numerator / denominator) for a numerator >= 0.
RoundedQuotient(num, den) == (num + den \div 2) \div den

Cent == 100                      \* 0.01 euro in ticks
CONTRACT_AUDIT_TOLERANCE == 200  \* 0.02 euro in ticks

(***************************************************************************)
(* A contract: fee percentage, fixed fee per sale, and the IVA rate charged *)
(* on the fees (0 when has_iva is false).                                   *)
(***************************************************************************)
ContractTerms == [pct : Int, fixed : Int, iva : Nat]

\* 100 times the multiplier that IVA puts on the fees.
IvaFactor(terms) == 100 + terms.iva

\* fee_on_gross(...)["fee_total"]: negative percentages and fixed fees count as 0.
FeeTotal(gross, terms) ==
  RoundedQuotient(
    (Magnitude(gross) * NonNegative(terms.pct) + NonNegative(terms.fixed) * 1000)
      * IvaFactor(terms),
    100000)

\* fee_on_gross(...)["net"]: a refund (gross < 0) has its fees given back.
NetOnGross(gross, terms) ==
  IF gross >= 0 THEN gross - FeeTotal(gross, terms) ELSE gross + FeeTotal(gross, terms)

\* The denominator of gross_up_from_net, scaled by 100000.
GrossUpDenominator(terms) == 100000 - NonNegative(terms.pct) * IvaFactor(terms)

CanGrossUp(terms) == GrossUpDenominator(terms) > 1000

\* Mutant: IVA is not charged on the fixed fee.
GrossUpFixedWithoutIva(net, terms) ==
  RoundedQuotient((net * 100 + NonNegative(terms.fixed) * 100) * 1000, GrossUpDenominator(terms))

\* gross_up_from_net(...)["inferred_gross"], for terms that can be inverted.
GrossUp(net, terms) ==
  RoundedQuotient((net * 100 + NonNegative(terms.fixed) * IvaFactor(terms)) * 1000,
                  GrossUpDenominator(terms))

(***************************************************************************)
(* contractual_audit: which amount the fees are computed on, and what a     *)
(* provider row is stamped with.                                            *)
(***************************************************************************)
\* resolve_gross: an explicit non-zero gross, else a non-zero amount, else net.
ResolveGross(leg) ==
  IF leg.gross # None /\ leg.gross # 0 THEN leg.gross
  ELSE IF leg.amount # None /\ leg.amount # 0 THEN leg.amount
  ELSE IF leg.net # None THEN leg.net ELSE 0

GatewayNet(leg) ==
  IF leg.net # None THEN leg.net
  ELSE IF leg.gross # None /\ leg.fee # None THEN leg.gross - leg.fee
  ELSE None

\* A gateway that declares another net than the contract's, beyond the tolerance.
Deviates(gatewayNet, expectedNet) ==
  gatewayNet # None /\ Magnitude(gatewayNet - expectedNet) > CONTRACT_AUDIT_TOLERANCE

\* apply_contract_recalc: the audit columns of a provider row.
ApplyContractRecalc(leg, terms) ==
  LET gw       == GatewayNet(leg)
      expected == NetOnGross(ResolveGross(leg), terms)
  IN  IF terms = None
      THEN [cnet |-> None, gw |-> gw, audit |-> "no_contract"]
      ELSE [cnet |-> expected, gw |-> gw,
            audit |-> IF Deviates(gw, expected) THEN "gateway_deviation" ELSE "ok"]
=============================================================================
