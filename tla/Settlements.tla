---------------------------- MODULE Settlements ----------------------------
(***************************************************************************)
(* Every settlement of one provider: legs are added one by one, then the     *)
(* bank pays an amount near what the contract says.  The decisions of        *)
(* Matching are compared with a reference that computes the fee due exactly, *)
(* with one rounding to the cent at the end, which is how a gateway pays.    *)
(***************************************************************************)
EXTENDS Matching, Sequences

CONSTANTS
  Terms,      \* contracts; None is no contract
  Grosses,    \* gross amounts of a leg, in ticks; a refund is negative
  Withheld,   \* what the gateway keeps on top of the fee it is due
  Offsets,    \* what the bank payment misses the settlement by
  Days,       \* days of a leg; the bank row is of day 10
  MaxLegs     \* bound: legs of a settlement

\* A leg of amount zero has no sale behind it: resolve_gross would skip it.
ASSUME SettlementAssumption ==
  /\ None \notin Int
  /\ \A t \in Terms : t = None \/ t \in ContractTerms
  /\ Grosses \subseteq Int \ {0} /\ Withheld \subseteq Int /\ Offsets \subseteq Int
  /\ NormRef("S-7") # None /\ NormRef("s-7") = NormRef("S-7")

VARIABLES
  contract,   \* the contract of the provider
  sales,      \* the legs of the settlement
  paid        \* the amount of the bank row, None before it is paid

settlement == <<contract, sales, paid>>

(***************************************************************************)
(* The reference: 100000 times the fee due on an amount.                     *)
(***************************************************************************)
FeeDue(gross, t) ==
  LET fee == (Magnitude(gross) * NonNegative(t.pct) + NonNegative(t.fixed) * 1000) * (100 + t.iva)
  IN  IF gross >= 0 THEN fee ELSE -fee

RoundToCent(ticks) == ((ticks + 50) \div 100) * 100

\* What a gateway that honours the contract pays for an amount: to the cent.
HonestNet(gross, t) == IF t = None THEN gross ELSE RoundToCent(gross - FeeDue(gross, t) \div 100000)

\* A leg as a gateway reports it: with its gross in the gross or the amount column.
Reported(gross, net, column, link, day) ==
  [amount |-> IF column = "amount" THEN gross ELSE net,
   gross  |-> IF column = "gross" THEN gross ELSE None,
   fee |-> None, net |-> net,
   ref    |-> IF link = "ref" THEN "s-7" ELSE "X-1",
   settle |-> IF link = "settle" THEN "S-7" ELSE None,
   day |-> day]

GrossOf(p) == IF p.gross # None THEN p.gross ELSE p.amount

Stamps == [i \in DOMAIN sales |-> ApplyContractRecalc(sales[i], contract)]
Group == DOMAIN sales
Payment == [amt |-> paid, ref |-> None, settle |-> "s-7", day |-> 10]
Links(i) == [Payment EXCEPT !.ref = "S-7"]

GrossSum == SumFunction([i \in Group |-> GrossOf(sales[i])])
DueSum == SumFunction([i \in Group |-> FeeDue(GrossOf(sales[i]), contract)])
NetSum == SumFunction([i \in Group |-> sales[i].net])

SettlementInit == contract \in Terms /\ sales = <<>> /\ paid = None

AddLeg(gross, withheld, column, link, day) ==
  /\ paid = None /\ Len(sales) < MaxLegs
  /\ sales' = Append(sales, Reported(gross, HonestNet(gross, contract) - withheld, column, link, day))
  /\ UNCHANGED <<contract, paid>>

Pay(offset) ==
  /\ paid = None /\ sales # <<>>
  /\ paid' = NetSum + offset
  /\ UNCHANGED <<contract, sales>>

SettlementNext ==
  \/ \E gross \in Grosses, withheld \in Withheld, column \in {"gross", "amount"},
        link \in {"ref", "settle"}, day \in Days : AddLeg(gross, withheld, column, link, day)
  \/ \E offset \in Offsets : Pay(offset)

SettlementSpec == SettlementInit /\ [][SettlementNext]_settlement

(***************************************************************************)
(* Properties of a paid settlement                                           *)
(***************************************************************************)
Paid == paid # None

\* "Bank must match contract-recalculated net": a settlement under contract is
\* confirmed only when the bank withheld the fee due on the gross of all its
\* sales and refunds, to the cent and the roundings of its legs.
ConfirmedAtContract ==
  Paid /\ contract # None /\ Confirms1toN(Payment, Group, sales, Stamps) =>
    Magnitude((GrossSum - paid) * 100000 - DueSum) <= 100000 * Cent + 50000 * Len(sales)

\* A sale or refund whose gross is reported, paid to the cent as the contract
\* says and in time, is confirmed whatever net the gateway declares for it.
HonestLegIsConfirmed ==
  Paid /\ contract # None =>
    \A i \in Group : /\ paid = HonestNet(GrossOf(sales[i]), contract)
                     /\ ~DatesTooFar(Payment, sales[i])
      => Confirms1to1(Links(i), sales[i], Stamps[i])

\* gross_up_from_net: whatever net a gateway declares for a sale, the gross it
\* infers from it has that net, to the tick.
GrossUpInverts ==
  \A t \in Terms \ {None} : \A i \in Group : sales[i].net > 0 /\ CanGrossUp(t) =>
    Magnitude(NetOnGross(GrossUp(sales[i].net, t), t) - sales[i].net) <= 1

\* "Bank must match contract-recalculated net": a settlement every leg of which
\* is paid to the cent as the contract says is not blocked, and so not disputed.
HonestSettlementIsNotDisputed ==
  Paid /\ contract # None /\ (\A i \in Group : sales[i].net = HonestNet(GrossOf(sales[i]), contract))
       /\ paid = NetSum
    => ~Blocks1toN(Payment, Group, sales, Stamps)
=============================================================================
