----------------------------- MODULE Matching -----------------------------
(***************************************************************************)
(* services/matching_engine.py: when one bank movement is confirmed,        *)
(* suggested or blocked against one provider row (1:1) or against the rows  *)
(* of a settlement (1:N).                                                   *)
(*                                                                         *)
(* A bank row is a record [amt, ref, settle, day]; a provider row (a leg) a  *)
(* record [amount, gross, fee, net, ref, settle, day]; its stamp is the      *)
(* record [cnet, gw, audit] of ContractMath!ApplyContractRecalc.             *)
(* evaluate_auto_confirm_* return a decision and a reason; what the callers  *)
(* use of them is one of three outcomes, each a predicate here: confirmed,   *)
(* suggested, or rejected for a contractual reason (a block).                *)
(***************************************************************************)
EXTENDS ContractMath, FiniteSets, FiniteSetsExt, Functions

CONSTANTS
  NormOf,     \* raw reference -> its strip().upper(); blank and None -> None
  FloatEdge   \* how |a - b| compares when it is exactly a threshold: binary
              \* floating point may put it "below", "on" or "above" it

ASSUME FloatEdgeAssumption == FloatEdge \in {"below", "on", "above"}

AUTO_CONFIRM_MAX_DAY_DIFF == 3
SUGGEST_MAX_AMOUNT_DIFF == 10000     \* 1 euro in ticks

NormRef(ref) == NormOf[ref]

\* Both given and equal after normalisation: a blank reference matches nothing.
SameRef(r, s) == NormRef(r) # None /\ NormRef(r) = NormRef(s)

Linked(b, p) == SameRef(b.ref, p.ref) \/ SameRef(b.settle, p.settle)

\* day_diff is None when a date is missing, and then no date rule applies.
DatesTooFar(b, p) ==
  /\ b.day # None /\ p.day # None
  /\ Magnitude(b.day - p.day) > AUTO_CONFIRM_MAX_DAY_DIFF

\* abs(x - y) < 0.01 and abs(x - y) <= 1.0, on floats.
Equal(x, y) ==
  \/ Magnitude(x - y) < Cent
  \/ Magnitude(x - y) = Cent /\ FloatEdge = "below"

Near(x, y) ==
  \/ Magnitude(x - y) < SUGGEST_MAX_AMOUNT_DIFF
  \/ Magnitude(x - y) = SUGGEST_MAX_AMOUNT_DIFF /\ FloatEdge # "above"

\* amount_candidates, as evaluate_auto_confirm_1to1 filters them: the contract's
\* net alone when there is one, else every amount the provider declares.
AmountCandidates(p, s) ==
  IF s.cnet # None THEN {s.cnet}
  ELSE {x \in {p.net, p.amount} : x # None}
         \cup (IF p.gross # None /\ p.fee # None THEN {p.gross - p.fee} ELSE {})

(***************************************************************************)
(* contractual_block_reason = "bank_matches_gateway_but_not_contract", the   *)
(* one reason that stops the evaluation.                                     *)
(***************************************************************************)
BankMatchesContractNet(amt, s) == s.cnet # None /\ Equal(amt, s.cnet)

\* Mutant: a deviation blocks even a bank amount that equals the contract's net.
BlocksEveryDeviation(amt, s) == s.audit = "gateway_deviation"

GatewayBlock(amt, s) ==
  /\ s.audit = "gateway_deviation" \/ s.cnet # None
  /\ ~BankMatchesContractNet(amt, s)
  /\ s.gw # None /\ Equal(amt, s.gw)

(***************************************************************************)
(* evaluate_auto_confirm_1to1                                                *)
(***************************************************************************)
Comparable(b, p) == Linked(b, p) /\ b.amt # None

AmountOk(b, p, s)   == \E c \in AmountCandidates(p, s) : Equal(b.amt, c)
AmountNear(b, p, s) == \E c \in AmountCandidates(p, s) : Near(b.amt, c)

Confirms1to1(b, p, s) ==
  /\ Comparable(b, p)
  /\ ~GatewayBlock(b.amt, s)
  /\ AmountOk(b, p, s)
  /\ ~DatesTooFar(b, p)

\* A near miss is suggested only when there is no contract to be exact about.
Suggests1to1(b, p, s) ==
  /\ Comparable(b, p)
  /\ ~GatewayBlock(b.amt, s)
  /\ ~AmountOk(b, p, s) /\ AmountNear(b, p, s) /\ s.cnet = None
  /\ ~DatesTooFar(b, p)

Blocks1to1(b, p, s) ==
  /\ Comparable(b, p)
  /\ GatewayBlock(b.amt, s) \/ (~AmountOk(b, p, s) /\ s.cnet # None)

(***************************************************************************)
(* evaluate_auto_confirm_1ton over a group G of legs, Leg and Stamp giving   *)
(* the row and the stamp of each.                                            *)
(***************************************************************************)
\* Mutant: the net the gateway declares comes before the contract's.
GatewayAmountFirst(p, s) ==
  IF p.net # None THEN p.net ELSE IF s.cnet # None THEN s.cnet ELSE 0

\* leg_amount: the contract's net, else the first amount declared.
LegAmount(p, s) ==
  IF s.cnet # None THEN s.cnet
  ELSE IF p.net # None THEN p.net
  ELSE IF p.amount # None THEN p.amount
  ELSE IF p.gross # None /\ p.fee # None THEN p.gross - p.fee
  ELSE 0

LegsSum(G, Leg, Stamp) == SumFunction([p \in G |-> LegAmount(Leg[p], Stamp[p])])

UseContract(G, Stamp) == \A p \in G : Stamp[p].cnet # None

\* The group key of a bank row: its settlement id, else its reference.
GroupKey(b) == IF NormRef(b.settle) # None THEN NormRef(b.settle) ELSE NormRef(b.ref)

Coherent(b, p) == GroupKey(b) # None /\ GroupKey(b) \in {NormRef(p.settle), NormRef(p.ref)}

\* Everything evaluate_auto_confirm_1ton checks before it compares amounts.
GroupComparable(b, G, Leg) ==
  /\ b.amt # None
  /\ Cardinality(G) >= 2
  /\ \A p \in G : Coherent(b, Leg[p]) /\ ~DatesTooFar(b, Leg[p])

Confirms1toN(b, G, Leg, Stamp) ==
  /\ GroupComparable(b, G, Leg)
  /\ Equal(b.amt, LegsSum(G, Leg, Stamp))

Suggests1toN(b, G, Leg, Stamp) ==
  /\ GroupComparable(b, G, Leg)
  /\ ~Equal(b.amt, LegsSum(G, Leg, Stamp))
  /\ Near(b.amt, LegsSum(G, Leg, Stamp))
  /\ ~UseContract(G, Stamp)

\* Mutant: the contractual block is decided before the sum is compared.
BlocksBeforeComparing(b, G, Leg, Stamp) == GroupComparable(b, G, Leg) /\ UseContract(G, Stamp)

Blocks1toN(b, G, Leg, Stamp) ==
  /\ GroupComparable(b, G, Leg)
  /\ ~Equal(b.amt, LegsSum(G, Leg, Stamp))
  /\ UseContract(G, Stamp)
=============================================================================
