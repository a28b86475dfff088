SPECIFICATION SettlementSpec
CONSTANTS
  None = None
  FloatEdge = "below"
  NormOf <- MCNorm
  Terms <- TwoTerms
  Grosses <- SettlementGrosses
  Withheld <- NothingWithheld
  Offsets <- NoOffset
  Days = {10}
  MaxLegs = 3
INVARIANT HonestSettlementIsNotDisputed
CHECK_DEADLOCK FALSE
