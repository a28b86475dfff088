SPECIFICATION SettlementSpec
CONSTANTS
  None = None
  FloatEdge = "on"
  NormOf <- MCNorm
  Terms <- MCTerms
  Grosses <- MCGrosses
  Withheld <- MCWithheld
  Offsets <- MCOffsets
  Days = {10, 14}
  MaxLegs = 2
INVARIANTS ConfirmedAtContract HonestLegIsConfirmed GrossUpInverts
CHECK_DEADLOCK FALSE
