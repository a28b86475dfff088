SPECIFICATION HistorySpec
CONSTANTS
  None = None
  FloatEdge = "on"
  NormOf <- MCNorm
  Banks = {1, 2}
  Legs <- MixedLegs
  BankRow <- MixedBankRow
  LegRow <- MixedLegRow
  ProviderOf <- MixedProviderOf
  Imported <- MixedImported
  Providers <- Stripe
  Contracts <- StripeContracts
  Windows <- AllRows
  Periods = {}
  w1 = w1
  w2 = w2
  Workers = {w1, w2}
  MaxInFlight = 2
  MaxOps = 3
  BatchSize = 1
  AuditLimit = 1
  OutOfOrder = TRUE
SYMMETRY WorkerSymmetry
INVARIANTS TypeOK CountedRowsAreMatched CountedLegsAreMatched EvidenceAgrees MatchedLegIsExplained PlanUsesLegOnce
CHECK_DEADLOCK FALSE
