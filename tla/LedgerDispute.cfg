SPECIFICATION HistorySpec
CONSTANTS
  None = None
  FloatEdge = "on"
  NormOf <- MCNorm
  Banks = {1, 2}
  Legs <- MixedLegs
  BankRow <- MixedBankRow
  LegRow <- MixedLegRow
  ProviderOf <- MixedProviderOf
  Imported <- MixedImported
  Providers <- Stripe
  Contracts <- StripeContracts
  Windows <- AllRows
  Periods = {}
  w1 = w1
  w2 = w2
  Workers = {w1}
  MaxInFlight = 1
  MaxOps = 3
  BatchSize = 1
  AuditLimit = 5
  OutOfOrder = FALSE
PROPERTY ConfirmedIsNotDisputed
CHECK_DEADLOCK FALSE
