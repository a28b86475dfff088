SPECIFICATION HistorySpec
CONSTANTS
  None = None
  FloatEdge = "on"
  NormOf <- MCNorm
  Banks = {1, 2}
  Legs <- OverlapLegs
  BankRow <- OverlapBankRow
  LegRow <- SharedLegRow
  ProviderOf <- SharedProviderOf
  Imported <- SharedImported
  Providers <- OneProvider
  Contracts <- NoContracts
  Windows <- AllRows
  Periods = {}
  w1 = w1
  w2 = w2
  Workers = {w1}
  MaxInFlight = 1
  MaxOps = 2
  BatchSize = 1
  AuditLimit = 5
  OutOfOrder = FALSE
INVARIANT EveryEvidenceAgrees
CHECK_DEADLOCK FALSE
