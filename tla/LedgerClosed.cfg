SPECIFICATION HistorySpec
CONSTANTS
  None = None
  FloatEdge = "on"
  NormOf <- MCNorm
  Banks = {1}
  Legs <- SharedLegs
  BankRow <- SharedBankRow
  LegRow <- SharedLegRow
  ProviderOf <- SharedProviderOf
  Imported <- SharedImported
  Providers <- OneProvider
  Contracts <- NoContracts
  Windows <- AllRows
  Periods <- AllRows
  w1 = w1
  w2 = w2
  Workers = {w1}
  MaxInFlight = 1
  MaxOps = 4
  BatchSize = 1
  AuditLimit = 5
  OutOfOrder = FALSE
PROPERTY ClosedPeriodStaysClosed
CHECK_DEADLOCK FALSE
