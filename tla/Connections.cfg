SPECIFICATION Spec
CONSTANTS
  None = None
  Providers = {"tink", "gocardless", "stripe"}
  Institutions = {i1, i2}
  Workers = {w1, w2}
  MaxRows = 2
  MaxSessions = 2
  MaxConsents = 2
SYMMETRY Symmetry
INVARIANTS TypeOK LastConsentStands ConnectedIsUsable
CHECK_DEADLOCK FALSE
