SPECIFICATION FairSpec
CONSTANTS
  Drafts = {1, 2}
  Requests = {r1, r2, r3}
  NoRequest = NoRequest
INVARIANTS TypeOK SentIsDelivered SendsAreSerial
PROPERTIES GateHolds RequestsEnd
CHECK_DEADLOCK FALSE
