SPECIFICATION Spec
CONSTANTS
  Drafts = {1, 2}
  Requests = {r1, r2, r3}
  NoRequest = NoRequest
PROPERTY NothingSentAfterReject
CHECK_DEADLOCK FALSE
