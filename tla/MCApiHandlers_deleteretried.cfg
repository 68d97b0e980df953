SPECIFICATION Spec
CONSTANTS
  ClientIds = {c1, c2}
  SaveMayFail = TRUE
  Workers = {w1, w2}
  MaxRequests = 4
  NoClient = NoClient
  NoRequest = NoRequest
INVARIANT UnknownStaysUnknown
