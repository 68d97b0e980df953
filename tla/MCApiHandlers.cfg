SPECIFICATION Spec
CONSTANTS
  ClientIds = {c1, c2}
  SaveMayFail = TRUE
  Workers = {w1, w2}
  MaxRequests = 4
  NoClient = NoClient
  NoRequest = NoRequest
SYMMETRY Symmetry
INVARIANTS TypeOK AckedChangesHold TokensAreCurrent AnswersAreAudited RegistryIsAudited
PROPERTY AuditAppendOnly
