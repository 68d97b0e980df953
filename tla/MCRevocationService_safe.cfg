SPECIFICATION FairSpec
CONSTANTS
  Jtis = {j1}
  Admins = {a1, a2}
  Verifiers = {v1}
  Ttls <- TwoTtls
  Leeway = 0
  Setback = 1
  Horizons = {"supplied", "default"}
  MaxTime = 5
  SaveMayFail = TRUE
  None = None
INVARIANTS TypeOK RevokedNeverAccepted RevokedPassesOnlyLate RevocationIsDurable EntriesLinger IInv
PROPERTY EntriesDrain
