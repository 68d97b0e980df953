SPECIFICATION Spec
CONSTANTS
  Jtis = {j1}
  Admins = {a1}
  Verifiers = {v1}
  Ttls <- OneTtl
  Leeway = 2
  Setback = 0
  Horizons = {"supplied", "default"}
  MaxTime = 5
  SaveMayFail = FALSE
  None = None
INVARIANT RevokedNeverAccepted
