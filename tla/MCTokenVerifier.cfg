SPECIFICATION VerifierSpec
CONSTANTS
  Workers = {w1}
  Kids = {k1, k2}
  Ttls <- OneTtl
  Leeway = 1
  Setback = 0
  MaxTime = 3
  SaveMayFail = FALSE
  NoTime = NoTime
  NoKid = NoKid
  DefectSets <- FewDefects
  NoCall = NoCall
SYMMETRY Symmetry
INVARIANTS VerifierTypeOK NoFalseRejection ClaimsOnlyIfSigned NoFalseAcceptance
