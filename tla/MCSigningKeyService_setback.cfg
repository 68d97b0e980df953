SPECIFICATION Spec
CONSTANTS
  Workers = {w1, w2}
  Kids = {k1, k2, k3}
  Ttls <- OneTtl
  Leeway = 0
  Setback = 1
  MaxTime = 5
  SaveMayFail = FALSE
  NoTime = NoTime
  NoKid = NoKid
SYMMETRY Symmetry
INVARIANTS TypeOK IInv ExactlyOneActive LiveTokenPublished DemotedNeverActive KeptForRetention
