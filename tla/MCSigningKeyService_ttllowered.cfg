SPECIFICATION Spec
CONSTANTS
  Workers = {w1, w2}
  Kids = {k1, k2, k3}
  Ttls <- TtlLowered
  Leeway = 0
  Setback = 0
  MaxTime = 8
  SaveMayFail = FALSE
  NoTime = NoTime
  NoKid = NoKid
SYMMETRY Symmetry
INVARIANTS LiveTokenPublished
