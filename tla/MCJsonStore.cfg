SPECIFICATION Spec
CONSTANTS
  Stores = {keys, clients}
  Docs = {d1, d2}
  TempNames = {t1, t2, t3}
  Partial = Partial
  None = None
INVARIANTS TypeOK NoStrayTemp
PROPERTY AtomicSave
