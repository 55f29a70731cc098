CONSTANTS
  Maps = {m1, m2, m3}
  Catalog = {m1, m2}
  DefaultMap = m1
  Tokens = {t1}
  Requests = {r1, r2}
  Operations <- Switching
  AdminUsers <- OneReader
  NoMap = NoMap
  NoRequest = NoRequest
  MaxLate = 1

SPECIFICATION Spec
SYMMETRY Symmetry
INVARIANTS
  TypeOK
  RegistryAgrees
  
