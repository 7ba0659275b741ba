CONSTANTS
  Clients = {c1, c2, c3}
  Fds = {f1, f2, f3}
  Names = {n1, n2}
  Handles = {h1, h2}
  Keys = {k1}
  Values = {v1}
  None = None
  MaxDeaths = 1
  DiskMayFail = TRUE
SPECIFICATION Spec
SYMMETRY Symmetry
INVARIANTS
  TypeOK SessionsAttached RegistryExact RefCountsCover ReferencesAccounted
