CONSTANTS
  Clients = {c1, c2}
  Fds = {f1, f2}
  Names = {n1, n2}
  Handles = {h1, h2}
  Keys = {k1}
  Values = {v1, v2}
  None = None
  MaxDeaths = 1
  DiskMayFail = FALSE
SPECIFICATION FairSpec
PROPERTIES ImplementsKVStore Responsive DeadReaped
