CONSTANTS
  Clients = {c1, c2}
  Fds = {f1, f2}
  Names = {n1, n2}
  Handles = {h1, h2}
  Keys = {k1}
  Values = {v1}
  None = None
  MaxDeaths = 0
  DiskMayFail = TRUE
SPECIFICATION FairSpec
PROPERTY AckedSetsStored
