CONSTANTS
  Servers = {s1}
  Clients = {c1, c2}
  Master = Master
  Database = Database
  Keys = {0, 1}
  Values = {v1, v2}
  None = None
  OldValues = {None, v1, v2}
  MayKill = FALSE
  MaxStarts = 1
  MaxAborts = 1
SPECIFICATION Spec
CHECK_DEADLOCK FALSE
SYMMETRY ClientSymmetry
PROPERTY ImplementsOneStore
