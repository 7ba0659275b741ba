CONSTANTS
  Servers = {s1}
  Clients = {c1}
  Master = Master
  Database = Database
  Keys = {1}
  Values = {v1}
  None = None
  OldValues = {v1}
  MayKill = TRUE
  MaxStarts = 1
  MaxAborts = 1
SPECIFICATION Spec
CHECK_DEADLOCK FALSE
INVARIANT AckedDeletesServed
