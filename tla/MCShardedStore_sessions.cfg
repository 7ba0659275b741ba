CONSTANTS
  Servers = {s1, s2}
  Clients = {c1}
  Master = Master
  Database = Database
  Keys = {0, 1}
  Values = {v1}
  None = None
  OldValues = {None}
  MayKill = TRUE
  MaxStarts = 3
  MaxAborts = 1
SPECIFICATION FairSpec
CHECK_DEADLOCK FALSE
INVARIANTS TypeOK SessionsAccounted LeaksBounded AckedSetsAndGetsServed
PROPERTY CallsEnd
