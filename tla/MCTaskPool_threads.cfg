CONSTANTS
  t1 = t1
  Tasks = {t1, t2}
  Clients = {c1, c2}
  Fds = {f1, f2}
  Nodes = {n1, n2}
  MaxLen = 2
  Gone = Gone
  None = None
SPECIFICATION FairSpec
INVARIANTS TypeOK QueuesExact NeverNull RepliesReachAsker
CONSTRAINT Explored
PROPERTY Served
