CONSTANTS
  s1 = s1
  s2 = s2
  s3 = s3
  h1 = h1
  Servers = {s1, s2, s3}
  Clients = {c1}
  Hosts = {h1}
  HostOf <- OneHost
  Tries = 4
  Foreign = {}
  Master = Master
  NULL = NULL
  EntrySize = 18
  MaxReply = 72
  MaxDataNum = 128
  MaxKills = 1
  MaxMasters = 0
  Cells <- MCCells
SPECIFICATION Spec
SYMMETRY Symmetry
INVARIANTS TypeOK ListSound EntriesAccounted NeverExhausted
PROPERTIES ImplementsMembership SnapshotComplete
