CONSTANTS
  s1 = s1
  s2 = s2
  s3 = s3
  h1 = h1
  Servers = {s1}
  Clients = {}
  Hosts = {h1}
  HostOf <- OneHost
  Tries = 2
  Foreign <- FirstPort
  Master = Master
  NULL = NULL
  EntrySize = 18
  MaxReply = 1012
  MaxDataNum = 128
  MaxKills = 0
  MaxMasters = 0
  Cells <- MCCells
SPECIFICATION Spec
CHECK_DEADLOCK FALSE
INVARIANT NewServerListed
