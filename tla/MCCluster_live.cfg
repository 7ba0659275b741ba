CONSTANTS
  s1 = s1
  s2 = s2
  s3 = s3
  h1 = h1
  Servers = {s1, s2}
  Clients = {c1}
  Hosts = {h1}
  HostOf <- OneHost
  Tries = 4
  Foreign <- FirstPort
  Master = Master
  NULL = NULL
  EntrySize = 18
  MaxReply = 54
  MaxDataNum = 4
  MaxKills = 1
  MaxMasters = 1
  Cells <- MCCells
SPECIFICATION FairSpec
INVARIANTS WalksEnd ReplyCoversList OpenIsWhole
PROPERTIES StartsUp CreateDBEnds
