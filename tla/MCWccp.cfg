SPECIFICATION FairSpec
CONSTANTS
  NULL = NULL
  GroupId = {0, 3}
  Ip = {"r1", "r2"}
  Cache = {"us", "other"}
  View <- MCView
  Number = {1, 2}
  Client = {"c1", "c2"}
  MaxGroups = 2
  MaxServers = 2
  MaxFd = 2
  MaxActs = 2
  MaxCommands = 3
  LittleEndian = TRUE
INVARIANTS
  ListsIntact
  RoutersHeard
  OwnSocket
  WellFormed
PROPERTIES
  HellosSent
