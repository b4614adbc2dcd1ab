\* Two neighbors, two descriptors, a key; up to three commands and three acts of the peers.
CONSTANTS
  p1 = p1  p2 = p2
  NoKey = NoKey  k1 = k1
  Peer = {p1, p2}
  Key = {NoKey, k1}
  MaxFd = 2
  MaxPending = 1
  MaxPeer = 3
  MaxCli = 3
  MaxActs = 5
  Retry = 1
  Dead = 1
  ConnectTicks = 1
SPECIFICATION Spec
SYMMETRY Symmetry
CHECK_DEADLOCK FALSE
INVARIANTS SockLeadsHome UpIsRecent NoEdgeLost IdIsItsOwn
