\* Four buffers of memory: two at start, one more when fewer than two are free.
CONSTANTS
  p1 = p1  p2 = p2  p3 = p3  p4 = p4
  pool = pool  staging = staging
  NULL = NULL
  Packet = {p1, p2, p3, p4}
  Queue = {pool, staging}
  Pool = pool
  Staging = staging
  QlenModulus = 8
  Initial = 2
  Min = 2
  Alloc = 1
SPECIFICATION PoolFairSpec
INVARIANTS PoolIntact GetNeverFails
PROPERTIES StepsAreQueueOperations LowPoolWakes GetReturns
CHECK_DEADLOCK FALSE
