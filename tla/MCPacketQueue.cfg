CONSTANTS
  p1 = p1
  p2 = p2
  p3 = p3
  p4 = p4
  q1 = q1
  q2 = q2
  Packet = {p1, p2, p3, p4}
  Queue = {q1, q2}
  NULL = NULL
  QlenModulus = 64
SPECIFICATION PQSpec
INVARIANTS ListsIntact
PROPERTY ImplementsFifo
