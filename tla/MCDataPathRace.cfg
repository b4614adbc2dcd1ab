\* One session, one worker with its two threads, three packets.
CONSTANTS
  k1 = k1
  w1 = w1
  b1 = b1  b2 = b2
  Key = {k1}
  Worker = {w1}
  Buffer = {b1, b2}
  NoBuffer = NoBuffer
  Arrival <- Mixed
  MaxPackets = 3
SPECIFICATION Spec
INVARIANT NeverForgotten
\* The model ends where freed memory is used.
CHECK_DEADLOCK FALSE
