\* CHECK_DEADLOCK: the threads that never end are not steps of the model.
CONSTANTS
  MaxSignals = 3
  MaxPackets = 2
  Metric = {"fetcher", "worker"}
  CounterModulus = 2
  UPDATECOUNTERSTIMER = 1
SPECIFICATION FairSpec
CHECK_DEADLOCK FALSE
INVARIANTS AtMostOneLate RatesRight
PROPERTIES StoppedJoins QueueDrained PacketsReported
