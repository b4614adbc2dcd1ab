\* A period of the timer is no multiple of that of the heartbeats.
CONSTANTS
  healthtimer = 2
  timespan = 5
SPECIFICATION FairSpec
INVARIANTS HeardOfLately SteadyIsUp
PROPERTY KilledIsBypassed
