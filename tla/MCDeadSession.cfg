\* Four sequence numbers; the ends send three packets by themselves.
CONSTANTS
  SeqModulus = 4
  MaxTalk = 3
SPECIFICATION FairSpec
INVARIANTS RemovedWhenSilent
PROPERTY DeadSessionRemoved
