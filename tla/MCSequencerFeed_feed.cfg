CONSTANTS
  FromSeq = 2
  MaxRetries = 2
  MaxLog = 3
  MaxFaults = 3
SPECIFICATION FairSpec
INVARIANTS OnlyForCause
PROPERTIES KeepsOrder StopEnds EveryCommandDealtWith
CHECK_DEADLOCK FALSE
