\* The time of day is beyond a long, as in the code (1.7e12 and 2^31 - 1).
CONSTANTS
  Epoch = 10
  LongMax = 7
  MaxCommands = 2
  MaxOutages = 1
  MaxQueue = 2
SPECIFICATION FairSpec
INVARIANT TypeOK
PROPERTY PowerShown
PROPERTY FailureNoticed
PROPERTY SyncedInTheEnd
\* A node that is switched off may stay off.
CHECK_DEADLOCK FALSE
