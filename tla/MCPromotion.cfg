SPECIFICATION Spec
CONSTANTS
  Tests <- MCTests
  MaxRounds = 2
  MaxFaults = 3
INVARIANTS TypeOK CleanedUpWhereverItFails NoSilentLeak NoFalseAlarm
PROPERTY CleanupEnds
CHECK_DEADLOCK FALSE
