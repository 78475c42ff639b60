SPECIFICATION Spec
CONSTANTS
  Tests <- MCPromoteBack
  MaxRounds = 1
  MaxFaults = 1
INVARIANT ActiveReplicaNotListed
CHECK_DEADLOCK FALSE
