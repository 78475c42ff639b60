SPECIFICATION Spec
CONSTANTS
  N = 3
  Waited <- MCWaited
  RetryNumber = 2
  MaxAttempts = 4
INVARIANTS TypeOK ReturnedAreAvailable NoneForgotten RetryBudget
PROPERTY Terminates
CHECK_DEADLOCK FALSE
