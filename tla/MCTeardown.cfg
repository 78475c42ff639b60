SPECIFICATION Spec
CONSTANTS
  u = u
  p = p
  type = type
  share = share
  snapshot = snapshot
  net1 = net1
  net2 = net2
  member = member
  share2 = share2
  Nothing = Nothing
  Things <- MCThings
  NumClasses = 3
  Mixed = {1, 3}
  ClassOf <- MCClassOf
  Place <- MCPlace
  Early <- MCEarly
  Needs <- MCNeeds
  Owners <- MCOwners
  SuppressErrors = FALSE
  MaxFaults = 2
INVARIANTS TypeOK CleanedUpInOrder NoSilentLeak
PROPERTIES LedgerSpec WorkerEnds
CHECK_DEADLOCK FALSE
