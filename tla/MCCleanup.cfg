SPECIFICATION Spec
CONSTANTS
  Resources <- MCResources
  Kind <- MCKind
  Needs <- MCNeeds
  Members <- MCMembers
  ClassScope <- MCClassScope
  SuppressErrors = FALSE
INVARIANTS TypeOK DeletedIsGone NoSelfInflictedRefusal
PROPERTIES LedgerSpec ClearEnds
CHECK_DEADLOCK FALSE
