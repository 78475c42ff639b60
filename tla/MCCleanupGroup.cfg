SPECIFICATION Spec
CONSTANTS
  Resources <- GroupResources
  Kind <- GroupKind
  Needs <- GroupNeeds
  Members <- GroupMembers
  ClassScope <- GroupClassScope
  SuppressErrors = TRUE
PROPERTIES LedgerSpec ClearEnds
CHECK_DEADLOCK FALSE
