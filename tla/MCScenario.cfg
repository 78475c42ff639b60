SPECIFICATION Spec
CONSTANTS
  Resources <- MCResources
  Attachments = {"att"}
  Vms = {"vm"}
  Kind <- MCKind
  Needs <- MCNeeds
  ShareOf <- MCShareOf
  VmOf <- MCVmOf
INVARIANTS TypeOK DependentsFirst NoSilentLeak
PROPERTY EveryCallbackCalled
CHECK_DEADLOCK FALSE
