SPECIFICATION Spec
CONSTANTS
  Resources <- VirtioResources
  Attachments = {"att1", "att2"}
  Vms = {"vm1", "vm2"}
  Kind <- VirtioKind
  Needs <- VirtioNeeds
  ShareOf <- VirtioShareOf
  VmOf <- VirtioVmOf
INVARIANT DetachmentEnsured
CHECK_DEADLOCK FALSE
