SPECIFICATION Spec
CONSTANTS
  Resources <- ReplicaResources
  Kind <- ReplicaKind
  Needs <- ReplicaNeeds
  Members <- ReplicaMembers
  ClassScope <- ReplicaClassScope
  SuppressErrors = FALSE
PROPERTY GivenUpInErrorState
CHECK_DEADLOCK FALSE
