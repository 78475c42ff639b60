SPECIFICATION Spec
CONSTANTS
  BuildTimeout = 2
  MigrationTimeout = 3
  BuildInterval = 3
  AttachmentTimeout = 3
  AttachmentInterval = 4
  TicksPerSecond = 2
  MaxLatency = 2
  Horizon <- MCHorizon
INVARIANTS TypeOK FreshSuccess NoTimeoutOnceSettled NoEarlyTimeout BoundedWait
PROPERTIES AtomicWaitSpec Terminates
CHECK_DEADLOCK FALSE
