SPECIFICATION Spec
CONSTANTS
  Versions <- MCVersions
  MinVersion <- MCMinVersion
  MaxVersion <- MCMaxVersion
INVARIANTS TypeOK Understood NoFalseDeletion FieldsHonoured VersionNeverLost InnermostProbed
