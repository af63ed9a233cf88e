CONSTANTS
  Agents = {a1, a2, a3}
  Keep = 1
  MaxVersion = 2
  MaxStamp = 5
  Env = {"upload_fail", "promote_fail", "delete", "quiet_play"}
  NoAgent = NoAgent
  NoConflict = NoConflict
SPECIFICATION Spec
SYMMETRY Symmetry
INVARIANTS
  LastSnapshotKept
  ConflictsAreTold
  RestoresWhole
  DevicesAgree
CHECK_DEADLOCK FALSE
