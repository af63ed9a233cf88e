CONSTANTS
  Titles = {g1, g2}
  Foreign = foreign
  Procs = {p1, p2}
  Args = {a1, a2}
  Envs <- MCEnvs
  None = None
SPECIFICATION Spec
INVARIANTS TypeOK NoGhostShortcut ServerShowsDevice
PROPERTIES NothingLost ShortcutsSettle
CHECK_DEADLOCK FALSE
