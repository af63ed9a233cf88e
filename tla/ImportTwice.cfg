CONSTANTS
  Downloads = {d2}
  Dirs = {}
  Files = {"game", "extra", "junk"}
  Contents <- MCContents
  GameFiles = {"game"}
  Junk = {"junk"}
  Imports = {p1, p2}
  Title = Title
  Other = Other
  SameDisk = TRUE
  Envs = {{"manual"}}
  NotFoundThreshold = 2
  MaxGame = 3
  None = None
SPECIFICATION Spec
INVARIANT SourceSurvives
CHECK_DEADLOCK FALSE
