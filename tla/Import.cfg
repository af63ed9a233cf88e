CONSTANTS
  Downloads = {d1, d2}
  Dirs = {d1}
  Files = {"game", "extra", "junk"}
  Contents <- MCContents
  GameFiles = {"game"}
  Junk = {"junk"}
  Imports = {p1, p2}
  Title = Title
  Other = Other
  SameDisk = TRUE
  Envs <- MCEnvs
  NotFoundThreshold = 2
  MaxGame = 3
  None = None
SPECIFICATION FairSpec
INVARIANT TypeOK SeedsSurvive
PROPERTY WholeWhenListed ClickedGameGetsIt ImportsSettle
CHECK_DEADLOCK FALSE
