CONSTANTS
  Titles = {t1, t2}
  Edits = {e1}
  Scans = {s1, s2}
  Envs <- MCEnvs
  MaxVersion = 2
  MaxGame = 2
  None = None
SPECIFICATION FairSpec
INVARIANT TypeOK OneRowPerDirectory ReleaseVersionWins
PROPERTY LibrarySettles
CHECK_DEADLOCK FALSE
