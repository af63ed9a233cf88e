CONSTANTS
  Restores = {p1, p2}
  Debounce = 2
  Backoff = 1
  Suppress = 3
  MaxVersion = 2
  Envs <- MCEnvs
SPECIFICATION FairSpec
INVARIANT TypeOK
PROPERTY SavesAreUploaded NoSpuriousUpload
CHECK_DEADLOCK FALSE
