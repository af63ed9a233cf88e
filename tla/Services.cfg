CONSTANTS
  Torrents = {t1}
  Nzbs = {n1}
  Setups <- MCSetups
  MaxId = 2
  MaxClient = 2
  NotFoundThreshold = 2
  None = None
  Error = Error
  Visitors = {"r1", "r2"}
  MaxTime = 3
  MaxNonce = 1
  MaxCode = 1
  NonceLife = 1
  OtpLife = 2
  SessionLife = 2
  authRateMaxAttempts = 2
  authRateWindow = 2
  Agents = {"a1", "a2"}
  Deleters = {"d1", "d2"}
  MaxToken = 8
  MaxFaults = 3
  Browsers = {"b1"}
  Handlers = {"h1"}
  Capacity = 2
  MaxChange = 2
  MaxLeave = 1
  Askers = {"r1", "r2"}
  Questions = {"home", "proton"}
  MaxNumber = 3
  Events = {"e1", "e2"}
  MaxVersion = 3
  MaxMishaps = 3
  Indexers <- MCIndexers
  Worlds <- MCWorlds
  Searches <- MCSearches
  ChanSize = 2
SPECIFICATION FairSpec
INVARIANTS
  ServicesTypeOK
  ImportedOnceInPlace
  SignInLimited
  SessionsOfTheListed
  AnswersMatch
  BinaryIsWhole
  SearchWhole
PROPERTY ServicesSettle
CHECK_DEADLOCK FALSE
