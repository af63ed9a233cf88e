CONSTANTS
  Agents = {a1}
  Games = {g1, g2}
  Archived = {g1}
  Requests = {r1, r2}
  QueueCap = 1
  MaxRecent = 1
  Files = 1
  Env = {"overlap", "extract_fail", "download_fail"}
  NoAgent = NoAgent
  NoJob = NoJob
  NoDir = NoDir
SPECIFICATION FairSpec
PROPERTY JobsEnd
CHECK_DEADLOCK FALSE
