CONSTANTS
  Agents = {a1, a2}
  Games = {g1}
  Archived = {g1}
  Requests = {r1, r2}
  QueueCap = 2
  MaxRecent = 1
  Files = 1
  Env = {}
  NoAgent = NoAgent
  NoJob = NoJob
  NoDir = NoDir
SPECIFICATION Spec
INVARIANT TempDirServesItsJob
CHECK_DEADLOCK FALSE
