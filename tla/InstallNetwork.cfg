CONSTANTS
  Agents = {a1, a2}
  Games = {g1}
  Archived = {g1}
  Requests = {r1, r2}
  QueueCap = 2
  MaxRecent = 1
  Files = 1
  Env = {"overlap", "lose_report", "disconnect", "download_fail", "extract_fail"}
  NoAgent = NoAgent
  NoJob = NoJob
  NoDir = NoDir
SPECIFICATION Spec
SYMMETRY Symmetry
INVARIANTS
  TypeOK
  CurrentIsTracked
  HistoryMatchesDevice
CHECK_DEADLOCK FALSE
