CONSTANTS
  Agents = {a1}
  Games = {g1, g2}
  Archived = {g1}
  Requests = {r1, r2}
  QueueCap = 1
  MaxRecent = 1
  Files = 1
  Env = {"extract_fail", "download_fail", "lose_report", "disconnect", "agent_crash", "server_restart", "delete_agent"}
  NoAgent = NoAgent
  NoJob = NoJob
  NoDir = NoDir
SPECIFICATION Spec
SYMMETRY Symmetry
INVARIANTS
  JobsAreAccountedFor
CHECK_DEADLOCK FALSE
