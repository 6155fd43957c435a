SPECIFICATION FairSysSpec
CONSTANTS
  MaxBuffered = 1
  Pids <- MCPids
  PidModulus = 4
  Capacity = 6
  Requests <- MCShort
  MaxSessions = 2
  MaxMessages = 0
  Threads = {t1, t2}
  GGPids <- MCGGPids
  MaxDiagnostics = 1
PROPERTY CallReturns
CHECK_DEADLOCK FALSE
