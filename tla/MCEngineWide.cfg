SPECIFICATION Spec
CONSTANTS
  MaxBuffered = 1
  Pids <- MCPids
  PidModulus = 4
  Capacity = 2
  Requests <- MCWideRequests
  MaxSessions = 3
  MaxMessages = 2
INVARIANT RunsWhereAsked
CHECK_DEADLOCK FALSE
