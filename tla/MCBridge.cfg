SPECIFICATION SysSpec
CONSTANTS
  MaxBuffered = 2
  Pids <- MCPids
  PidModulus = 4
  Capacity = 5
  Requests <- MCMixed
  MaxSessions = 2
  MaxMessages = 3
  Threads = {t1, t2}
  GGPids <- MCGGPids
  MaxDiagnostics = 0
SYMMETRY MCThreadSymmetry
INVARIANTS
  SysTypeOK
  AgentsRegistered
  BufferExact
  RunsWhereAsked
  IInv
  OneMainCommand
  RepliesAwaited
  WaitingAccounted
  OneShotGone
  HeardOnce
  NothingLost
  SysInv
PROPERTIES
  IdsNeverReused
  ImplementsService
  ImplementsCalls
CHECK_DEADLOCK FALSE
