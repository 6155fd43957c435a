SPECIFICATION FairWatchSpec
CONSTANTS
  MaxBuffered = 1
  Pids <- MCPids
  PidModulus = 4
  Capacity = 1
  Requests <- MCRequests
  MaxSessions = 3
  MaxMessages = 0
  GGPids <- MCGGPids
  PidReuse = FALSE
  PkgGG = PkgGG
  PkgOld = PkgOld
  NoPackage = NoPackage
  GGPackage = PkgGG
  Marked <- MCFirst
  Override = NoPackage
  MaxStarts = 2
  MaxMisses = 2
INVARIANTS
  WatchTypeOK
  RemembersBridge
  OneBridgeIfSeen
  WatchInv
PROPERTIES
  ForgetsOnlyTheGone
  BridgeKept
  ShutdownCompletes
  InjectAnswered
CHECK_DEADLOCK FALSE
