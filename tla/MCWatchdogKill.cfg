SPECIFICATION FairWatchSpec
CONSTANTS
  MaxBuffered = 1
  Pids <- MCPids
  PidModulus = 4
  Capacity = 2
  Requests <- MCKill
  MaxSessions = 3
  MaxMessages = 0
  GGPids <- MCGGPids
  PidReuse = FALSE
  PkgGG = PkgGG
  PkgOld = PkgOld
  NoPackage = NoPackage
  GGPackage = PkgGG
  Marked <- MCFirst
  Override = NoPackage
  MaxStarts = 2
  MaxMisses = 0
PROPERTY BridgeKept
CHECK_DEADLOCK FALSE
