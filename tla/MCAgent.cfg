SPECIFICATION FairAgentSpec
CONSTANTS
  Envs = {e1, e2, e3}
  MaxBridges = 2
INVARIANTS
  AgentTypeOK
  DueHaveTable
  EarlyMissesNone
  NoStaleTable
  TargetReadable
PROPERTY EarlyInstalls
CHECK_DEADLOCK FALSE
