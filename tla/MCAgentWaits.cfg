SPECIFICATION FairAgentSpec
CONSTANTS
  Envs = {e1}
  MaxBridges = 1
PROPERTY BridgeInstalls
CHECK_DEADLOCK FALSE
