SPECIFICATION AgentSpec
CONSTANTS
  Envs = {e1, e2, e3}
  MaxBridges = 1
INVARIANT TargetSeen
CHECK_DEADLOCK FALSE
