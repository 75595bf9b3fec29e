SPECIFICATION Spec
CONSTANTS
  c1 = c1
  c2 = c2
  Clients = {c1, c2}
  Script <- MCScript
  Capacity = 1
  EngineErrors = {"IoError"}
INVARIANT ShutdownWaitsForAll
CHECK_DEADLOCK FALSE
