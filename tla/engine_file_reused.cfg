SPECIFICATION Spec
CONSTANTS
  Clients = {c1, c2}
  Keys = {k1, k2}
  Values = {v1}
  NoValue = NoValue
  Workers = {w1, w2}
  MaxSize = 3
  EmptyKeys = {}
  Ops = {"put", "delete"}
  IoFaults = {}
  MaxCalls = 5
  MaxRestarts = 1
SYMMETRY Symmetry
INVARIANT FlushedSegmentsReadable
CHECK_DEADLOCK FALSE
