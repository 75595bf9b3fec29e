SPECIFICATION HSpec
CONSTANTS
  Clients = {c1, c2}
  Keys = {k1, k2}
  Values = {v1, v2}
  NoValue = NoValue
  Workers = {w1, w2}
  MaxSize = 3
  EmptyKeys = {}
  Ops = {"get", "put", "delete"}
  IoFaults = {"wal", "flush", "read"}
  MaxCalls = 4
  MaxRestarts = 2
SYMMETRY Symmetry
PROPERTY Linearizable
CONSTRAINTS FlushedSegmentsReadable LogReadable
CHECK_DEADLOCK FALSE
