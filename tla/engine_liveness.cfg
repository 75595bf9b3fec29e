SPECIFICATION FairSpec
CONSTANTS
  Clients = {c1, c2}
  Keys = {k1, k2}
  Values = {v1}
  NoValue = NoValue
  Workers = {w1, w2}
  MaxSize = 2
  EmptyKeys = {k2}
  Ops = {"get", "put", "delete"}
  IoFaults = {"wal", "flush", "read"}
  MaxCalls = 3
  MaxRestarts = 1
PROPERTIES EveryCallReturns ShutdownReturns
CHECK_DEADLOCK FALSE
