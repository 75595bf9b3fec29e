SPECIFICATION Spec
CONSTANTS
  Clients = {c1, c2}
  Keys = {k1, k2}
  Values = {v1}
  NoValue = NoValue
  Workers = {w1, w2}
  MaxSize = 2
  EmptyKeys = {}
  Ops = {"get", "put", "delete"}
  IoFaults = {"wal", "flush"}
  MaxCalls = 5
  MaxRestarts = 1
SYMMETRY Symmetry
VIEW WithoutOutcomes
CONSTRAINT DamageBound
INVARIANTS TypeOK OneHolder NothingLost FlushHasEntries MemtableBounded TableAccounted Inductive
CHECK_DEADLOCK FALSE
