SPECIFICATION Spec
CONSTANTS
  Strategies = {s1}
  Tasks = {t1, t2}
  Workers = {w1, w2}
  Requests = {}
  Principals = {p1}
  DefaultAmount = default
  Null = null
  NoTask = noTask
  NoStrategy = noStrategy
  PoolMax = 2
  MaxFaults = 0
  MaxCrashes = 0
SYMMETRY Symmetry
PROPERTY
  LedgerSpec
