SPECIFICATION Spec
CONSTANTS
  Strategies = {s1}
  Tasks = {t1, t2}
  Workers = {w1}
  Requests = {}
  Principals = {p1}
  DefaultAmount = default
  Null = null
  NoTask = noTask
  NoStrategy = noStrategy
  PoolMax = 2
  MaxFaults = 2
  MaxCrashes = 1
SYMMETRY Symmetry
INVARIANTS
  TypeOK
  SerialRows
  StartIsExplained
  LeaksNeedFaults
