SPECIFICATION Spec
CONSTANTS
  Strategies = {s1}
  Tasks = {t1, t2}
  Workers = {w1}
  Requests = {q1}
  Principals = {p1, p2}
  DefaultAmount = default
  Null = null
  NoTask = noTask
  NoStrategy = noStrategy
  PoolMax = 2
  MaxFaults = 0
  MaxCrashes = 0
SYMMETRY Symmetry
INVARIANTS
  SerialIntent
  SuccessIsWhole
PROPERTY
  StatusIsTheRuns
