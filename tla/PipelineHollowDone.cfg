SPECIFICATION Spec
CONSTANTS
  Strategies = {s1}
  Tasks = {t1}
  Workers = {w1}
  Requests = {q1}
  Principals = {p1}
  DefaultAmount = default
  Null = null
  NoTask = noTask
  NoStrategy = noStrategy
  PoolMax = 2
  MaxFaults = 1
  MaxCrashes = 0
INVARIANT
  DoneMeansSaved
