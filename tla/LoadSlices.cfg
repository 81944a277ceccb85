SPECIFICATION Spec
CONSTANTS
  t1 = t1
  t2 = t2
  t3 = t3
  Tickers = {t1, t2, t3}
  Listed = {t1, t2, t3}
  Market <- NoMarket
  LastDay = 2
  Traded <- EveryDay
  Span = 1
  Loads = {l1}
  Starts = {1}
  Asked <- FewWorkers
  MaxTasks = 3
  Workers = {w1, w2}
  Cron = cron
  Web = web
  None = none
  PoolMax = 1
  MaxNights = 0
  MaxFaults = 1
  MaxCrashes = 1
SYMMETRY TickerSymmetry
INVARIANTS
  TypeOK
  LoadIsWhole
  OneLoadNeverClashes
