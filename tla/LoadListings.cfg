SPECIFICATION FairSpec
CONSTANTS
  t1 = t1
  t2 = t2
  t3 = t3
  Tickers = {t1, t2}
  Listed = {t1}
  Market <- BothListed
  LastDay = 2
  Traded <- OneHoliday
  Span = 0
  Loads = {l1}
  Starts = {1}
  Asked <- OneWorker
  MaxTasks = 1
  Workers = {w1}
  Cron = cron
  Web = web
  None = none
  PoolMax = 2
  MaxNights = 2
  MaxFaults = 1
  MaxCrashes = 1
INVARIANTS
  ProgressIsKept
PROPERTIES
  TasksEnd
