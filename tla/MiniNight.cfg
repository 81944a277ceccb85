SPECIFICATION FairSpec
CONSTANTS
  Tickers = {a1, a2, a3}
  Listed = {a1, a2}
  SaleOrder <- TwoStrategies
  Slow = {"MACD"}
  Settings = {default, custom}
  Default = default
  Threads = 2
  Requests = {}
  None = none
  Flat = flat
  MaxNights = 2
  MaxFaults = 1
INVARIANTS
  TypeOK
  CacheIsOfOneNight
  CacheIsOfTheTicker
  EveryTickerOnce
PROPERTY
  NightEnds
