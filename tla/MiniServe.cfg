SPECIFICATION Spec
CONSTANTS
  Tickers = {a1}
  Listed = {a1}
  SaleOrder <- OneStrategy
  Slow = {}
  Settings = {default, custom}
  Default = default
  Threads = 1
  Requests = {r1, r2}
  None = none
  Flat = flat
  MaxNights = 1
  MaxFaults = 1
SYMMETRY Symmetry
INVARIANTS
  HonestAnswers
