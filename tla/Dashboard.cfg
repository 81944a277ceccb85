SPECIFICATION Spec
CONSTANTS
  t1 = t1
  t2 = t2
  Tickers = {t1, t2}
  None = none
  Techs = {"GoldenCross", "RSI"}
  Terms = {"", "a", "b"}
  Hits <- SearchFinds
  StartList <- Start
  StartPanels = {"basic", "universal", "backTesting"}
  MaxGestures = 3
  MaxItems = 3
  Offered = {4, 5}
  Toggled = {"PBR_Q"}
  Findings <- SomeFindings
  RetryMax = 1
  MaxFaults = 1
CHECK_DEADLOCK FALSE
INVARIANTS
  DeletesOnlyTicked
  FiguresAreOfTheirItem
  FormShowsTheSetting
  PresetIsItsFilters
  SavedIsWhatWasClicked
  PageKnowsItsStrategy
PROPERTIES
  TheListIsKept
