\* Two runs: the second meets the controllers of the first.
CONSTANTS
  Controllers = {c1, c2}
  MaxActiveUsers = 2
  InitialActiveUsers = 0
  MultiSession = TRUE
  FactoryMayFail = FALSE
  RatesUsable = TRUE
  MaxRuns = 2
  MaxAdded = 3
  MaxErrors = 1
SPECIFICATION Spec
PROPERTIES ImplementsContract ControllersLive
CHECK_DEADLOCK FALSE
