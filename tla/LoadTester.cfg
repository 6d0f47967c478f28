\* One run of two controllers that may fail to be made or to act.
CONSTANTS
  Controllers = {c1, c2}
  MaxActiveUsers = 2
  InitialActiveUsers = 1
  MultiSession = FALSE
  FactoryMayFail = TRUE
  RatesUsable = TRUE
  MaxRuns = 1
  MaxAdded = 3
  MaxErrors = 1
SPECIFICATION FairSpec
INVARIANTS TypeOK WaitGroupExact UsersBalanced StatusSettled NoSendOnClosedChannel DistinctUsers
PROPERTIES OperationsFinish
