\* Users that fail, a server that restarts, requests and answers that are lost, a signal.
CONSTANTS
  Agents = {a1}
  NoAgent = NoAgent
  MaxActiveUsers = 1
  AgentMaxUsers = 1
  NumUsersInc = 1
  NumUsersDec = 1
  NetworkFails = TRUE
  MaxErrors = 2
  MaxCrashes = 2
SPECIFICATION FairSpec
INVARIANT ErrorsAccumulate
PROPERTY InterruptEnds
CHECK_DEADLOCK FALSE
