\* A server that restarts twice; every request is answered.
CONSTANTS
  Agents = {a1, a2}
  NoAgent = NoAgent
  MaxActiveUsers = 2
  AgentMaxUsers = 2
  NumUsersInc = 1
  NumUsersDec = 1
  NetworkFails = FALSE
  MaxErrors = 0
  MaxCrashes = 2
SPECIFICATION Spec
INVARIANT RestartSurvived
CHECK_DEADLOCK FALSE
