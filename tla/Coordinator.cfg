\* Two agents with less room than the cluster may have users; every request is answered.
CONSTANTS
  Agents = {a1, a2}
  NoAgent = NoAgent
  MaxActiveUsers = 3
  AgentMaxUsers = 2
  NumUsersInc = 2
  NumUsersDec = 1
  NetworkFails = FALSE
  MaxErrors = 0
  MaxCrashes = 2
SPECIFICATION Spec
SYMMETRY AgentSymmetry
INVARIANTS UsersWithinMax RemovalsFit NothingLeft
CHECK_DEADLOCK FALSE
