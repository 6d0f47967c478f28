\* The same, with nobody stopped early and nothing but the team to make.
CONSTANTS
  Users = {u1, u2}
  Stoppable = {}
  NumTeams = 1
  NumChannels = 0
  NumPosts = 0
  NumReactions = 0
  Weighted = {"joinTeam", "joinChannel"}
  NoKind = NoKind
SPECIFICATION FairSpec
PROPERTY ExitsWhenMade
CHECK_DEADLOCK FALSE
