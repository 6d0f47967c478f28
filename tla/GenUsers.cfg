\* Fewer teams than users: one finds the target reached, while the team is made or later.
CONSTANTS
  Users = {u1, u2}
  Stoppable = {u1}
  NumTeams = 1
  NumChannels = 1
  NumPosts = 1
  NumReactions = 1
  Weighted = {"joinTeam", "joinChannel", "createPublicChannel", "createPost", "addReaction"}
  NoKind = NoKind
SPECIFICATION FairSpec
INVARIANTS CountersExact SomeoneMakesIt
PROPERTIES AllButReactionsMade ExitsUnlessTeamless
CHECK_DEADLOCK FALSE
