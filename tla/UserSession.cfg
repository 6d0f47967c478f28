CONSTANTS
  me = me u2 = u2 u3 = u3 t1 = t1 t2 = t2
  c1 = c1 c2 = c2 c3 = c3 c4 = c4 d = d g = g p1 = p1 p2 = p2
  Users <- MCUsers
  Me = me
  Teams <- MCTeams
  Channels <- MCChannels
  Posts <- MCPosts
  ChannelTeam <- MCChannelTeam
  ChannelType <- MCChannelType
  PostChannel <- MCPostChannel
  PostUser <- MCPostUser
  DefaultChannels <- MCDefaultChannels
  SomeUsers <- MCSomeUsers
  Scripts <- MCScripts
  MaxStoredPosts = 1
  MaxStoredUsers = 2
  MaxStoredChannelMembers = 2
  MaxStoredStatuses = 1
  MaxReactions = 1
  None = None
  NoKey = NoKey
SPECIFICATION FairSpec
INVARIANTS TypeOK MapsFollowQueues CredentialsKept ActsWhereMember
PROPERTIES EntersViewed ImplementsRecent ActionsEnd
CHECK_DEADLOCK FALSE
