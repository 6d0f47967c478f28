--------------------------- MODULE MCUserSession ---------------------------
(* A server of two teams, each with a default channel; one may have another*)
(* public and a private channel; a direct and a group channel; three users.*)
EXTENDS UserSession, TLC

CONSTANTS me, u2, u3, t1, t2, c1, c2, c3, c4, d, g, p1, p2

MCUsers == {me, u2, u3}
MCTeams == {t1, t2}
MCChannels == {c1, c2, c3, c4, d, g}
MCPosts == {p1, p2}
MCChannelTeam ==
  (c1 :> t1) @@ (c2 :> t1) @@ (c3 :> t2) @@ (c4 :> t1) @@ (d :> None) @@ (g :> None)
MCChannelType ==
  (c1 :> "Public") @@ (c2 :> "Public") @@ (c3 :> "Public") @@ (c4 :> "Private")
    @@ (d :> "Direct") @@ (g :> "Group")
MCPostChannel == (p1 :> c1) @@ (p2 :> c1)
MCPostUser == (p1 :> u2) @@ (p2 :> me)
MCDefaultChannels == {c1, c3}
MCSomeUsers == {{me}, {u2, u3}}

Session(k, events, scripts) ==
  {[kind |-> k, events |-> events, actions |-> s] : s \in scripts}

MCScripts ==
  Session("simul", 0,
    { <<"switchTeam">>, <<"unreadCheck">>, <<"searchChannels">>, <<"joinChannel">>,
      <<"createPost", "editPost">>, <<"createDirectChannel", "openDirectOrGroupChannel">>,
      <<"createGroupChannel">>, <<"logoutLogin">>, <<"fullReload">>, <<"addReaction">> })
  \union Session("simul", 1,
    { <<"switchChannel">>, <<"createPostReply">> })
  \union Session("simple", 0,
    { <<"JoinTeam", "CreatePublicChannel", "JoinChannel", "LeaveChannel", "CreatePost">>,
      <<"JoinTeam", "CreatePost", "EditPost">>,
      <<"JoinTeam", "CreatePostReply", "AddReaction", "RemoveReaction">>,
      <<"JoinTeam", "CreatePrivateChannel", "ViewChannel">>,
      <<"JoinTeam", "CreateDirectChannel", "Reload">>,
      <<"JoinTeam", "ViewUser", "CreateGroupChannel">>,
      <<"JoinTeam", "Logout", "Login", "SearchUsers">>,
      <<"JoinTeam", "SearchChannels", "SearchPosts", "GetPinnedPosts">>,
      <<"FetchStaticAssets", "UpdateProfileImage", "UpdateProfile", "UpdateTeam">> })
  \union Session("simple", 1, {<<"JoinTeam", "ScrollChannel">>})
=============================================================================
