---------------------------- MODULE UserActions ----------------------------
(***************************************************************************)
(* The actions common to the controllers, src/loadtest/control/actions.go, *)
(* as programs.  An action that meets an error of the server or of the     *)
(* store ends with it; the ends that are only an information are written   *)
(* out.  A selection takes its elements in the order of a Go map, which is *)
(* any order.                                                              *)
(***************************************************************************)
EXTENDS Programs

U == INSTANCE UserRequests

(* Selections that several actions make: a team the user is a member of,   *)
(* and one of its channels.                                                *)
MyTeam == PickTeam({"MemberOf"}, Err)

MyChannel(none) == MyTeam \o PickChannel({"MemberOf"}, none)

(* A user who already exists is as good as a new one.                      *)
SignUp ==
  If("signedUp", Info) \o Catch(Maybe(Info) \o Err) \o U!SignUp \o Info

(* The teams are fetched, then the channels of those the user is in.       *)
Login ==
  U!Login \o U!GetAllTeams \o U!GetTeamMembersForUser
    \o Each("team", "myTeams", U!GetChannelsForTeam)

Logout == Disconnect \o U!Logout

(* The membership that is looked up is that of a channel with the          *)
(* identifier of the team, so it is never found: any channel will do.      *)
JoinChannel ==
  Pick("chan", "teamsChannels", Info) \o U!AddChannelMember \o Info

LeaveChannel ==
  Pick("chan", "channelsToLeave", Info) \o U!RemoveUserFromChannel \o Info

JoinTeam ==
  U!GetAllTeams \o Pick("team", "teamsToJoin", Info) \o U!AddTeamMember
    \o U!GetChannelsForTeam \o U!GetChannelMembersForUser \o Info

CreatePost == MyChannel(Info) \o U!CreatePost \o Info

EditPost == MyChannel(Err) \o Pick("post", "channelPosts", Err) \o U!PatchPost \o Info

CreatePostReply ==
  MyChannel(Info) \o Pick("post", "channelPosts", Info) \o U!CreatePost \o Info

(* The posts of the last minute are any of the posts.                      *)
AddReaction ==
  Maybe(Info) \o Pick("post", "posts", Info) \o U!SaveReaction \o Info

RemoveReaction ==
  Maybe(Info) \o Pick("post", "posts", Info) \o If("reacted", U!DeleteReaction) \o Info

CreateGroupChannel == If("fewerThan3", Info) \o U!CreateGroupChannel \o Info

CreatePublicChannel == MyTeam \o U!CreateChannel("Public") \o Info

CreatePrivateChannel == MyTeam \o U!CreateChannel("Private") \o Info

CreateDirectChannel ==
  MyChannel(Err) \o Pick("user", "channelMembers", Err) \o U!CreateDirectChannel \o Info

ViewChannel == MyChannel(Err) \o U!ViewChannel("chan") \o Info

(* One request for each character typed, and more for each mistake.        *)
Typing(request) == request \o Maybe(request)

SearchUsers == If("noTeams", Info) \o Typing(U!SearchUsers) \o Info

UpdateProfileImage == U!SetProfileImage \o Info

SearchChannels == MyTeam \o Typing(U!SearchChannels) \o Info

SearchPosts == MyTeam \o U!SearchPosts \o Info

FetchStaticAssets == U!FetchStaticAssets \o Info

GetPinnedPosts == Pick("chan", "currentChannel", Err) \o U!GetPinnedPosts \o Info

ViewUser ==
  MyChannel(Info) \o U!GetChannelMembers \o Pick("user", "channelMembers", Err)
    \o Gather("ids", "theUser") \o U!GetUsersByIds("ids") \o Info

(* What the web application asks for when its page is loaded.  The roles   *)
(* are never in the store, so they are never asked for.                    *)
ReloadChannel ==
  If("hasCurrent", Pick("chan", "currentChannel", Err) \o U!ViewChannel("chan"))

ReloadTeam ==
  U!GetTeamMembersForUser
    \o If("inTeam", U!GetChannelsForTeam \o U!GetChannelMembersForUser)

Reload ==
  U!GetPreferences \o Gather("ids", "preferred") \o If("groupShown", U!GetUsersInChannel)
    \o ReloadChannel \o Maybe(U!GetConfig) \o U!GetClientLicense
    \o U!GetMe \o U!GetWebappPlugins \o U!GetAllTeams \o U!GetTeamsForUser
    \o If("hasTeam", Pick("team", "currentTeam", Err) \o ReloadTeam)
    \o U!GetTeamsUnread
    \o If("directShown", U!GetUsersByIds("ids") \o U!GetUsersStatusesByIds("ids"))
    \o U!GetUserStatus
    \o If("hasCurrent", U!GetChannelStats \o U!GetChannelUnread)
=============================================================================
