---------------------------- MODULE SimulActions ----------------------------
(***************************************************************************)
(* The actions of the simulative controller,                               *)
(* src/loadtest/control/simulcontroller/actions.go, and what its handler   *)
(* of WebSocket events does, as programs.                                  *)
(***************************************************************************)
EXTENDS UserActions

CurrentTeam == Pick("team", "currentTeam", Err)
CurrentChannel == Pick("chan", "currentChannel", Err)

loadTeam ==
  U!GetChannelsForTeam \o U!GetChannelMembersForUser \o U!GetTeamsUnread
    \o Gather("ids", "me") \o U!GetUsersStatusesByIds("ids")

getProfileImageForUsers(users) ==
  Each("user", users, If("noImage", U!GetProfileImageForUser))

(* The authors of the posts that came, and those among them whose status   *)
(* or profile the store does not have.  A post that was dropped meanwhile  *)
(* is passed over.                                                         *)
viewedAuthors ==
  Each("post", "got",
    Maybe(U!GetFileThumbnail)
      \o If("postStored", Pick("user", "author", Err) \o Collect("users")
                            \o If("noStatus", Collect("noStatus"))
                            \o If("noUser", Collect("noUser"))))

(* The channel is viewed at the end, and the current one first.  Only a    *)
(* channel that was never viewed is asked for by its last unread post.     *)
viewChannel ==
  If("hasCurrent", Pick("prev", "currentChannel", Err) \o U!ViewChannel("prev"))
    \o Gather("users", "nobody") \o Gather("noStatus", "nobody") \o Gather("noUser", "nobody")
    \o If("neverViewed", U!GetPostsAroundLastUnread) \o If("viewed", U!GetPostsSince)
    \o viewedAuthors
    \o If("someNoStatus", U!GetUsersStatusesByIds("noStatus"))
    \o If("someNoUser", U!GetUsersByIds("noUser"))
    \o getProfileImageForUsers("users") \o U!GetChannelStats
    \o If("directOrGroup", U!UpdatePreferences) \o U!ViewChannel("chan")

BugSwitchChannel ==
  CurrentTeam
    \o PickChannel({"MemberOf", "NotCurrent", "NotDirect", "NotGroup"}, Err)
    \o Do("SetCurrentChannel", "chan") \o viewChannel \o Info

switchChannel ==
  CurrentTeam
    \o PickChannel({"MemberOf", "NotCurrent", "NotDirect", "NotGroup"}, Err)
    \o viewChannel \o Do("SetCurrentChannel", "chan") \o Info

switchTeam ==
  PickTeam({"MemberOf", "NotCurrent"}, Info) \o loadTeam
    \o Do("SetCurrentTeam", "team") \o switchChannel

reloadPage ==
  Reload \o Pick("team", "currentTeam", switchTeam) \o loadTeam
    \o Pick("chan", "currentChannel", switchChannel) \o viewChannel \o Info

fullReload == Disconnect \o Do("Clear", "none") \o Connect \o reloadPage

logout == Disconnect \o U!Logout

(* login starts again after each error, until the controller is stopped.   *)
login == Catch(Run("login")) \o Login \o Connect \o Info

loginReload == Catch(Run("loginReload")) \o Login \o Connect \o Uncatch \o reloadPage

clearLoginReload == Do("Clear", "none") \o Run("loginReload")

logoutLogin == Catch(clearLoginReload) \o logout \o clearLoginReload

(* A user with no team to join goes on to switch teams.                    *)
joinTeam ==
  U!GetAllTeams \o PickTeam({"NotMemberOf"}, switchTeam) \o U!AddTeamMember \o switchTeam

joinChannel ==
  CurrentTeam \o U!GetPublicChannelsForTeam \o PickChannel({"NotMemberOf"}, Info)
    \o U!AddChannelMember \o Info

getUsersStatuses ==
  Pick("chan", "currentChannel", Info) \o Gather("ids", "postsAuthors")
    \o U!GetUsersStatusesByIds("ids") \o Info

(* One message in four mentions a user.                                    *)
createMessage ==
  Maybe(If("fewerThan1", Err) \o Pick("user", "others", Spin)
          \o Typing(U!AutoCompleteUsersInChannel) \o Maybe(Err))

editPost ==
  CurrentChannel \o Pick("post", "myPosts", Info) \o createMessage
    \o U!PatchPost \o Info

attachFilesToPost == U!UploadFile

createPostReply ==
  CurrentChannel \o Pick("post", "channelPosts", Info) \o createMessage
    \o Maybe(attachFilesToPost) \o U!CreatePost \o Info

createPost ==
  CurrentChannel \o createMessage \o Maybe(attachFilesToPost) \o U!CreatePost \o Info

(* The reaction is looked for first; the error of the request is dropped.  *)
addReaction ==
  CurrentChannel \o Pick("post", "channelPosts", Info) \o If("reacted", Maybe(Info))
    \o U!TrySaveReaction \o Info

createDirectChannel ==
  U!GetUsers \o getProfileImageForUsers("got") \o If("fewerThan1", Info)
    \o Pick("user", "others", Spin) \o U!CreateDirectChannel \o U!GetChannel
    \o U!GetChannelMember \o Pick("chan", "theChannel", Err) \o viewChannel \o createPost

createGroupChannel ==
  U!GetUsers \o getProfileImageForUsers("got") \o If("fewerThan2", Info)
    \o U!CreateGroupChannel \o Pick("chan", "theChannel", Err) \o viewChannel \o createPost

openDirectOrGroupChannel ==
  CurrentTeam
    \o PickChannel({"MemberOf", "NotCurrent", "NotPublic", "NotPrivate"}, Info)
    \o viewChannel \o Info

unreadCheck ==
  CurrentTeam \o CurrentChannel \o U!GetChannelsForTeam
    \o U!GetChannelMembersForUser \o U!ViewChannel("chan") \o Info

searchChannels ==
  CurrentTeam \o PickChannel({"MemberOf", "NotMemberOf"}, Info)
    \o Typing(U!SearchChannels) \o Info

-----------------------------------------------------------------------------
(* The handler of an event "typing": a user unknown to the store is        *)
(* fetched, and its status if that is unknown.                             *)
fetchStatus == U!GetUsersStatusesByIds("ids") \o Info

fetchUserAndStatus == U!GetUsersByIds("ids") \o U!GetUsersStatusesByIds("ids") \o Info

typingEvent ==
  Pick("user", "anyone", Info) \o Gather("ids", "theUser")
    \o If("noUser", fetchUserAndStatus) \o If("noStatus", fetchStatus) \o Info
=============================================================================
