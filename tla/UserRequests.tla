---------------------------- MODULE UserRequests ----------------------------
(***************************************************************************)
(* The requests that a simulated user sends to the server, the methods of  *)
(* src/loadtest/user/userentity/actions.go that some controller calls, as  *)
(* programs: sequences of instructions, which UserSession gives a meaning. *)
(* A request that does not touch the store is an instruction all the same: *)
(* it may fail, and it gives the other goroutines of the user time to run. *)
(***************************************************************************)
EXTENDS Programs

(* The elements of an answer: under one lock of the store, or taking the   *)
(* lock for each.                                                          *)
Locked(call) ==
  Do("Lock", "item") \o Each("item", "got", Do(call, "item")) \o Do("Unlock", "item")

EachAnswered(call) == Each("item", "got", Do(call, "item"))

-----------------------------------------------------------------------------
SignUp == Ask("newUser", "none", EachAnswered("SetUser"))

Login == Ask("me", "none", EachAnswered("SetUser"))

GetMe == Ask("me", "none", EachAnswered("SetUser"))

PatchUser == Ask("me", "none", EachAnswered("SetUser"))

GetPreferences == Ask("prefs", "none", Do("SetPreferences", "got"))

UpdatePreferences == Ask("newPref", "chan", <<>>)

CreatePost == Ask("newPost", "chan", EachAnswered("SetPost"))

PatchPost == Ask("editPost", "post", EachAnswered("SetPost"))

GetPostsForChannel == Ask("posts", "chan", EachAnswered("SetPost"))

GetPostsBefore == Ask("posts", "chan", EachAnswered("SetPost"))

GetPostsSince == Ask("posts", "chan", EachAnswered("SetPost"))

GetPostsAroundLastUnread == Ask("posts", "chan", EachAnswered("SetPost"))

(* The channel that was made is also the result of the call.               *)
CreateChannel(type) == Ask(type, "team", Each("chan", "got", Do("SetChannel", "chan")))

CreateGroupChannel ==
  Ask("Group", "users", Each("chan", "got", Do("SetChannel", "chan")))

CreateDirectChannel ==
  Ask("Direct", "user", Each("chan", "got", Do("SetChannel", "chan")))

BugRemoveUserFromChannel == Ask("leaveChannel", "chan", <<>>)

RemoveUserFromChannel == Ask("leaveChannel", "chan", Do("RemoveChannelMember", "chan"))

(* An error of the request is dropped: the caller goes on as if the user   *)
(* had joined.                                                             *)
AddChannelMember == Try("joinChannel", "chan", Do("SetChannelMember", "chan"))

GetChannel == Ask("nothing", "chan", Do("SetChannel", "chan"))

GetChannelsForTeam == Ask("ownChannels", "team", EachAnswered("SetChannel"))

GetPublicChannelsForTeam == Ask("publicChannels", "team", EachAnswered("SetChannel"))

ViewChannel(chan) == Ask("view", chan, Do("SetChannelView", chan))

GetChannelMembers == Ask("members", "chan", Locked("SetOneMember"))

GetChannelMembersForUser == Ask("ownMembers", "team", Locked("SetOneMember"))

GetChannelMember == Ask("nothing", "chan", Do("SetChannelMember", "chan"))

UpdateTeam == Ask("nothing", "team", Do("SetTeam", "team"))

GetTeamsForUser == Ask("ownTeams", "none", Do("SetTeams", "got"))

GetAllTeams == Ask("teams", "none", Do("SetTeams", "got"))

AddTeamMember == Ask("joinTeam", "team", Do("SetTeamMember", "team"))

GetTeamMembersForUser == Ask("ownTeams", "none", EachAnswered("SetTeamMember"))

GetUsersByIds(ids) == Ask("usersByIds", ids, Locked("SetOneUser"))

GetUsersStatusesByIds(ids) == Ask("usersByIds", ids, EachAnswered("SetStatus"))

GetUsersInChannel == Ask("users", "none", Locked("SetOneUser"))

GetUsers == Ask("users", "none", Locked("SetOneUser"))

GetProfileImageForUser == Ask("nothing", "user", Do("SetProfileImage", "user"))

(* The answer to the request is dropped by one caller, with its error.     *)
SaveReaction == Ask("nothing", "post", Do("SetReaction", "me"))
TrySaveReaction == Try("nothing", "post", Do("SetReaction", "me"))

DeleteReaction == Ask("nothing", "post", Do("DeleteReaction", "me"))

(* Requests whose answer is not kept, or is kept and never read.           *)
Discarded == Ask("nothing", "none", <<>>)

Logout == Discarded
GetConfig == Discarded
SearchPosts == Discarded
GetPinnedPosts == Discarded
UploadFile == Try("nothing", "none", <<>>)
SearchChannels == Discarded
GetChannelUnread == Discarded
GetChannelStats == Discarded
GetUserStatus == Discarded
GetTeamsUnread == Discarded
GetFileThumbnail == Discarded
SetProfileImage == Discarded
SearchUsers == Discarded
AutoCompleteUsersInChannel == Discarded
GetWebappPlugins == Discarded
GetClientLicense == Discarded
FetchStaticAssets == Discarded

-----------------------------------------------------------------------------
(* The events that listen handles (userentity/websocket.go): a reaction or *)
(* a post of the current channel only, a deleted post of any.              *)
inCurrentChannel(then) ==
  Pick("chan", "currentChannel", Info) \o If("postInChannel", then)

handleReactionEvent(call) == inCurrentChannel(If("postStored", Do(call, "user"))) \o Info

handlePostEvent == inCurrentChannel(Do("SetPost", "post")) \o Info

handlePostDeleted == Do("DeletePost", "post") \o Info
=============================================================================
