--------------------------- MODULE SimpleActions ---------------------------
(***************************************************************************)
(* The actions of the simple controller that are its own,                  *)
(* src/loadtest/control/simplecontroller, as programs.  Its login and      *)
(* logout are told from the simulative controller's by their names.        *)
(***************************************************************************)
EXTENDS UserActions

(* An error of the connection is dropped.                                  *)
simpleLogin == Login \o Catch(Info) \o Connect \o Info

(* So is one of the disconnection.                                         *)
simpleLogout ==
  U!Logout \o Catch(Do("Clear", "none") \o Info) \o Disconnect
    \o Do("Clear", "none") \o Info

reload == Disconnect \o Do("Clear", "none") \o Connect \o Reload \o Info

(* The oldest post in the store is where a scroll begins; each takes the   *)
(* newest one after it, which need not be there any more.                  *)
scroll == U!GetPostsBefore \o Pick("post", "channelPosts", Panic)

scrollChannel ==
  MyChannel(Err) \o U!GetPostsForChannel \o Pick("post", "channelPosts", Info)
    \o scroll \o scroll \o scroll \o Info

updateProfile == U!PatchUser \o Info

(* Only an administrator of a team updates one.                            *)
updateTeam == Maybe(Info) \o MyTeam \o U!UpdateTeam \o Info

(* The handler of an event "status change": the direct channel with the    *)
(* user who came online is looked up by its name, and the store knows      *)
(* channels by their identifiers: it is never found.                       *)
sendDirectMessage ==
  Pick("user", "anyone", Info) \o Pick("chan", "directChannelByName", Info)
    \o U!CreatePost \o Info
=============================================================================
