---------------------------- MODULE UserSession ----------------------------
(***************************************************************************)
(* A simulated user at work: the goroutine of its controller, which runs   *)
(* one action after another, the one that listens to the WebSocket, the    *)
(* controller's handler of events and its periodic action, all sharing the *)
(* store.  The actions are the programs of SimulActions, SimpleActions and *)
(* UserActions.  Each request and each call to the store is one step.      *)
(*                                                                         *)
(* Of the server, the model keeps what the answers are about.  A request   *)
(* may fail at any time; then it has no effect on the server.              *)
(***************************************************************************)
EXTENDS MemStore, SimulActions, SimpleActions

CONSTANTS
  DefaultChannels,  \* the channels that come with a team; nobody leaves them
  SomeUsers,        \* the answers to a request for a page of users
  Scripts           \* bound: the actions a controller runs after the initial
                    \* ones, and how many events and ticks may come meanwhile

Threads == {"main", "listen", "handler", "periodic"}

VARIABLES
  server,     \* what the server knows of the user, and the posts it has
  todo,       \* the instructions that each goroutine has still to run
  reg,        \* the local variables of each goroutine
  catch,      \* what an error of each goroutine continues with
  connected,  \* the WebSocket is connected
  kind,       \* of the controller: simul or simple
  script,     \* the actions that the controller has still to run
  budget,     \* events that may still come
  panicked    \* an index out of range has ended the process

machine == <<todo, reg, catch>>
outside == <<server, connected, kind, script, budget, panicked>>
vars == <<store, machine, outside>>

Blank ==
  [ team |-> None, chan |-> None, prev |-> None, post |-> None, user |-> None,
    item |-> None, got |-> {}, ids |-> {}, users |-> {}, noStatus |-> {}, noUser |-> {} ]

(* The actions that the controllers know, by the names of the source; the  *)
(* first join of a channel is retried until it succeeds.                   *)
Program(name) ==
  CASE name = "signUp" -> SignUp
    [] name = "login" -> login
    [] name = "loginReload" -> loginReload
    [] name = "joinTeam" -> joinTeam
    [] name \in {"firstJoinChannel", "joinChannel"} -> joinChannel
    [] name = "switchChannel" -> switchChannel
    [] name = "switchTeam" -> switchTeam
    [] name = "openDirectOrGroupChannel" -> openDirectOrGroupChannel
    [] name = "unreadCheck" -> unreadCheck
    [] name = "createPost" -> createPost
    [] name = "createPostReply" -> createPostReply
    [] name = "editPost" -> editPost
    [] name = "searchChannels" -> searchChannels
    [] name = "addReaction" -> addReaction
    [] name = "fullReload" -> fullReload
    [] name = "createDirectChannel" -> createDirectChannel
    [] name = "createGroupChannel" -> createGroupChannel
    [] name = "logoutLogin" -> logoutLogin
    [] name = "Login" -> simpleLogin
    [] name = "Logout" -> simpleLogout
    [] name = "Reload" -> reload
    [] name = "ScrollChannel" -> scrollChannel
    [] name = "UpdateProfile" -> updateProfile
    [] name = "UpdateTeam" -> updateTeam
    [] name = "JoinChannel" -> JoinChannel
    [] name = "LeaveChannel" -> LeaveChannel
    [] name = "JoinTeam" -> JoinTeam
    [] name = "CreatePost" -> CreatePost
    [] name = "EditPost" -> EditPost
    [] name = "CreatePostReply" -> CreatePostReply
    [] name = "AddReaction" -> AddReaction
    [] name = "RemoveReaction" -> RemoveReaction
    [] name = "CreateGroupChannel" -> CreateGroupChannel
    [] name = "CreatePublicChannel" -> CreatePublicChannel
    [] name = "CreatePrivateChannel" -> CreatePrivateChannel
    [] name = "CreateDirectChannel" -> CreateDirectChannel
    [] name = "ViewChannel" -> ViewChannel
    [] name = "ViewUser" -> ViewUser
    [] name = "SearchUsers" -> SearchUsers
    [] name = "SearchChannels" -> SearchChannels
    [] name = "SearchPosts" -> SearchPosts
    [] name = "UpdateProfileImage" -> UpdateProfileImage
    [] name = "GetPinnedPosts" -> GetPinnedPosts
    [] name = "FetchStaticAssets" -> FetchStaticAssets

(* The names of the actions of each controller, whose initial ones are     *)
(* followed by others; the simulative controller repeats an initial action *)
(* that ends with an error.                                                *)
Actions ==
  [ simul |->
      { "signUp", "login", "joinTeam", "firstJoinChannel", "joinChannel", "switchChannel",
        "switchTeam", "openDirectOrGroupChannel", "unreadCheck", "createPost",
        "createPostReply", "editPost", "searchChannels", "addReaction", "fullReload",
        "createDirectChannel", "createGroupChannel", "logoutLogin" },
    simple |->
      { "signUp", "Login", "Logout", "Reload", "ScrollChannel", "UpdateProfile", "UpdateTeam",
        "JoinChannel", "LeaveChannel", "JoinTeam", "CreatePost", "EditPost",
        "CreatePostReply", "AddReaction", "RemoveReaction", "CreateGroupChannel",
        "CreatePublicChannel", "CreatePrivateChannel", "CreateDirectChannel", "ViewChannel",
        "ViewUser", "SearchUsers", "SearchChannels", "SearchPosts", "UpdateProfileImage",
        "GetPinnedPosts", "FetchStaticAssets" } ]

InitActions ==
  [ simul |-> <<"signUp", "login", "joinTeam", "firstJoinChannel", "others">>,
    simple |-> <<"signUp", "Login", "others">> ]

Retried == {"signUp", "login", "joinTeam", "firstJoinChannel"}

ASSUME SessionAssumption ==
  /\ DefaultChannels \subseteq Channels
  /\ SomeUsers \subseteq SUBSET Users
  /\ \A s \in Scripts :
       s.kind \in DOMAIN Actions /\ s.actions \in Seq(Actions[s.kind]) /\ s.events \in Nat

Init ==
  /\ StoreInit
  /\ \E others \in SUBSET {c \in Channels \ DefaultChannels : ChannelType[c] = "Public"} :
       server = [teams |-> {}, channels |-> DefaultChannels \union others, joined |-> {},
                 posts |-> {p \in Posts : PostUser[p] # Me}, deleted |-> {}, prefs |-> {}]
  /\ todo = [t \in Threads |-> <<>>]
  /\ reg = [t \in Threads |-> Blank]
  /\ catch = [t \in Threads |-> <<>>]
  /\ connected = FALSE
  /\ kind \in DOMAIN InitActions
  /\ script = InitActions[kind]
  /\ budget = 0
  /\ panicked = FALSE

-----------------------------------------------------------------------------
(* The server.                                                             *)
OfTeam(t) == {c \in server.joined : InTeam(c, t)}

Answers(what, arg, r) ==
  CASE what \in {"nothing", "view", "joinTeam", "joinChannel", "leaveChannel", "newPref"}
         -> {{}}
    [] what = "newUser" -> {{u} : u \in [id : {TRUE}, email : BOOLEAN, password : {TRUE}]}
    [] what = "me" -> {{u} : u \in [id : {TRUE}, email : BOOLEAN, password : {FALSE}]}
    [] what = "teams" -> {Teams}
    [] what = "ownTeams" -> {server.teams}
    [] what = "ownChannels" -> {OfTeam(r.team)}
    [] what = "publicChannels" ->
         {{c \in server.channels : ChannelType[c] = "Public" /\ ChannelTeam[c] = r.team}}
    [] what = "ownMembers" -> {OfTeam(r.team) \X {Me}}
    [] what = "members" ->
         {{r.chan} \X (IF r.chan \in server.joined THEN Users ELSE Users \ {Me})}
    [] what = "posts" -> SUBSET {p \in server.posts : PostChannel[p] = r.chan}
    [] what = "editPost" -> {{p} : p \in server.posts \intersect {r.post}}
    [] what = "newPost" ->
         {{p} : p \in {q \in Posts \ (server.posts \union server.deleted) :
                         PostUser[q] = Me /\ PostChannel[q] = r.chan}}
    [] what = "users" -> SomeUsers
    [] what = "usersByIds" -> {r[arg]}
    [] what = "prefs" -> {server.prefs}
    [] what \in {"Public", "Private"} ->
         {{c} : c \in {d \in Channels \ server.channels :
                         ChannelType[d] = what /\ ChannelTeam[d] = r.team}}
    [] what \in {"Direct", "Group"} -> {{c} : c \in {d \in Channels : ChannelType[d] = what}}

ServerAfter(what, r, got) ==
  CASE what = "joinTeam" ->
         [server EXCEPT !.teams = @ \union {r.team},
                        !.joined = @ \union {c \in DefaultChannels : ChannelTeam[c] = r.team}]
    [] what = "joinChannel" -> [server EXCEPT !.joined = @ \union {r.chan}]
    [] what = "leaveChannel" -> [server EXCEPT !.joined = @ \ {r.chan}]
    [] what = "newPost" -> [server EXCEPT !.posts = @ \union got]
    [] what = "newPref" -> [server EXCEPT !.prefs = @ \union {ChannelType[r.chan]}]
    [] what \in ChannelTypes ->
         [server EXCEPT !.channels = @ \union got, !.joined = @ \union got]
    [] OTHER -> server

-----------------------------------------------------------------------------
(* What the programs choose from and decide by.  The set "directChannel-   *)
(* ByName" is empty: a name is no identifier.                              *)
Current(x) == IF x = None THEN {} ELSE {x}

Choices(from, r) ==
  CASE from \in {"got", "users"} -> r[from]
    [] from = "currentTeam" -> Current(store.currentTeam)
    [] from = "currentChannel" -> Current(store.currentChannel)
    [] from = "myTeams" -> store.teams \intersect store.teamMembers
    [] from = "teamsToJoin" -> store.teams \ store.teamMembers
    [] from = "teamsChannels" -> {c \in store.channels : ChannelTeam[c] \in store.teams}
    [] from = "channelsToLeave" ->
         {c \in store.channels \ DefaultChannels :
            ChannelTeam[c] \in store.teams /\ IsMember(c)}
    [] from = "posts" -> StoredPosts
    [] from = "channelPosts" -> ChannelPosts(r.chan)
    [] from = "myPosts" -> PostChoiceByUser(r.chan, Me)
    [] from = "channelMembers" -> MemberChoice(r.chan)
    [] from = "others" -> UserChoice
    [] from = "anyone" -> Users \ {Me}
    [] from = "theChannel" -> store.channels \intersect {r.chan}
    [] from = "directChannelByName" -> {}
    [] from = "nobody" -> {}
    [] from = "me" -> {Me}
    [] from = "theUser" -> {r.user}
    [] from = "author" -> {PostUser[r.post]}
    [] from = "preferred" -> {}
    [] from = "postsAuthors" -> {Me} \union {PostUser[p] : p \in ChannelPosts(r.chan)}

Holds(cond, r) ==
  CASE cond = "signedUp" -> store.user.id
    [] cond = "hasTeam" -> store.currentTeam # None
    [] cond = "hasCurrent" -> store.currentChannel # None
    [] cond = "inTeam" -> r.team \in store.teamMembers
    [] cond = "noTeams" -> store.teams = {}
    [] cond = "postStored" -> r.post \in StoredPosts
    [] cond = "postInChannel" -> PostChannel[r.post] = r.chan
    [] cond = "noStatus" -> r.user \notin StoredStatuses
    [] cond = "noUser" -> r.user \notin StoredUsers
    [] cond = "someNoStatus" -> r.noStatus # {}
    [] cond = "someNoUser" -> r.noUser # {}
    [] cond = "noImage" -> r.user \notin store.images
    [] cond = "neverViewed" -> r.chan \notin store.views
    [] cond = "viewed" -> r.chan \in store.views
    [] cond = "directOrGroup" -> ChannelType[r.chan] \in {"Direct", "Group"}
    [] cond = "directShown" -> "Direct" \in store.prefs
    [] cond = "groupShown" -> "Group" \in store.prefs
    [] cond = "reacted" -> store.reactions[r.post][Me] > 0
    [] cond = "fewerThan1" -> ~EnoughUsers(1)
    [] cond = "fewerThan2" -> ~EnoughUsers(2)
    [] cond = "fewerThan3" -> ~EnoughUsers(3)
-----------------------------------------------------------------------------
(* The steps of a goroutine.                                               *)
Op(t, ops) == ~panicked /\ todo[t] # <<>> /\ Head(todo[t]).op \in ops

Continue(t, program) == todo' = [todo EXCEPT ![t] = program]

(* An action is over.  An initial action of the simulative controller that *)
(* ended with an error is run again.                                       *)
Finish(t, isErr) ==
  /\ Continue(t, <<>>)
  /\ reg' = [reg EXCEPT ![t] = Blank]
  /\ catch' = [catch EXCEPT ![t] = <<>>]
  /\ script' = IF t = "main" /\ ~(isErr /\ kind = "simul" /\ Head(script) \in Retried)
                 THEN Tail(script) ELSE script

Fail(t) ==
  IF catch[t] = <<>> THEN Finish(t, TRUE)
  ELSE /\ Continue(t, catch[t])
       /\ reg' = [reg EXCEPT ![t] = Blank]
       /\ catch' = [catch EXCEPT ![t] = <<>>]
       /\ UNCHANGED script

Set(t, into, value) == reg' = [reg EXCEPT ![t][into] = value]

Answered(t) ==
  /\ Op(t, {"ask", "try"})
  /\ LET i == Head(todo[t]) r == reg[t] IN
       \E got \in Answers(i.what, i.arg, r) :
         /\ Set(t, "got", got)
         /\ server' = ServerAfter(i.what, r, got)
         /\ Continue(t, i.then \o Tail(todo[t]))
  /\ UNCHANGED <<store, catch, connected, kind, script, budget, panicked>>

Refused(t) ==
  /\ Op(t, {"ask"})
  /\ Fail(t)
  /\ UNCHANGED <<store, server, connected, kind, budget, panicked>>

RefusedUnnoticed(t) ==
  /\ Op(t, {"try"})
  /\ Continue(t, Tail(todo[t]))
  /\ UNCHANGED <<store, reg, catch, outside>>

Call(call, x, r) ==
  CASE call = "Clear" -> Clear
    [] call = "Lock" -> Lock
    [] call = "Unlock" -> Unlock
    [] call = "SetUser" -> SetUser(x)
    [] call = "SetPreferences" -> SetPreferences(x)
    [] call = "SetPost" -> SetPost(x)
    [] call = "DeletePost" -> DeletePost(x)
    [] call = "SetStatus" -> SetStatus(x)
    [] call = "SetOneUser" -> SetOneUser(x)
    [] call = "SetOneMember" -> SetOneMember(x[1], x[2])
    [] call = "SetChannelMember" -> SetChannelMember(x, Me)
    [] call = "RemoveChannelMember" -> RemoveChannelMember(x, Me)
    [] call = "SetTeams" -> SetTeams(x)
    [] call = "SetTeam" -> SetTeam(x)
    [] call = "SetTeamMember" -> SetTeamMember(x)
    [] call = "SetChannel" -> SetChannel(x)
    [] call = "SetChannelView" -> SetChannelView(x)
    [] call = "SetProfileImage" -> SetProfileImage(x)
    [] call = "SetCurrentTeam" -> SetCurrentTeam(x)
    [] call = "SetCurrentChannel" -> SetCurrentChannel(x)
    [] call = "SetReaction" -> SetReaction(r.post, x)
    [] call = "DeleteReaction" -> DeleteReaction(r.post, x)

CallStore(t) ==
  /\ Op(t, {"do"})
  /\ LET i == Head(todo[t]) IN
       Call(i.call, IF i.arg = "me" THEN Me
                    ELSE IF i.arg = "none" THEN None ELSE reg[t][i.arg], reg[t])
  /\ Continue(t, Tail(todo[t]))
  /\ UNCHANGED <<reg, catch, outside>>

Choose(t, into, from, none) ==
  \/ \E x \in from : Set(t, into, x) /\ Continue(t, Tail(todo[t]))
  \/ from = {} /\ Continue(t, none) /\ UNCHANGED reg

Select(t) ==
  /\ Op(t, {"pick", "pickTeam", "pickChannel"})
  /\ ~store.locked
  /\ LET i == Head(todo[t]) IN
       CASE i.op = "pick" -> Choose(t, i.into, Choices(i.from, reg[t]), i.none)
         [] i.op = "pickTeam" -> Choose(t, "team", TeamChoice(i.st), i.none)
         [] i.op = "pickChannel" ->
              Choose(t, "chan", ChannelChoice(reg[t].team, i.st),
                     IF reg[t].team \in store.teams THEN i.none ELSE Err)
  /\ UNCHANGED <<store, catch, outside>>

(* A loop takes its elements from the set it began with.                   *)
Loop(t) ==
  /\ Op(t, {"each"})
  /\ LET i == Head(todo[t])
         left == IF "left" \in DOMAIN i THEN i.left ELSE Choices(i.from, reg[t])
     IN \/ /\ left = {}
           /\ Continue(t, Tail(todo[t]))
           /\ UNCHANGED reg
        \/ \E x \in left :
             /\ Set(t, i.into, x)
             /\ Continue(t, i.do \o <<[op |-> "each", into |-> i.into, left |-> left \ {x},
                                       do |-> i.do]>> \o Tail(todo[t]))
  /\ UNCHANGED <<store, catch, outside>>

Look(t) ==
  /\ Op(t, {"if", "gather", "collect"})
  /\ ~store.locked
  /\ LET i == Head(todo[t]) rest == Tail(todo[t]) IN
       CASE i.op = "if" ->
              Continue(t, (IF Holds(i.cond, reg[t]) THEN i.then ELSE <<>>) \o rest)
                /\ UNCHANGED reg
         [] i.op = "gather" -> Set(t, i.into, Choices(i.from, reg[t])) /\ Continue(t, rest)
         [] i.op = "collect" ->
              Set(t, i.into, reg[t][i.into] \union {reg[t].user}) /\ Continue(t, rest)
  /\ UNCHANGED <<store, catch, outside>>

Branch(t) ==
  /\ Op(t, {"maybe"})
  /\ \/ Continue(t, Head(todo[t]).then \o Tail(todo[t]))
     \/ Continue(t, Tail(todo[t]))
  /\ UNCHANGED <<store, reg, catch, outside>>

Jump(t) ==
  /\ Op(t, {"run", "catch"})
  /\ LET i == Head(todo[t]) IN
       \/ i.op = "run" /\ Continue(t, Program(i.name)) /\ UNCHANGED catch
       \/ /\ i.op = "catch"
          /\ Continue(t, Tail(todo[t]))
          /\ catch' = [catch EXCEPT ![t] = i.next]
  /\ UNCHANGED <<store, reg, outside>>

End(t) ==
  /\ Op(t, {"info", "err", "panic"})
  /\ LET i == Head(todo[t]) IN
       \/ i.op = "info" /\ Finish(t, FALSE) /\ UNCHANGED panicked
       \/ i.op = "err" /\ Fail(t) /\ UNCHANGED panicked
       \/ i.op = "panic" /\ panicked' = TRUE /\ UNCHANGED <<machine, script>>
  /\ UNCHANGED <<store, server, connected, kind, budget>>

(* Connect and disconnect of the controllers; a disconnection waits for    *)
(* their other goroutines.                                                 *)
Link(t) ==
  /\ Op(t, {"connect", "disconnect"})
  /\ LET i == Head(todo[t]) IN
       \/ /\ connected = (i.op = "disconnect")
          /\ i.op = "disconnect" => \A s \in Threads \ {t} : todo[s] = <<>>
          /\ connected' = ~connected
          /\ Continue(t, Tail(todo[t]))
          /\ UNCHANGED <<reg, catch, script>>
       \/ /\ i.op = "connect" \/ ~connected
          /\ Fail(t)
          /\ UNCHANGED connected
  /\ UNCHANGED <<store, server, kind, budget, panicked>>

Step(t) ==
  \/ Answered(t) \/ Refused(t) \/ RefusedUnnoticed(t) \/ CallStore(t) \/ Select(t)
  \/ Loop(t) \/ Look(t) \/ Branch(t) \/ Jump(t) \/ End(t) \/ Link(t)

-----------------------------------------------------------------------------
(* Run of the controllers: the next action.                                *)
Begin ==
  /\ ~panicked /\ todo["main"] = <<>> /\ script # <<>>
  /\ Head(script) # "others"
  /\ Continue("main", Program(Head(script)))
  /\ UNCHANGED <<store, reg, catch, outside>>

PickActions ==
  /\ ~panicked /\ script = <<"others">>
  /\ \E s \in Scripts : s.kind = kind /\ script' = s.actions /\ budget' = s.events
  /\ UNCHANGED <<store, machine, server, connected, kind, panicked>>

(* What comes from outside while the WebSocket is connected.               *)
Wake(t, program, r, s) ==
  /\ ~panicked /\ connected /\ todo[t] = <<>> /\ budget > 0
  /\ budget' = budget - 1
  /\ Continue(t, program)
  /\ reg' = [reg EXCEPT ![t] = r]
  /\ server' = s
  /\ UNCHANGED <<store, catch, connected, kind, script, panicked>>

(* A post of somebody is made, edited or deleted.                          *)
PostEvent ==
  \E p \in server.posts :
    \/ Wake("listen", U!handlePostEvent, [Blank EXCEPT !.post = p], server)
    \/ Wake("listen", U!handlePostDeleted, [Blank EXCEPT !.post = p],
            [server EXCEPT !.posts = @ \ {p}, !.deleted = @ \union {p}])

ReactionEvent ==
  \E p \in server.posts, call \in {"SetReaction", "DeleteReaction"} :
    Wake("listen", U!handleReactionEvent(call), [Blank EXCEPT !.post = p, !.user = Me], server)

(* Somebody is typing, or has come online.                                 *)
UserEvent ==
  Wake("handler", IF kind = "simul" THEN typingEvent ELSE sendDirectMessage, Blank, server)

Tick ==
  kind = "simul" /\ Wake("periodic", getUsersStatuses, Blank, server)

Next ==
  \/ Begin \/ PickActions \/ PostEvent \/ ReactionEvent \/ UserEvent \/ Tick
  \/ \E t \in Threads : Step(t)

Spec == Init /\ [][Next]_vars

(* Each goroutine that has something to do goes on doing it.  Those other  *)
(* than the controller's have a bounded number of things to do.            *)
Main == Begin \/ PickActions \/ Step("main")
Others == \E t \in Threads \ {"main"} : Step(t)

FairSpec == Spec /\ WF_vars(Main) /\ WF_vars(Others)

-----------------------------------------------------------------------------
(* Properties.                                                             *)
TypeOK ==
  /\ StoreTypeOK
  /\ DOMAIN reg = Threads /\ DOMAIN todo = Threads /\ DOMAIN catch = Threads
  /\ connected \in BOOLEAN /\ panicked \in BOOLEAN
  /\ budget \in Nat
  /\ server.posts \subseteq Posts \ server.deleted
  /\ server.joined \subseteq server.channels

(* However the answers of the server, its events and the limits of the     *)
(* store mix, the user views a channel or posts in it only while the       *)
(* server has it as a member (RandomChannel with SelectMemberOf, and what  *)
(* the current channel was chosen from).                                   *)
ActsWhereMember ==
  Op("main", {"ask"}) /\ Head(todo["main"]).what \in {"view", "newPost"} =>
    reg["main"][Head(todo["main"]).arg] \in server.joined

(* The current channel changes only to a channel that was viewed since the *)
(* store was cleared (switchChannel after viewChannel).                    *)
EntersViewed ==
  [][store'.currentChannel # store.currentChannel =>
       store'.currentChannel \in store'.views]_store

(* Every action ends, or is in a loop that tries again after errors: again *)
(* and again no goroutine is in the middle of one.  No selection spins and *)
(* no lock of the store is kept.  A panic is an end too.                   *)
ActionsEnd ==
  []<>(panicked \/ \A t \in Threads : todo[t] = <<>> \/ catch[t] # <<>>)
=============================================================================
