------------------------------ MODULE MemStore ------------------------------
(***************************************************************************)
(* The store of a simulated user, src/loadtest/store/memstore: what the    *)
(* user has fetched from the server, in bounded queues indexed by maps and *)
(* in plain maps.  Every operation takes the lock of the store, so each is *)
(* one step, except SetUsers and SetChannelMembers, which hold the lock    *)
(* for writing while they put one element after another.                   *)
(*                                                                         *)
(* An element is its key: what the program reads of a post, a channel or a *)
(* team never changes for a given key.  The configuration, the emojis, the *)
(* roles and the license are written and never read back by a controller;  *)
(* they are left out.                                                      *)
(***************************************************************************)
EXTENDS CQueue, FiniteSets

CONSTANTS
  Users, Me,                  \* the users of the server, and the one simulated
  Teams, Channels, Posts,
  ChannelTeam, ChannelType,   \* of a channel: its team and its type
  PostChannel, PostUser,      \* of a post: its channel and its author
  MaxStoredPosts, MaxStoredUsers, MaxStoredChannelMembers, MaxStoredStatuses,
  MaxReactions,               \* bound: reactions of a user kept for a post
  None                        \* no current team, no current channel

ChannelTypes == {"Public", "Private", "Direct", "Group"}

ASSUME ConfigIsValid ==
  /\ MaxStoredPosts \in Nat \ {0}
  /\ MaxStoredUsers \in Nat \ {0}
  /\ MaxStoredChannelMembers \in Nat \ {0}
  /\ MaxStoredStatuses \in Nat \ {0}
  /\ MaxReactions \in Nat

ASSUME ServerAssumption ==
  /\ Me \in Users
  /\ ChannelTeam \in [Channels -> Teams \union {None}]
  /\ ChannelType \in [Channels -> ChannelTypes]
  /\ PostChannel \in [Posts -> Channels]
  /\ PostUser \in [Posts -> Users]
  /\ None \notin Teams \union Channels

VARIABLE store

(* The four queues, the keys of their maps and their sizes.                *)
Queues == {"posts", "users", "members", "statuses"}

Keys ==
  [posts |-> Posts, users |-> Users, members |-> Channels \X Users, statuses |-> Users]

Size ==
  [ posts |-> MaxStoredPosts, users |-> MaxStoredUsers,
    members |-> MaxStoredChannelMembers, statuses |-> MaxStoredStatuses ]

(* Of the user: whether the server has named it, and whether its email and *)
(* password are known.                                                     *)
Credentials == [id : BOOLEAN, email : BOOLEAN, password : BOOLEAN]

StoreTypeOK ==
  /\ DOMAIN store = {"locked", "user", "queue", "teams", "teamMembers", "channels",
                     "views", "images", "prefs", "reactions", "currentTeam",
                     "currentChannel"}
  /\ store.locked \in BOOLEAN
  /\ store.user \in Credentials
  /\ DOMAIN store.queue = Queues
  /\ \A n \in Queues : store.queue[n] \in Queue(Keys[n], Size[n])
  /\ store.teams \subseteq Teams /\ store.teamMembers \subseteq Teams
  /\ store.channels \subseteq Channels /\ store.views \subseteq Channels
  /\ store.images \subseteq Users
  /\ store.prefs \subseteq {"Direct", "Group"}
  /\ store.reactions \in [Posts -> [Users -> 0..MaxReactions]]
  /\ store.currentTeam \in Teams \union {None}
  /\ store.currentChannel \in Channels \union {None}

(* The store of a new user entity, which knows the credentials it was      *)
(* configured with.                                                        *)
New ==
  [ locked |-> FALSE,
    user |-> [id |-> FALSE, email |-> TRUE, password |-> TRUE],
    queue |-> [n \in Queues |-> NewCQueue(Keys[n], Size[n])],
    teams |-> {}, teamMembers |-> {}, channels |-> {}, views |-> {}, images |-> {},
    prefs |-> {}, reactions |-> [p \in Posts |-> [u \in Users |-> 0]],
    currentTeam |-> None, currentChannel |-> None ]

StoreInit == store = New

(* Clear keeps the user, the current team and the current channel.         *)
Clear ==
  /\ ~store.locked
  /\ store' = [New EXCEPT !.user = store.user,
                          !.currentTeam = store.currentTeam,
                          !.currentChannel = store.currentChannel,
                          !.queue = [n \in Queues |-> Reset(store.queue[n])]]

-----------------------------------------------------------------------------
(* The user: what the server leaves out of its answer is restored.         *)
BugRestorePrivateData(old, new) == [new EXCEPT !.email = new.email \/ old.email]

restorePrivateData(old, new) ==
  [new EXCEPT !.email = new.email \/ old.email,
              !.password = new.password \/ old.password]

SetUser(new) ==
  /\ ~store.locked
  /\ store' = [store EXCEPT !.user = restorePrivateData(store.user, new)]

SetPreferences(prefs) == ~store.locked /\ store' = [store EXCEPT !.prefs = prefs]

-----------------------------------------------------------------------------
(* The queues.                                                             *)
Putting(n, k) == [store EXCEPT !.queue[n] = Put(store.queue[n], k, Size[n])]

SetPost(p) == ~store.locked /\ store' = Putting("posts", p)

SetStatus(u) == ~store.locked /\ store' = Putting("statuses", u)

SetChannelMember(c, u) == ~store.locked /\ store' = Putting("members", <<c, u>>)

DeletePost(p) ==
  ~store.locked /\ store' = [store EXCEPT !.queue["posts"] = Delete(store.queue["posts"], p)]

RemoveChannelMember(c, u) ==
  /\ ~store.locked
  /\ store' = [store EXCEPT !.queue["members"] = Delete(store.queue["members"], <<c, u>>)]

(* SetUsers and SetChannelMembers: the lock, the loop and the unlocking.   *)
Lock == ~store.locked /\ store' = [store EXCEPT !.locked = TRUE]

SetOneUser(u) == store.locked /\ store' = Putting("users", u)

SetOneMember(c, u) == store.locked /\ store' = Putting("members", <<c, u>>)

Unlock == store.locked /\ store' = [store EXCEPT !.locked = FALSE]

-----------------------------------------------------------------------------
(* The plain maps.                                                         *)
SetTeams(ts) == ~store.locked /\ store' = [store EXCEPT !.teams = ts]

SetTeam(t) == ~store.locked /\ store' = [store EXCEPT !.teams = @ \union {t}]

SetTeamMember(t) == ~store.locked /\ store' = [store EXCEPT !.teamMembers = @ \union {t}]

SetChannel(c) == ~store.locked /\ store' = [store EXCEPT !.channels = @ \union {c}]

SetChannelView(c) == ~store.locked /\ store' = [store EXCEPT !.views = @ \union {c}]

SetProfileImage(u) == ~store.locked /\ store' = [store EXCEPT !.images = @ \union {u}]

SetCurrentTeam(t) == ~store.locked /\ store' = [store EXCEPT !.currentTeam = t]

SetCurrentChannel(c) == ~store.locked /\ store' = [store EXCEPT !.currentChannel = c]

(* The slice of the reactions of a post may hold one reaction many times.  *)
SetReaction(p, u) ==
  /\ ~store.locked
  /\ store' = [store EXCEPT !.reactions[p][u] = IF @ = MaxReactions THEN @ ELSE @ + 1]

DeleteReaction(p, u) ==
  /\ ~store.locked
  /\ store' = [store EXCEPT !.reactions[p][u] = IF @ = 0 THEN 0 ELSE @ - 1]

-----------------------------------------------------------------------------
(* What the store may select, as sets: the program takes any element, or   *)
(* an error when there is none.                                            *)
StoredPosts == Stored(store.queue["posts"])
StoredUsers == Stored(store.queue["users"])
StoredStatuses == Stored(store.queue["statuses"])

IsMember(c) == <<c, Me>> \in Stored(store.queue["members"])

ChannelPosts(c) == {p \in StoredPosts : PostChannel[p] = c}

Membership(isMember) == IF isMember THEN "MemberOf" ELSE "NotMemberOf"

TeamChoice(st) ==
  {t \in store.teams : /\ ~(t = store.currentTeam /\ "NotCurrent" \in st)
                       /\ Membership(t \in store.teamMembers) \in st}

excludeChannelType ==
  [Public |-> "NotPublic", Private |-> "NotPrivate", Direct |-> "NotDirect",
   Group |-> "NotGroup"]

InTeam(c, t) == ChannelType[c] \in {"Public", "Private"} => ChannelTeam[c] = t

ChannelChoice(t, st) ==
  {c \in store.channels : /\ ~(c = store.currentChannel /\ "NotCurrent" \in st)
                          /\ excludeChannelType[ChannelType[c]] \notin st
                          /\ InTeam(c, t)
                          /\ Membership(IsMember(c)) \in st}

(* The user itself is never selected: without enough others it is an error *)
(* (ErrLenMismatch), and no loop.                                          *)
BugEnoughUsers(n) == Cardinality(StoredUsers) >= n

EnoughUsers(n) == Cardinality(StoredUsers) >= n + (IF Me \in StoredUsers THEN 1 ELSE 0)

UserChoice == StoredUsers \ {Me}

MemberChoice(c) == {u \in Users : <<c, u>> \in Stored(store.queue["members"])}

PostChoiceByUser(c, u) == {p \in ChannelPosts(c) : PostUser[p] = u}
-----------------------------------------------------------------------------
SomePut ==
  \/ \E p \in Posts : SetPost(p) \/ DeletePost(p)
  \/ \E u \in Users : SetStatus(u) \/ SetOneUser(u)
  \/ \E c \in Channels, u \in Users :
       SetChannelMember(c, u) \/ RemoveChannelMember(c, u) \/ SetOneMember(c, u)

SomeMap ==
  \/ \E ts \in SUBSET Teams : SetTeams(ts)
  \/ \E t \in Teams : SetTeam(t) \/ SetTeamMember(t) \/ SetCurrentTeam(t)
  \/ \E c \in Channels : SetChannel(c) \/ SetChannelView(c) \/ SetCurrentChannel(c)
  \/ \E u \in Users : SetProfileImage(u)
  \/ \E p \in Posts, u \in Users : SetReaction(p, u) \/ DeleteReaction(p, u)

StoreNext ==
  \/ Clear \/ Lock \/ Unlock \/ SomePut \/ SomeMap
  \/ \E new \in Credentials : SetUser(new)
  \/ \E prefs \in SUBSET {"Direct", "Group"} : SetPreferences(prefs)

StoreSpec == StoreInit /\ [][StoreNext]_store
-----------------------------------------------------------------------------
(* The map of a queue and its memory agree: what a map points to is the    *)
(* element stored there under that key, so a selection that goes from a    *)
(* key to the map and from the element back to its key never dereferences  *)
(* nil (memstore/random.go and the comments in memstore/store.go).         *)
MapsFollowQueues ==
  \A n \in Queues : LET q == store.queue[n] IN
    \A k \in Keys[n] : q.at[k] # Nowhere => q.data[q.at[k]] = k

(* Whatever the server leaves out of its answers, the user can log in      *)
(* again: its email and password are never lost (restorePrivateData).      *)
CredentialsKept == store.user.email /\ store.user.password

(* Each map of a queue is a map of the most recent elements: an element is *)
(* dropped exactly when the size of the queue says so.                     *)
RecentPosts == INSTANCE RecentEntries WITH
  Keys <- Posts, size <- MaxStoredPosts,
  life <- [p \in Posts |-> Life(store.queue["posts"], p, MaxStoredPosts)]

RecentMembers == INSTANCE RecentEntries WITH
  Keys <- Channels \X Users, size <- MaxStoredChannelMembers,
  life <- [m \in Channels \X Users |->
             Life(store.queue["members"], m, MaxStoredChannelMembers)]

RecentUsers == INSTANCE RecentEntries WITH
  Keys <- Users, size <- MaxStoredUsers,
  life <- [u \in Users |-> Life(store.queue["users"], u, MaxStoredUsers)]

RecentStatuses == INSTANCE RecentEntries WITH
  Keys <- Users, size <- MaxStoredStatuses,
  life <- [u \in Users |-> Life(store.queue["statuses"], u, MaxStoredStatuses)]

(* The four maps together, for whoever uses the store.                     *)
ImplementsRecent ==
  RecentPosts!Spec /\ RecentMembers!Spec /\ RecentUsers!Spec /\ RecentStatuses!Spec
=============================================================================
