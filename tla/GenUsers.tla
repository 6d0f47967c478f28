------------------------------ MODULE GenUsers ------------------------------
(***************************************************************************)
(* The users of a generative load test (src/loadtest/control/gencontroller)*)
(* and the command that waits for them (src/cmd/ltagent/loadtest.go): they *)
(* share counters of what they have made, each kind of thing up to a       *)
(* target, and each leaves when it finds every counter at its target.      *)
(* A user counts a thing before it asks the server for it and takes it     *)
(* back when that fails, so the others may see a target reached that is    *)
(* not.  The server starts empty; what is made there is the history        *)
(* variable "made".                                                        *)
(***************************************************************************)
EXTENDS Naturals, FiniteSets

CONSTANTS
  Users,        \* the controllers of the load test
  Stoppable,    \* those that a caller of LoadTester may stop early
  NumTeams, NumChannels, NumPosts, NumReactions,  \* the configured targets
  Weighted,     \* the actions whose frequency is not rounded to zero
  NoKind        \* a user that is making nothing that is counted

Kinds == {"teams", "channels", "posts", "reactions"}

ASSUME TargetsAssumption ==
  /\ NumTeams \in Nat /\ NumChannels \in Nat
  /\ NumPosts \in Nat /\ NumReactions \in Nat

ASSUME UsersAssumption ==
  /\ IsFiniteSet(Users) /\ Users # {}
  /\ Stoppable \subseteq Users
  /\ NoKind \notin Kinds

Target == [k \in Kinds |->
  CASE k = "teams" -> NumTeams
    [] k = "channels" -> NumChannels
    [] k = "posts" -> NumPosts
    [] k = "reactions" -> NumReactions]

(* Direct and group channels are made without being counted.               *)
KindOf ==
  [ joinTeam |-> NoKind, joinChannel |-> NoKind,
    createPublicChannel |-> "channels", createPrivateChannel |-> "channels",
    createDirectChannel |-> NoKind, createGroupChannel |-> NoKind,
    createPost |-> "posts", createReply |-> "posts",
    addReaction |-> "reactions" ]

Actions == DOMAIN KindOf

ASSUME WeightedAssumption == Weighted \subseteq Actions /\ "joinTeam" \in Weighted

(* The actions a user gives up when it sees a target reached.              *)
GivenUp(k) ==
  {a \in Actions : KindOf[a] = k}
    \union (IF k = "channels" THEN {"createDirectChannel", "createGroupChannel"}
                              ELSE {})

(* The order in which the counters are read.                               *)
Order == <<"teams", "channels", "posts", "reactions">>

VARIABLES
  count,    \* the shared counters (state.targets)
  made,     \* how many things of each kind the server has made
  pc,       \* where each user is in Run
  making,   \* the kind of thing a user has counted and is asking for
  actions,  \* the actions a user may still pick
  reading,  \* the counter a user reads next, once it has acted
  member,   \* the store of the user holds a team the user is a member of
  stop,     \* the stop channel of the user is closed
  command   \* the ltagent command: waiting for its users, or over

vars == <<count, made, pc, making, actions, reading, member, stop, command>>

InitSteps == {"signUp", "login", "createTeam", "joinTeam", "joinChannel"}

After(step) ==
  CASE step = "signUp" -> "login"
    [] step = "login" -> "createTeam"
    [] step = "createTeam" -> "joinTeam"
    [] step = "joinTeam" -> "joinChannel"
    [] step = "joinChannel" -> "pick"

Over == {"leaving", "stopped"}

TypeOK ==
  /\ count \in [Kinds -> Nat]
  /\ made \in [Kinds -> Nat]
  /\ pc \in [Users -> InitSteps \union {"pick", "check", "trim", "idle"} \union Over]
  /\ making \in [Users -> Kinds \union {NoKind}]
  /\ actions \in [Users -> SUBSET Actions]
  /\ reading \in [Users -> 1..4]
  /\ member \in [Users -> BOOLEAN]
  /\ stop \in [Users -> BOOLEAN]
  /\ command \in {"waiting", "over"}

(* init sets the counters to zero; Run makes the map of actions after the  *)
(* initial ones, none of which reads it.                                   *)
Init ==
  /\ count = [k \in Kinds |-> 0]
  /\ made = [k \in Kinds |-> 0]
  /\ pc = [u \in Users |-> "signUp"]
  /\ making = [u \in Users |-> NoKind]
  /\ actions = [u \in Users |-> Actions]
  /\ reading = [u \in Users |-> 1]
  /\ member = [u \in Users |-> FALSE]
  /\ stop = [u \in Users |-> FALSE]
  /\ command = "waiting"

-----------------------------------------------------------------------------
(* Mutant: the target is not looked at.                                    *)
BugInc(k) == count' = [count EXCEPT ![k] = @ + 1]

(* The shared counters: each operation holds the mutex from end to end.    *)

inc(k) ==
  /\ count[k] # Target[k]
  /\ count' = [count EXCEPT ![k] = @ + 1]

dec(k) == count' = [count EXCEPT ![k] = @ - 1]

Goto(u, l) == pc' = [pc EXCEPT ![u] = l]

-----------------------------------------------------------------------------
(* The initial actions: one that fails is tried again.                     *)

(* The pause after an initial action, at which a stop is noticed.          *)
Proceed(u, ok) ==
  Goto(u, IF stop[u] THEN "leaving" ELSE IF ok THEN After(pc[u]) ELSE pc[u])

(* Signing up, logging in: an error, or success; the server is empty, so   *)
(* logging in finds no team the user is a member of.                       *)
SignUpOrLogin(u) ==
  /\ pc[u] \in {"signUp", "login"}
  /\ \E ok \in BOOLEAN : Proceed(u, ok)
  /\ UNCHANGED <<count, made, making, actions, reading, member, stop, command>>

TeamTargetReached(u) ==
  /\ pc[u] = "createTeam" /\ making[u] = NoKind
  /\ count["teams"] = Target["teams"]
  /\ Proceed(u, TRUE)
  /\ UNCHANGED <<count, made, making, actions, reading, member, stop, command>>

CountTeam(u) ==
  /\ pc[u] = "createTeam" /\ making[u] = NoKind
  /\ inc("teams")
  /\ making' = [making EXCEPT ![u] = "teams"]
  /\ UNCHANGED <<made, pc, actions, reading, member, stop, command>>

TeamMade(u) ==
  /\ making[u] = "teams"
  /\ made' = [made EXCEPT !["teams"] = @ + 1]
  /\ making' = [making EXCEPT ![u] = NoKind]
  /\ Proceed(u, TRUE)
  /\ UNCHANGED <<count, actions, reading, member, stop, command>>

(* Mutant: an initial action that fails is not tried again.                *)
BugTeamNotMade(u) ==
  /\ making[u] = "teams"
  /\ dec("teams")
  /\ making' = [making EXCEPT ![u] = NoKind]
  /\ Proceed(u, TRUE)
  /\ UNCHANGED <<made, actions, reading, member, stop, command>>

TeamNotMade(u) ==
  /\ making[u] = "teams"
  /\ dec("teams")
  /\ making' = [making EXCEPT ![u] = NoKind]
  /\ Proceed(u, FALSE)
  /\ UNCHANGED <<made, actions, reading, member, stop, command>>

(* With no team to join the action succeeds all the same.                  *)
joinTeam(u) ==
  /\ pc[u] = "joinTeam"
  /\ \/ /\ member' = [member EXCEPT ![u] = @ \/ made["teams"] > 0]
        /\ Proceed(u, TRUE)
     \/ /\ Proceed(u, FALSE)
        /\ UNCHANGED member
  /\ UNCHANGED <<count, made, making, actions, reading, stop, command>>

(* After joining a channel it reads posts of a channel of one of its teams,*)
(* which it may not have: nothing here asks the server for teams again.    *)
joinChannel(u) ==
  /\ pc[u] = "joinChannel"
  /\ \E ok \in BOOLEAN : (ok => member[u]) /\ Proceed(u, ok)
  /\ UNCHANGED <<count, made, making, actions, reading, member, stop, command>>

-----------------------------------------------------------------------------
(* The loop of actions.                                                    *)

(* An action that counts nothing, or whose target is reached; the joinTeam *)
(* of this loop can only add teams.                                        *)
ActUncounted(u) ==
  /\ pc[u] = "pick" /\ making[u] = NoKind
  /\ \E a \in actions[u] \intersect Weighted :
       KindOf[a] # NoKind => count[KindOf[a]] = Target[KindOf[a]]
  /\ Goto(u, "check")
  /\ UNCHANGED <<count, made, making, actions, reading, member, stop, command>>

Count(u, a) ==
  /\ pc[u] = "pick" /\ making[u] = NoKind
  /\ a \in actions[u] \intersect Weighted
  /\ KindOf[a] # NoKind
  /\ inc(KindOf[a])
  /\ making' = [making EXCEPT ![u] = KindOf[a]]
  /\ UNCHANGED <<made, pc, actions, reading, member, stop, command>>

Begins(u, k) == \E a \in Actions : KindOf[a] = k /\ Count(u, a)

Counts(u) == \E k \in Kinds : Begins(u, k)

Made(u) ==
  /\ pc[u] = "pick" /\ making[u] # NoKind
  /\ made' = [made EXCEPT ![making[u]] = @ + 1]
  /\ making' = [making EXCEPT ![u] = NoKind]
  /\ Goto(u, "check")
  /\ UNCHANGED <<count, actions, reading, member, stop, command>>

(* Nothing in the store to post in, reply to or react to, a reaction that  *)
(* is there already, or a request that fails.                              *)
NotMade(u) ==
  /\ pc[u] = "pick" /\ making[u] # NoKind
  /\ dec(making[u])
  /\ making' = [making EXCEPT ![u] = NoKind]
  /\ Goto(u, "check")
  /\ UNCHANGED <<made, actions, reading, member, stop, command>>

(* Mutant: one short of the target is taken for the target.                *)
BugReached(u) == count[Order[reading[u]]] + 1 >= Target[Order[reading[u]]]

Reached(u) == count[Order[reading[u]]] = Target[Order[reading[u]]]

(* Mutant: a user that finds everything reached goes on.                   *)
BugDone(u) ==
  /\ pc[u] = "check"
  /\ IF Reached(u) /\ reading[u] # 4
     THEN reading' = [reading EXCEPT ![u] = @ + 1] /\ UNCHANGED pc
     ELSE Goto(u, "trim") /\ reading' = [reading EXCEPT ![u] = 2]
  /\ UNCHANGED <<count, made, making, actions, member, stop, command>>

(* done: the counters are read one after the other, up to the first that   *)
(* is not at its target; then those of the actions are read again.         *)
done(u) ==
  /\ pc[u] = "check"
  /\ IF Reached(u)
     THEN IF reading[u] = 4
          THEN Goto(u, "leaving") /\ reading' = [reading EXCEPT ![u] = 1]
          ELSE reading' = [reading EXCEPT ![u] = @ + 1] /\ UNCHANGED pc
     ELSE Goto(u, "trim") /\ reading' = [reading EXCEPT ![u] = 2]
  /\ UNCHANGED <<count, made, making, actions, member, stop, command>>

Trim(u) ==
  /\ pc[u] = "trim"
  /\ actions' = IF Reached(u)
                THEN [actions EXCEPT ![u] = @ \ GivenUp(Order[reading[u]])]
                ELSE actions
  /\ IF reading[u] = 4
     THEN Goto(u, "idle") /\ reading' = [reading EXCEPT ![u] = 1]
     ELSE reading' = [reading EXCEPT ![u] = @ + 1] /\ UNCHANGED pc
  /\ UNCHANGED <<count, made, making, member, stop, command>>

Idle(u) ==
  /\ pc[u] = "idle"
  /\ Goto(u, IF stop[u] THEN "leaving" ELSE "pick")
  /\ UNCHANGED <<count, made, making, actions, reading, member, stop, command>>

(* The deferred part of Run: log out, report that the user has stopped.    *)
Leave(u) ==
  /\ pc[u] = "leaving"
  /\ Goto(u, "stopped")
  /\ UNCHANGED <<count, made, making, actions, reading, member, stop, command>>

(* Stop only closes the channel; it does not wait for Run.                 *)
Stop(u) ==
  /\ u \in Stoppable /\ ~ stop[u]
  /\ stop' = [stop EXCEPT ![u] = TRUE]
  /\ UNCHANGED <<count, made, pc, making, actions, reading, member, command>>

-----------------------------------------------------------------------------
(* The command waits for as many reports of stopped users as it has users, *)
(* then stops the load test, and with it every controller.                 *)
CommandEnds ==
  /\ command = "waiting"
  /\ Cardinality({u \in Users : pc[u] = "stopped"}) = Cardinality(Users)
  /\ command' = "over"
  /\ stop' = [u \in Users |-> TRUE]
  /\ UNCHANGED <<count, made, pc, making, actions, reading, member>>

User(u) ==
  \/ SignUpOrLogin(u)
  \/ TeamTargetReached(u) \/ CountTeam(u) \/ TeamMade(u) \/ TeamNotMade(u)
  \/ joinTeam(u) \/ joinChannel(u)
  \/ ActUncounted(u) \/ Counts(u) \/ Made(u) \/ NotMade(u)
  \/ done(u) \/ Trim(u) \/ Idle(u) \/ Leave(u)

Next == (\E u \in Users : User(u) \/ Stop(u)) \/ CommandEnds

Spec == Init /\ [][Next]_vars

(* Requests that succeed if they are made again and again.  A reaction     *)
(* need not: addReaction takes a post of the last ten seconds only, and    *)
(* one that this user has not given the same emoji.                        *)
Succeeds(u) ==
  \/ TeamMade(u) \/ (making[u] # "reactions" /\ Made(u))
  \/ (SignUpOrLogin(u) \/ joinTeam(u) \/ joinChannel(u)) /\ pc'[u] # pc[u]

(* A user goes on acting; picking at random, it does not for ever pick     *)
(* something else than channels, or than posts, while it may make them;    *)
(* the server does not refuse for ever what a user asks.                   *)
Fairness ==
  /\ WF_vars(CommandEnds)
  /\ \A u \in Users :
       /\ WF_vars(User(u)) /\ SF_vars(Succeeds(u))
       /\ SF_vars(Begins(u, "channels")) /\ SF_vars(Begins(u, "posts"))

FairSpec == Spec /\ Fairness

-----------------------------------------------------------------------------
Making(k) == {u \in Users : making[u] = k}

(* Every counter is what has been made and what is being made, so nothing  *)
(* is made beyond its target (state.inc, and the dec of every error path   *)
(* of the actions).                                                        *)
CountersExact ==
  \A k \in Kinds : /\ count[k] = made[k] + Cardinality(Making(k))
                   /\ count[k] <= Target[k]

(* The user still makes things of this kind, and will look at the counter  *)
(* again before it gives them up.                                          *)
Makes(u, k) ==
  /\ pc[u] \notin Over
  /\ \E a \in actions[u] : KindOf[a] = k
  /\ pc[u] = "check" => \A i \in 1..(reading[u] - 1) : Order[i] # k

(* A target that a user finds reached may be missed later, when another    *)
(* user takes back what it had counted: then somebody is left who makes    *)
(* up for it (done and the removal of actions in Run, controller.go).      *)
SomeoneMakesIt ==
  command = "waiting" =>
    \A k \in Kinds \ {"teams"} :
      count[k] < Target[k] => \E u \in Users : Makes(u, k) \/ stop[u]

AllMade == \A k \in Kinds : made[k] = Target[k]

(* Unless a user is stopped early, all teams, channels and posts are made  *)
(* in the end, although users leave one by one and take back what others   *)
(* have seen counted (Run, controller.go).  Reactions may be missed.       *)
AllButReactionsMade ==
  <>( \/ \A k \in Kinds \ {"reactions"} : made[k] = Target[k]
      \/ command = "waiting" /\ \E u \in Users : stop[u] )

(* docs/generating_data.md: "The command will exit once all the configured *)
(* data has been successfully created."                                    *)
ExitsWhenMade == AllMade ~> command = "over"

(* What is true of it: the one user who keeps the command is the one that  *)
(* found the target of teams reached before there was a team to join, and  *)
(* whom nobody stops (createTeam and joinTeam, gencontroller/actions.go).  *)
Teamless(u) == pc[u] = "joinChannel" /\ ~ member[u] /\ ~ stop[u]

ExitsUnlessTeamless == AllMade ~> command = "over" \/ \E u \in Users : Teamless(u)
=============================================================================
