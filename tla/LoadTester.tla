----------------------------- MODULE LoadTester -----------------------------
(***************************************************************************)
(* loadtest.LoadTester (src/loadtest/loadtest.go): the load-test agent's   *)
(* engine.  Its four operations Run, AddUsers, RemoveUsers and Stop hold   *)
(* lt.mut for their whole duration, so at most one of them, named by "op", *)
(* is in progress; what interleaves with it are the user controllers, one  *)
(* goroutine each, and the goroutine of handleStatus that drains the       *)
(* status channel.  Every Run makes a new channel: channels are numbered   *)
(* by the run that made them, and a controller keeps the one it was        *)
(* created with.                                                           *)
(*                                                                         *)
(* A controller is modelled by its life cycle only, that of simulcontroller *)
(* (module SimulUser): Run reports on the status channel until its stop    *)
(* channel is closed, reports STOPPED last and closes its stopped channel; *)
(* Stop closes the stop channel, waits for the stopped channel and makes   *)
(* both anew.  A call that is refused (an argument that is not positive,   *)
(* the wrong state) changes nothing and is a stuttering step.              *)
(*                                                                         *)
(* A definition named Bug... is not part of the model: it is the next      *)
(* definition with a mistake in it, which some property must tell apart.   *)
(***************************************************************************)
EXTENDS Integers, Sequences, FiniteSets

CONSTANTS
  Controllers,         \* the controllers newController can return
  MaxActiveUsers,      \* UsersConfiguration.MaxActiveUsers
  InitialActiveUsers,  \* UsersConfiguration.InitialActiveUsers
  MultiSession,        \* UsersConfiguration.AvgSessionsPerUser > 1
  FactoryMayFail,      \* newController may return an error
  RatesUsable,         \* pickRate and SetRate succeed for the configured rates
  MaxRuns,             \* bound: how often Run is accepted
  MaxAdded,            \* bound: users added in one run by AddUsers
  MaxErrors            \* bound: errors the controllers report in one run

ASSUME ControllersAssumption ==
  /\ IsFiniteSet(Controllers)
  /\ MaxActiveUsers \in Nat \ {0}
  /\ InitialActiveUsers \in 0..MaxActiveUsers
  /\ MultiSession \in BOOLEAN
  /\ FactoryMayFail \in BOOLEAN
  /\ RatesUsable \in BOOLEAN

ASSUME BoundsAssumption ==
  /\ MaxRuns \in Nat
  /\ MaxAdded \in Nat
  /\ MaxErrors \in Nat

VARIABLES
  state,       \* lt.status.State
  op,          \* the operation that holds lt.mut, "none" when it is free
  todo,        \* users the operation has still to add, or is removing
  waiting,     \* controllers whose Stop, called by removeUsers, has not returned
  active,      \* lt.activeControllers
  idle,        \* lt.idleControllers
  phase,       \* the life cycle of each controller
  stopping,    \* controllers whose stop channel is closed
  userOf,      \* the user id a controller was created with
  chanOf,      \* the run whose status channel a controller sends on
  gen,         \* the number of runs so far: lt.statusChan is channel gen
  buf,         \* the status channels, each with a buffer of MaxActiveUsers
  closed,      \* the status channels that are closed
  wg,          \* lt.wg
  numUsers, numAdded, numRemoved, numStopped, numErrors,   \* lt.status
  errorsSent,  \* history: errors reported by controllers in this run
  crashed      \* the process has panicked: a send on a closed channel

counters == <<numUsers, numAdded, numRemoved>>
lifeVars == <<phase, stopping, userOf, chanOf>>
sendVars == <<buf, errorsSent, crashed>>
tally    == <<wg, numStopped, numErrors>>
opVars   == <<state, op, todo, waiting, gen, closed>>
vars     == <<opVars, active, idle, lifeVars, sendVars, tally, counters>>

Gens   == 0..MaxRuns
Codes  == {"info", "error", "stopped"}
Status == [from : Controllers, code : Codes]
Phases == {"unborn", "idle", "starting", "running", "leaving", "stopped"}
States == {"stopped", "starting", "running", "stopping"}
Ops    == {"none", "run", "add", "remove", "stop", "drain"}

TypeOK ==
  /\ state \in States
  /\ op \in Ops
  /\ todo \in Nat
  /\ waiting \in SUBSET Controllers
  /\ active \in Seq(Controllers)
  /\ idle \in Seq(Controllers)
  /\ phase \in [Controllers -> Phases]
  /\ stopping \in SUBSET Controllers
  /\ userOf \in [Controllers -> Nat]
  /\ chanOf \in [Controllers -> Gens]
  /\ gen \in Gens
  /\ buf \in [Gens -> Seq(Status)]
  /\ closed \in SUBSET Gens
  /\ wg \in Int          \* an int32 that panics below 0: see WaitGroupExact
  /\ numUsers \in Nat
  /\ numAdded \in Nat
  /\ numRemoved \in Nat
  /\ numStopped \in Nat
  /\ numErrors \in Nat
  /\ errorsSent \in Nat
  /\ crashed \in BOOLEAN

Init ==
  /\ state = "stopped"
  /\ op = "none"
  /\ todo = 0
  /\ waiting = {}
  /\ active = <<>>
  /\ idle = <<>>
  /\ phase = [c \in Controllers |-> "unborn"]
  /\ stopping = {}
  /\ userOf = [c \in Controllers |-> 0]
  /\ chanOf = [c \in Controllers |-> 0]
  /\ gen = 0
  /\ buf = [g \in Gens |-> <<>>]
  /\ closed = {}
  /\ wg = 0
  /\ numUsers = 0
  /\ numAdded = 0
  /\ numRemoved = 0
  /\ numStopped = 0
  /\ numErrors = 0
  /\ errorsSent = 0
  /\ crashed = FALSE

-----------------------------------------------------------------------------
BugRunKeepsStopped ==
  /\ op = "none"
  /\ state = "stopped"
  /\ gen < MaxRuns
  /\ state' = "starting"
  /\ op' = "run"
  /\ todo' = InitialActiveUsers
  /\ gen' = gen + 1
  /\ numRemoved' = 0
  /\ numAdded' = 0
  /\ numErrors' = 0
  /\ errorsSent' = 0
  /\ UNCHANGED <<waiting, active, idle, lifeVars, buf, crashed, closed, wg, numUsers, numStopped>>

(* Run: reset the counters (NumUsers is not among them), make a status     *)
(* channel and its handler, then add the initial users.  (The start time,  *)
(* which is set each time, is left out.)                                   *)
Run ==
  /\ op = "none"
  /\ state = "stopped"
  /\ gen < MaxRuns
  /\ state' = "starting"
  /\ op' = "run"
  /\ todo' = InitialActiveUsers
  /\ gen' = gen + 1
  /\ numRemoved' = 0
  /\ numAdded' = 0
  /\ numStopped' = 0
  /\ numErrors' = 0
  /\ errorsSent' = 0
  /\ UNCHANGED <<waiting, active, idle, lifeVars, buf, crashed, closed, wg, numUsers>>

RunDone ==
  /\ op = "run"
  /\ todo = 0
  /\ state' = "running"
  /\ op' = "none"
  /\ UNCHANGED <<todo, waiting, gen, closed>>
  /\ UNCHANGED <<active, idle, lifeVars, sendVars, tally, counters>>

AddUsers(n) ==
  /\ op = "none"
  /\ state = "running"
  /\ numAdded + n <= MaxAdded
  /\ op' = "add"
  /\ todo' = n
  /\ UNCHANGED <<state, waiting, gen, closed>>
  /\ UNCHANGED <<active, idle, lifeVars, sendVars, tally, counters>>

AddUsersDone ==
  /\ op = "add"
  /\ todo = 0
  /\ op' = "none"
  /\ UNCHANGED <<state, todo, waiting, gen, closed>>
  /\ UNCHANGED <<active, idle, lifeVars, sendVars, tally, counters>>

-----------------------------------------------------------------------------
(* addUser, called once for each user to add.                              *)

BugAddingOneMore == op \in {"run", "add"}

Adding ==
  /\ op \in {"run", "add"}
  /\ todo > 0

(* An error ends AddUsers; Run logs it and goes on with the next user.     *)
AddFailed == todo' = IF op = "run" THEN todo - 1 ELSE 0

(* The last lines of addUser: count the controller, then go controller.Run *)
Launch(c) ==
  /\ todo' = todo - 1
  /\ numUsers' = numUsers + 1
  /\ numAdded' = numAdded + 1
  /\ active' = Append(active, c)
  /\ wg' = wg + 1
  /\ phase' = [phase EXCEPT ![c] = "starting"]
  /\ UNCHANGED <<numRemoved, numStopped, numErrors, stopping>>

AddUserAtMax ==
  /\ Adding
  /\ Len(active) = MaxActiveUsers
  /\ AddFailed
  /\ UNCHANGED <<state, op, waiting, gen, closed>>
  /\ UNCHANGED <<active, idle, lifeVars, sendVars, tally, counters>>

(* An idle controller is taken first.  It would be lost if no rate could   *)
(* be set for it, but then there is none: that depends on the              *)
(* configuration alone, and no user was ever added.                        *)
AddIdleUser ==
  /\ Adding
  /\ Len(active) # MaxActiveUsers
  /\ idle # <<>>
  /\ RatesUsable
  /\ idle' = Tail(idle)
  /\ Launch(Head(idle))
  /\ UNCHANGED <<state, op, waiting, gen, closed, userOf, chanOf, sendVars>>

(* The user of a new controller: the next one, or for a further session a  *)
(* random one below the number of active users.                            *)
NewUserIds ==
  {Len(active) + 1} \union
    (IF MultiSession /\ active # <<>> THEN 0..(Len(active) - 1) ELSE {})

BugAddNewUserFirst(c) ==
  /\ Adding
  /\ Len(active) # MaxActiveUsers
  /\ RatesUsable
  /\ phase[c] = "unborn"
  /\ \E id \in NewUserIds : userOf' = [userOf EXCEPT ![c] = id]
  /\ chanOf' = [chanOf EXCEPT ![c] = gen]
  /\ Launch(c)
  /\ UNCHANGED <<state, op, waiting, gen, closed, idle, sendVars>>

AddNewUser(c) ==
  /\ Adding
  /\ Len(active) # MaxActiveUsers
  /\ idle = <<>>
  /\ RatesUsable
  /\ phase[c] = "unborn"
  /\ \E id \in NewUserIds : userOf' = [userOf EXCEPT ![c] = id]
  /\ chanOf' = [chanOf EXCEPT ![c] = gen]
  /\ Launch(c)
  /\ UNCHANGED <<state, op, waiting, gen, closed, idle, sendVars>>

AddNewUserFails ==
  /\ Adding
  /\ Len(active) # MaxActiveUsers
  /\ idle = <<>>
  /\ FactoryMayFail \/ ~ RatesUsable
  /\ AddFailed
  /\ UNCHANGED <<state, op, waiting, gen, closed>>
  /\ UNCHANGED <<active, idle, lifeVars, sendVars, tally, counters>>

-----------------------------------------------------------------------------
(* removeUsers(n), called by RemoveUsers and Stop: Stop the last n active  *)
(* controllers, each in a goroutine of its own, and wait for all of them.  *)

LastActive(n) == {active[i] : i \in (Len(active) - n + 1)..Len(active)}

RemoveUsers(n) ==
  LET k == IF n > Len(active) THEN Len(active) ELSE n IN
  /\ op = "none"
  /\ state = "running"
  /\ op' = "remove"
  /\ todo' = k
  /\ waiting' = LastActive(k)
  /\ UNCHANGED <<state, gen, closed>>
  /\ UNCHANGED <<active, idle, lifeVars, sendVars, tally, counters>>

Stop ==
  /\ op = "none"
  /\ state = "running"
  /\ state' = "stopping"
  /\ op' = "stop"
  /\ todo' = Len(active)
  /\ waiting' = LastActive(Len(active))
  /\ UNCHANGED <<gen, closed>>
  /\ UNCHANGED <<active, idle, lifeVars, sendVars, tally, counters>>

(* controller.Stop: close the stop channel ...                             *)
CloseStopChan(c) ==
  /\ c \in waiting \ stopping
  /\ stopping' = stopping \union {c}
  /\ UNCHANGED <<opVars, active, idle, phase, userOf, chanOf, sendVars, tally, counters>>

BugStopReturnsAtOnce(c) ==
  /\ c \in waiting \intersect stopping
  /\ stopping' = stopping \ {c}
  /\ waiting' = waiting \ {c}
  /\ UNCHANGED <<state, op, todo, gen, closed>>
  /\ UNCHANGED <<active, idle, phase, userOf, chanOf, sendVars, tally, counters>>

(* ... wait for the stopped channel, and make both anew.                   *)
StopReturns(c) ==
  /\ c \in waiting \intersect stopping
  /\ phase[c] = "stopped"
  /\ phase' = [phase EXCEPT ![c] = "idle"]
  /\ stopping' = stopping \ {c}
  /\ waiting' = waiting \ {c}
  /\ UNCHANGED <<state, op, todo, gen, closed>>
  /\ UNCHANGED <<active, idle, userOf, chanOf, sendVars, tally, counters>>

BugRemoveDoneUncounted ==
  /\ op \in {"remove", "stop"}
  /\ waiting = {}
  /\ op' = IF op = "remove" THEN "none" ELSE "drain"
  /\ idle' = idle \o SubSeq(active, Len(active) - todo + 1, Len(active))
  /\ active' = SubSeq(active, 1, Len(active) - todo)
  /\ numUsers' = numUsers - todo
  /\ todo' = 0
  /\ UNCHANGED <<state, waiting, gen, closed, lifeVars, sendVars, tally>>
  /\ UNCHANGED <<numAdded, numRemoved>>

(* All Stop calls have returned: move the controllers to the idle ones.    *)
RemoveDone ==
  /\ op \in {"remove", "stop"}
  /\ waiting = {}
  /\ op' = IF op = "remove" THEN "none" ELSE "drain"
  /\ idle' = idle \o SubSeq(active, Len(active) - todo + 1, Len(active))
  /\ active' = SubSeq(active, 1, Len(active) - todo)
  /\ numUsers' = numUsers - todo
  /\ numRemoved' = numRemoved + todo
  /\ todo' = 0
  /\ UNCHANGED <<state, waiting, gen, closed, lifeVars, sendVars, tally, numAdded>>

BugStopDoneNoWait ==
  /\ op = "drain"
  /\ closed' = closed \union {gen}
  /\ numUsers' = 0
  /\ state' = "stopped"
  /\ op' = "none"
  /\ UNCHANGED <<todo, waiting, gen, active, idle, lifeVars, sendVars, tally>>
  /\ UNCHANGED <<numAdded, numRemoved>>

BugStopDoneFirst ==
  /\ op = "stop"
  /\ closed' = closed \union {gen}
  /\ op' = "drain"
  /\ UNCHANGED <<state, todo, waiting, gen, active, idle, lifeVars, sendVars, tally>>
  /\ UNCHANGED counters

(* The rest of Stop: lt.wg.Wait, then close the status channel.            *)
StopDone ==
  /\ op = "drain"
  /\ wg = 0
  /\ closed' = closed \union {gen}
  /\ numUsers' = 0
  /\ state' = "stopped"
  /\ op' = "none"
  /\ UNCHANGED <<todo, waiting, gen, active, idle, lifeVars, sendVars, tally>>
  /\ UNCHANGED <<numAdded, numRemoved>>

-----------------------------------------------------------------------------
(* The controllers' Run.  A send blocks while the buffer is full and       *)
(* panics, ending the process, when the channel is closed.                 *)

Send(c, code) ==
  LET g == chanOf[c] IN
  /\ g \notin closed
  /\ Len(buf[g]) < MaxActiveUsers
  /\ buf' = [buf EXCEPT ![g] = Append(@, [from |-> c, code |-> code])]
  /\ UNCHANGED crashed

(* USER_STATUS_STARTED, the first status of every run.                     *)
UserStarted(c) ==
  /\ phase[c] = "starting"
  /\ Send(c, "info")
  /\ phase' = [phase EXCEPT ![c] = "running"]
  /\ UNCHANGED <<opVars, active, idle, stopping, userOf, chanOf, errorsSent, tally, counters>>

(* An action that succeeded, or the end of one of the controller's own     *)
(* goroutines that its deferred logout waits for.                          *)
UserInfo(c) ==
  /\ phase[c] \in {"running", "leaving"}
  /\ Send(c, "info")
  /\ UNCHANGED <<opVars, active, idle, lifeVars, errorsSent, tally, counters>>

(* A failed action, request or connection, or a failed logout at the end.  *)
UserError(c) ==
  /\ phase[c] \in {"running", "leaving"}
  /\ errorsSent < MaxErrors
  /\ Send(c, "error")
  /\ errorsSent' = errorsSent + 1
  /\ UNCHANGED <<opVars, active, idle, lifeVars, tally, counters>>

(* The loop of Run sees that the stop channel is closed.                   *)
UserLeaves(c) ==
  /\ phase[c] = "running"
  /\ c \in stopping
  /\ phase' = [phase EXCEPT ![c] = "leaving"]
  /\ UNCHANGED <<opVars, active, idle, stopping, userOf, chanOf, sendVars, tally, counters>>

(* USER_STATUS_STOPPED, then close of the stopped channel.                 *)
UserStopped(c) ==
  /\ phase[c] = "leaving"
  /\ Send(c, "stopped")
  /\ phase' = [phase EXCEPT ![c] = "stopped"]
  /\ UNCHANGED <<opVars, active, idle, stopping, userOf, chanOf, errorsSent, tally, counters>>

SendOnClosedPanics(c) ==
  /\ phase[c] \in {"starting", "running", "leaving"}
  /\ chanOf[c] \in closed
  /\ crashed' = TRUE
  /\ UNCHANGED <<opVars, active, idle, lifeVars, buf, errorsSent, tally, counters>>

-----------------------------------------------------------------------------
BugHandleStatusErrorEnds(g) ==
  /\ buf[g] # <<>>
  /\ LET code == Head(buf[g]).code IN
     /\ numStopped' = IF code = "stopped" THEN numStopped + 1 ELSE numStopped
     /\ wg' = IF code \in {"stopped", "error"} THEN wg - 1 ELSE wg
     /\ numErrors' = IF code = "error" THEN numErrors + 1 ELSE numErrors
  /\ buf' = [buf EXCEPT ![g] = Tail(@)]
  /\ UNCHANGED <<opVars, active, idle, lifeVars, errorsSent, crashed, counters>>

BugHandleStatusQuits(g) ==
  /\ state # "stopping"
  /\ buf[g] # <<>>
  /\ LET code == Head(buf[g]).code IN
     /\ numStopped' = IF code = "stopped" THEN numStopped + 1 ELSE numStopped
     /\ wg' = IF code = "stopped" THEN wg - 1 ELSE wg
     /\ numErrors' = IF code = "error" THEN numErrors + 1 ELSE numErrors
  /\ buf' = [buf EXCEPT ![g] = Tail(@)]
  /\ UNCHANGED <<opVars, active, idle, lifeVars, errorsSent, crashed, counters>>

(* One round of the loop of the handleStatus goroutine that Run number g   *)
(* started: it ends when its channel is closed and empty.  The counter of  *)
(* ended users goes up before lt.wg.Done can let Stop go on, so the two    *)
(* are one step.  FAILED is handled as STOPPED is; only a controller       *)
(* without a user sends it, and no factory makes one.                      *)
HandleStatus(g) ==
  /\ buf[g] # <<>>
  /\ LET code == Head(buf[g]).code IN
     /\ numStopped' = IF code = "stopped" THEN numStopped + 1 ELSE numStopped
     /\ wg' = IF code = "stopped" THEN wg - 1 ELSE wg
     /\ numErrors' = IF code = "error" THEN numErrors + 1 ELSE numErrors
  /\ buf' = [buf EXCEPT ![g] = Tail(@)]
  /\ UNCHANGED <<opVars, active, idle, lifeVars, errorsSent, crashed, counters>>

-----------------------------------------------------------------------------
(* Nobody runs the agent again: the bound on runs is used up.              *)
Ended ==
  /\ state = "stopped"
  /\ gen = MaxRuns
  /\ UNCHANGED vars

LockHolderStep ==
  \/ RunDone
  \/ AddUsersDone
  \/ AddUserAtMax
  \/ AddIdleUser
  \/ \E c \in Controllers : AddNewUser(c)
  \/ AddNewUserFails
  \/ RemoveDone
  \/ StopDone

ControllerStep(c) ==
  \/ UserStarted(c)
  \/ UserInfo(c)
  \/ UserError(c)
  \/ UserLeaves(c)
  \/ UserStopped(c)
  \/ SendOnClosedPanics(c)

Next ==
  \/ /\ ~ crashed
     /\ \/ Run
        \/ \E n \in 1..(MaxActiveUsers + 1) : AddUsers(n) \/ RemoveUsers(n)
        \/ Stop
        \/ LockHolderStep
        \/ \E c \in Controllers : CloseStopChan(c) \/ StopReturns(c) \/ ControllerStep(c)
        \/ \E g \in Gens : HandleStatus(g)
  \/ Ended

Spec == Init /\ [][Next]_vars

(* The Go scheduler runs every goroutine that can proceed; a sender        *)
(* blocked on a full channel is queued, so it is not overtaken for ever.   *)
(* Nothing makes a caller use the API.                                     *)
Fairness ==
  /\ WF_vars(~ crashed /\ LockHolderStep)
  /\ \A g \in Gens : WF_vars(~ crashed /\ HandleStatus(g))
  /\ \A c \in Controllers :
       /\ WF_vars(~ crashed /\ CloseStopChan(c))
       /\ WF_vars(~ crashed /\ StopReturns(c))
       /\ WF_vars(~ crashed /\ UserLeaves(c))
       /\ SF_vars(~ crashed /\ UserStarted(c))
       /\ SF_vars(~ crashed /\ UserStopped(c))

FairSpec == Spec /\ Fairness

-----------------------------------------------------------------------------
(* Controllers between the go statement of addUser and their STOPPED.      *)
Live == {c \in Controllers : phase[c] \in {"starting", "running", "leaving"}}

CountOf(s, code) == Cardinality({i \in 1..Len(s) : s[i].code = code})

(* lt.wg counts exactly the users whose end has not been handled: those    *)
(* still running and those whose STOPPED is in the channel.  So wg.Done    *)
(* never makes it negative (a panic) and wg.Wait in Stop waits for all.    *)
WaitGroupExact == wg = Cardinality(Live) + CountOf(buf[gen], "stopped")

(* What Status reports at any time: NumUsers is the number of active       *)
(* controllers, and NumUsersAdded - NumUsersRemoved is NumUsers too.       *)
UsersBalanced ==
  /\ numUsers = Len(active)
  /\ numAdded = numRemoved + numUsers

(* When Stop has returned every status was handled before the channel was  *)
(* closed: no error is lost and every user added has been seen to stop.    *)
StatusSettled ==
  state = "stopped" /\ gen > 0 =>
    /\ buf[gen] = <<>>
    /\ numErrors = errorsSent
    /\ numStopped = numAdded
    /\ numRemoved = numAdded

(* A controller does not send on a status channel that Stop has closed.    *)
NoSendOnClosedChannel == ~ crashed

(* No two active controllers simulate one user, unless further sessions    *)
(* of a user are asked for: addUser numbers a new user by the length of    *)
(* activeControllers, which is only right because idle ones go first.      *)
DistinctUsers ==
  ~ MultiSession =>
    \A i, j \in 1..Len(active) :
      userOf[active[i]] = userOf[active[j]] => i = j

(* Each controller is used as its contract (module ControllerLife) allows: *)
(* Run when it is idle, Stop once, and Run again when Stop has returned.   *)
Life(c) == INSTANCE ControllerLife WITH
  phase <- IF phase[c] = "unborn" THEN "idle" ELSE phase[c],
  stop  <- c \in stopping

ControllersLive == [][\A c \in Controllers : [Life(c)!Next]_(Life(c)!vars)]_vars

(* A call of the API that got the lock returns: RemoveUsers and Stop wait  *)
(* for controllers that wait for the channel that handleStatus drains.     *)
OperationsFinish == (op # "none") ~> (op = "none")

-----------------------------------------------------------------------------
(* The load-test as its callers see it: module LoadTestContract.           *)
Contract == INSTANCE LoadTestContract WITH
  MaxUsers <- MaxActiveUsers,
  users <- numUsers, added <- numAdded, removed <- numRemoved, ended <- numStopped

(* LoadTester implements that contract.                                    *)
ImplementsContract == Contract!Spec

=============================================================================
