---------------------------- MODULE Coordinator ----------------------------
(***************************************************************************)
(* The coordinator (src/coordinator/coordinator.go) with its cluster of    *)
(* agents (cluster/cluster.go, agent/agent.go), the performance monitor,   *)
(* and the agents' servers as the requests of the coordinator meet them    *)
(* (src/api/server.go, and LoadTester as LoadTestContract describes it).   *)
(*                                                                         *)
(* A request and its answer are one step, in which the request or the      *)
(* answer may be lost; a server may restart between any two steps, and     *)
(* forgets its load test.  Times are abstracted to whether RestTimeSec has *)
(* passed since; the samples, to the outcome that the load test may be     *)
(* found done after any alert.                                             *)
(*                                                                         *)
(* A definition named Bug... is the next one with a mistake in it, which   *)
(* some property must tell apart.                                          *)
(***************************************************************************)
EXTENDS Distribution, PerformanceMonitor

CONSTANTS
  MaxActiveUsers,  \* ClusterConfig.MaxActiveUsers
  AgentMaxUsers,   \* MaxActiveUsers of the load test of one agent
  NumUsersInc,
  NumUsersDec,
  NetworkFails,    \* requests and answers may be lost
  NoAgent,
  MaxErrors,       \* bound: errors of users in the life of a load test
  MaxCrashes       \* bound: restarts of servers

ASSUME CoordinatorAssumption ==
  /\ {MaxActiveUsers, AgentMaxUsers, NumUsersInc, NumUsersDec} \subseteq Nat \ {0}
  /\ NetworkFails \in BOOLEAN
  /\ NoAgent \notin Agents
  /\ {MaxErrors, MaxCrashes} \subseteq Nat

VARIABLES
  tester,       \* the load test of each agent's server
  users,        \* its Status.NumUsers
  errors,       \* its Status.NumErrors
  nilStatus,    \* agents whose LoadAgent.status is nil
  seenUsers,    \* LoadAgent.status.NumUsers
  seenErrors,   \* LoadAgent.status.NumErrors
  lastError,    \* errMap[agent].lastError
  totalErrors,  \* errMap[agent].totalErrors
  pc,           \* where Coordinator.Run is
  todo,         \* agents that its present loop has still to call
  cur,          \* the agent that is being started, if any
  req,          \* and the request of Start that comes next
  active,       \* status.ActiveUsers
  alert,        \* perfStatus.Alert
  lastAlert,    \* how long ago lastAlertTime is
  lastAction,   \* how long ago lastActionTime is
  interrupted,  \* a signal has come
  panicked,     \* Run has dereferenced a nil pointer
  past,         \* (auxiliary) errors last seen of an agent's earlier load tests
  crashes       \* (auxiliary) restarts of servers so far

servers  == <<tester, users, errors, crashes>>
agents   == <<nilStatus, seenUsers, seenErrors, past>>
errMap   == <<lastError, totalErrors>>
startReq == <<cur, req>>
times    == <<lastAlert, lastAction>>
signals  == <<interrupted, panicked>>
vars == <<distVars, monVars, servers, agents, errMap, startReq, times, signals,
          pc, todo, active, alert>>

Ages == {"never", "recent", "old"}

TypeOK ==
  /\ DistTypeOK
  /\ MonTypeOK
  /\ tester \in [Agents -> {"none", "stopped", "running"}]
  /\ users \in [Agents -> 0..AgentMaxUsers]
  /\ errors \in [Agents -> 0..MaxErrors]
  /\ nilStatus \in SUBSET Agents
  /\ seenUsers \in [Agents -> Nat]
  /\ seenErrors \in [Agents -> 0..MaxErrors]
  /\ lastError \in [Agents -> 0..MaxErrors]
  /\ totalErrors \in [Agents -> Nat]
  /\ pc \in {"starting", "await", "status", "decide", "distribute", "send", "shutdown", "done"}
  /\ todo \in SUBSET Agents
  /\ cur \in Agents \cup {NoAgent}
  /\ req \in {"create", "run"}
  /\ active \in Nat
  /\ alert \in BOOLEAN
  /\ lastAlert \in Ages
  /\ lastAction \in Ages
  /\ interrupted \in BOOLEAN
  /\ panicked \in BOOLEAN
  /\ past \in [Agents -> Nat]
  /\ crashes \in 0..MaxCrashes

Zero == [a \in Agents |-> 0]

Init ==
  /\ kind = "add" /\ amount = 0 /\ start = Zero /\ dist = Zero /\ left = 0
  /\ MonInit
  /\ tester = [a \in Agents |-> "none"]
  /\ users = Zero
  /\ errors = Zero
  /\ nilStatus = {}
  /\ seenUsers = Zero
  /\ seenErrors = Zero
  /\ lastError = Zero
  /\ totalErrors = Zero
  /\ pc = "starting"
  /\ todo = Agents
  /\ cur = NoAgent
  /\ req = "create"
  /\ active = 0
  /\ alert = FALSE
  /\ lastAlert = "never"
  /\ lastAction = "never"
  /\ interrupted = FALSE
  /\ panicked = FALSE
  /\ past = Zero
  /\ crashes = 0

Goto(l) == pc' = l
Smaller(m, n) == IF m < n THEN m ELSE n

(* The deferred calls of Run: monitor.Stop, if it was run, and Shutdown.   *)
Leave ==
  /\ Goto("shutdown")
  /\ todo' = Agents
  /\ IF mon = "off" THEN UNCHANGED monVars ELSE StopMonitor

-----------------------------------------------------------------------------
(* LoadAgent.Start: create a load test at the server, and run it.  It is   *)
(* called by LoadAgentCluster.Run, which gives up at the first failure,    *)
(* and when a server has answered that it knows no such load test.         *)

BeginStart(a) ==
  /\ pc = "starting"
  /\ cur = NoAgent
  /\ a \in todo
  /\ cur' = a
  /\ req' = "create"
  /\ todo' = todo \ {a}
  /\ UNCHANGED <<distVars, monVars, servers, agents, errMap, times, signals, pc, active, alert>>

StartFails ==
  /\ cur' = NoAgent
  /\ req' = "create"
  /\ IF pc = "starting" THEN Leave ELSE UNCHANGED <<monVars, pc, todo>>
  /\ UNCHANGED agents

(* The answer holds no status: LoadAgent.status becomes nil.               *)
Created ==
  /\ req' = "run"
  /\ nilStatus' = nilStatus \cup {cur}
  /\ seenUsers' = [seenUsers EXCEPT ![cur] = 0]
  /\ seenErrors' = [seenErrors EXCEPT ![cur] = 0]
  /\ past' = [past EXCEPT ![cur] = @ + seenErrors[cur]]
  /\ UNCHANGED <<monVars, pc, todo, cur>>

Create ==
  /\ cur # NoAgent
  /\ req = "create"
  /\ \/ /\ tester[cur] = "none"
        /\ tester' = [tester EXCEPT ![cur] = "stopped"]
        /\ Created \/ (NetworkFails /\ StartFails)
     \/ /\ tester[cur] # "none" \/ NetworkFails
        /\ UNCHANGED tester
        /\ StartFails
  /\ UNCHANGED <<distVars, users, errors, crashes, errMap, times, signals, active, alert>>

(* The answer holds the status of a load test that has just started.       *)
Started ==
  /\ cur' = NoAgent
  /\ req' = "create"
  /\ nilStatus' = nilStatus \ {cur}
  /\ UNCHANGED <<monVars, pc, todo, seenUsers, seenErrors, past>>

RunLoadTest ==
  /\ cur # NoAgent
  /\ req = "run"
  /\ \/ /\ tester[cur] = "stopped"
        /\ tester' = [tester EXCEPT ![cur] = "running"]
        /\ Started \/ (NetworkFails /\ StartFails)
     \/ /\ tester[cur] # "stopped" \/ NetworkFails
        /\ UNCHANGED tester
        /\ StartFails
  /\ UNCHANGED <<distVars, users, errors, crashes, errMap, times, signals, active, alert>>

AllStarted ==
  /\ pc = "starting"
  /\ cur = NoAgent
  /\ todo = {}
  /\ MonRun
  /\ Goto("await")
  /\ UNCHANGED <<distVars, servers, agents, errMap, startReq, times, signals, todo, active, alert>>

-----------------------------------------------------------------------------
(* The feedback loop.  Its select takes a result of the monitor or the     *)
(* signal.                                                                 *)
TakeInterrupt ==
  /\ pc = "await"
  /\ interrupted
  /\ Leave
  /\ UNCHANGED <<distVars, servers, agents, errMap, startReq, times, signals, active, alert>>

ReceiveStatus ==
  /\ pc = "await"
  /\ Deliver
  /\ alert' = result
  /\ lastAlert' = IF result THEN "recent" ELSE lastAlert
  /\ Goto("status")
  /\ todo' = Agents
  /\ active' = 0
  /\ UNCHANGED <<distVars, servers, agents, errMap, startReq, signals, lastAction>>

(* LoadAgentCluster.Status, agent by agent.                                *)

BugStatusForgetsErrors(a) ==
  /\ pc = "status"
  /\ a \in todo
  /\ a \notin nilStatus
  /\ active' = active + seenUsers[a]
  /\ totalErrors' = [totalErrors EXCEPT ![a] =
                       IF seenErrors[a] < lastError[a] THEN lastError[a] ELSE @]
  /\ lastError' = [lastError EXCEPT ![a] = seenErrors[a]]
  /\ todo' = todo \ {a}
  /\ UNCHANGED <<distVars, monVars, servers, agents, startReq, times, signals, pc, alert>>

(* Fewer errors than the last time mean that the load test is another one. *)
TakeStatus(a) ==
  /\ pc = "status"
  /\ a \in todo
  /\ a \notin nilStatus
  /\ active' = active + seenUsers[a]
  /\ totalErrors' = [totalErrors EXCEPT ![a] =
                       IF seenErrors[a] < lastError[a] THEN @ + lastError[a] ELSE @]
  /\ lastError' = [lastError EXCEPT ![a] = seenErrors[a]]
  /\ todo' = todo \ {a}
  /\ UNCHANGED <<distVars, monVars, servers, agents, startReq, times, signals, pc, alert>>

(* A status that is nil makes Run panic.                                   *)
NilStatus(a) ==
  /\ pc = "status"
  /\ a \in todo
  /\ a \in nilStatus
  /\ panicked' = TRUE
  /\ Leave
  /\ UNCHANGED <<distVars, servers, agents, errMap, startReq, times, interrupted, active, alert>>

StatusTaken ==
  /\ pc = "status"
  /\ todo = {}
  /\ Goto("decide")
  /\ UNCHANGED <<distVars, monVars, servers, agents, errMap, startReq, times, signals, todo,
                 active, alert>>

(* The samples show that the number of users has settled.                  *)
LoadTestDone ==
  /\ pc = "decide"
  /\ lastAlert # "never"
  /\ Leave
  /\ UNCHANGED <<distVars, servers, agents, errMap, startReq, times, signals, active, alert>>

HasRested == lastAlert = "never" \/ lastAction \in {"never", "old"}
CanGrow == lastAlert \in {"never", "old"} /\ active < MaxActiveUsers

Distribute(what, n) ==
  /\ Begin(what, n, seenUsers)
  /\ Goto("distribute")

Decrement == HasRested /\ alert /\ Distribute("remove", NumUsersDec)

BugIncrementUncapped ==
  /\ HasRested /\ ~ alert /\ CanGrow
  /\ Distribute("add", NumUsersInc)

Increment ==
  /\ HasRested /\ ~ alert /\ CanGrow
  /\ Distribute("add", Smaller(NumUsersInc, MaxActiveUsers - active))

Rest ==
  /\ ~ HasRested \/ (~ alert /\ ~ CanGrow)
  /\ Goto("await")
  /\ UNCHANGED distVars

Decide ==
  /\ pc = "decide"
  /\ Decrement \/ Increment \/ Rest
  /\ UNCHANGED <<monVars, servers, agents, errMap, startReq, times, signals, todo, active, alert>>

Divide ==
  /\ pc = "distribute"
  /\ AddOne \/ RemoveOne
  /\ UNCHANGED <<monVars, servers, agents, errMap, startReq, times, signals, pc, todo, active, alert>>

Divided ==
  /\ pc = "distribute"
  /\ left = 0
  /\ Goto("send")
  /\ todo' = Chosen
  /\ UNCHANGED <<distVars, monVars, servers, agents, errMap, startReq, times, signals, active, alert>>

-----------------------------------------------------------------------------
(* The requests of IncrementUsers and DecrementUsers.                      *)

(* Any error but "not found" ends the loop, and no action has been taken.  *)
GiveUp ==
  /\ Goto("await")
  /\ todo' = {}
  /\ UNCHANGED <<agents, startReq>>

Answered(a) ==
  /\ nilStatus' = nilStatus \ {a}
  /\ seenUsers' = [seenUsers EXCEPT ![a] = users'[a]]
  /\ seenErrors' = [seenErrors EXCEPT ![a] = errors[a]]
  /\ todo' = todo \ {a}
  /\ UNCHANGED <<pc, startReq, past>>

(* The server has restarted: LoadAgent.Start is called.                    *)
NotFound(a) ==
  /\ tester[a] = "none"
  /\ cur' = a
  /\ req' = "create"
  /\ todo' = todo \ {a}
  /\ UNCHANGED <<agents, pc, users>>

(* The request is lost, or refused by a load test that does not run.       *)
Refused(a) ==
  /\ NetworkFails \/ tester[a] = "stopped"
  /\ GiveUp
  /\ UNCHANGED users

Reply(a, ok) == IF ok THEN Answered(a) \/ (NetworkFails /\ GiveUp) ELSE GiveUp

(* The load test adds what it has room for: an error if that is not all.   *)
AddUsers(a) ==
  /\ tester[a] = "running"
  /\ LET n == Smaller(dist[a], AgentMaxUsers - users[a])
     IN  users' = [users EXCEPT ![a] = @ + n] /\ Reply(a, n = dist[a])

BugRemoveUsersUnseen(a) ==
  /\ tester[a] = "running"
  /\ users' = [users EXCEPT ![a] = @ - Smaller(dist[a], @)]
  /\ todo' = todo \ {a}
  /\ UNCHANGED <<agents, pc, startReq>>

(* ... or removes what it has: an error if that is not enough.             *)
RemoveUsers(a) ==
  /\ tester[a] = "running"
  /\ LET n == Smaller(dist[a], users[a])
     IN  users' = [users EXCEPT ![a] = @ - n] /\ Reply(a, n = dist[a])

Send(a) ==
  /\ pc = "send"
  /\ cur = NoAgent
  /\ a \in todo
  /\ \/ NotFound(a)
     \/ Refused(a)
     \/ kind = "add" /\ AddUsers(a)
     \/ kind = "remove" /\ RemoveUsers(a)
  /\ UNCHANGED <<distVars, monVars, tester, errors, crashes, errMap, times, signals, active, alert>>

Sent ==
  /\ pc = "send"
  /\ cur = NoAgent
  /\ todo = {}
  /\ lastAction' = "recent"
  /\ Goto("await")
  /\ UNCHANGED <<distVars, monVars, servers, agents, errMap, startReq, lastAlert, signals, todo,
                 active, alert>>

-----------------------------------------------------------------------------
(* Shutdown deletes every load test, whatever becomes of the others.       *)
StopAgent(a) ==
  /\ pc = "shutdown"
  /\ a \in todo
  /\ \/ /\ tester' = [tester EXCEPT ![a] = "none"]
        /\ users' = [users EXCEPT ![a] = 0]
        /\ errors' = [errors EXCEPT ![a] = 0]
     \/ NetworkFails /\ UNCHANGED <<tester, users, errors>>
  /\ todo' = todo \ {a}
  /\ UNCHANGED <<distVars, monVars, crashes, agents, errMap, startReq, times, signals, pc, active, alert>>

BugFinishAborts ==
  /\ pc = "shutdown"
  /\ Goto("done")
  /\ UNCHANGED <<distVars, monVars, servers, agents, errMap, startReq, times, signals, todo,
                 active, alert>>

BugFinishAwaitsMonitor ==
  /\ pc = "shutdown"
  /\ todo = {}
  /\ mon = "off"
  /\ Goto("done")
  /\ UNCHANGED <<distVars, monVars, servers, agents, errMap, startReq, times, signals, todo,
                 active, alert>>

Finish ==
  /\ pc = "shutdown"
  /\ todo = {}
  /\ Goto("done")
  /\ UNCHANGED <<distVars, monVars, servers, agents, errMap, startReq, times, signals, todo,
                 active, alert>>

-----------------------------------------------------------------------------
(* What goes on around the coordinator.                                    *)
Interrupt ==
  /\ ~ interrupted
  /\ interrupted' = TRUE
  /\ UNCHANGED <<distVars, monVars, servers, agents, errMap, startReq, times, panicked,
                 pc, todo, active, alert>>

TimePasses ==
  /\ \/ lastAlert = "recent" /\ lastAlert' = "old" /\ UNCHANGED lastAction
     \/ lastAction = "recent" /\ lastAction' = "old" /\ UNCHANGED lastAlert
  /\ UNCHANGED <<distVars, monVars, servers, agents, errMap, startReq, signals,
                 pc, todo, active, alert>>

(* A user fails.  (Not those that have just been removed, whose last       *)
(* statuses the load test may still handle.)                               *)
UserFails(a) ==
  /\ users[a] > 0
  /\ errors[a] < MaxErrors
  /\ errors' = [errors EXCEPT ![a] = @ + 1]
  /\ UNCHANGED <<distVars, monVars, tester, users, crashes, agents, errMap, startReq, times,
                 signals, pc, todo, active, alert>>

ServerRestarts(a) ==
  /\ tester[a] # "none"
  /\ crashes < MaxCrashes
  /\ crashes' = crashes + 1
  /\ tester' = [tester EXCEPT ![a] = "none"]
  /\ users' = [users EXCEPT ![a] = 0]
  /\ errors' = [errors EXCEPT ![a] = 0]
  /\ UNCHANGED <<distVars, monVars, agents, errMap, startReq, times, signals, pc, todo,
                 active, alert>>

Monitoring ==
  /\ MonStep
  /\ UNCHANGED <<distVars, servers, agents, errMap, startReq, times, signals, pc, todo,
                 active, alert>>

RunStep ==
  \/ \E a \in Agents : BeginStart(a) \/ TakeStatus(a) \/ NilStatus(a) \/ Send(a) \/ StopAgent(a)
  \/ Create
  \/ RunLoadTest
  \/ AllStarted
  \/ TakeInterrupt
  \/ ReceiveStatus
  \/ StatusTaken
  \/ LoadTestDone
  \/ Decide
  \/ Divide
  \/ Divided
  \/ Sent
  \/ Finish

Next ==
  \/ RunStep
  \/ Interrupt
  \/ TimePasses
  \/ \E a \in Agents : UserFails(a) \/ ServerRestarts(a)
  \/ Monitoring

Spec == Init /\ [][Next]_vars

(* Requests are answered or fail, queries return, time passes; the select  *)
(* that finds both channels ready again and again takes the signal, too.   *)
Fairness ==
  /\ WF_vars(RunStep)
  /\ SF_vars(TakeInterrupt)
  /\ WF_vars(Monitoring)
  /\ WF_vars(TimePasses)

FairSpec == Spec /\ Fairness

-----------------------------------------------------------------------------
TotalUsers == MapThenSumSet(LAMBDA a : users[a], Agents)

(* src/coordinator/cluster/config.go:20: "MaxActiveUsers defines the upper *)
(* limit of concurrently active users to run across the whole cluster."    *)
(* (That takes a network that loses no answers.)                           *)
UsersWithinMax == TotalUsers <= MaxActiveUsers

(* src/coordinator/cluster/cluster.go:171: "Total errors = current errors  *)
(* + past accumulated errors from restarts."  Each load test an agent has  *)
(* had is counted, once, with the errors it was last seen with.            *)
ErrorsAccumulate == pc = "decide" => totalErrors = past /\ lastError = seenErrors

(* What the coordinator has started it takes away, also when it gives up   *)
(* in the middle of starting or panics.                                    *)
NothingLeft == pc = "done" => \A a \in Agents : tester[a] = "none"

(* No running load test is asked to remove more users than it has: it      *)
(* would answer with an error, the other agents would not be asked, and    *)
(* the status of this one would never be corrected.                        *)
RemovalsFit ==
  pc = "send" /\ kind = "remove" =>
    \A a \in todo : tester[a] = "running" => dist[a] <= users[a]

(* A signal ends the coordinator.                                          *)
InterruptEnds == interrupted ~> pc = "done"

(* src/coordinator/cluster/cluster.go:114: "Most probably the agent        *)
(* restarted, so we just start the agent again."  A restart that fails is  *)
(* logged, and the loop goes on.                                           *)
RestartSurvived == ~ panicked
=============================================================================
