------------------------- MODULE CoordinatorProofs -------------------------
(* Theorems about Coordinator, for any agents, limits and steps.           *)
EXTENDS Coordinator, DistributionProofs

USE AgentsAssumption, CoordinatorAssumption

LEMMA SmallerInt ==
  ASSUME NEW m \in Nat, NEW n \in Nat
  PROVE  Smaller(m, n) \in Nat /\ Smaller(m, n) <= m /\ Smaller(m, n) <= n
BY DEF Smaller

-----------------------------------------------------------------------------
LEMMA LeaveType ==
  ASSUME TypeOK, Leave
  PROVE  pc' = "shutdown" /\ todo' = Agents /\ MonTypeOK'
<1>1. CASE mon = "off"
  BY <1>1 DEF Leave, Goto, TypeOK, MonTypeOK, monVars
<1>2. CASE mon # "off"
  BY <1>2 DEF Leave, Goto, StopMonitor, TypeOK, MonTypeOK
<1> QED BY <1>1, <1>2

LEMMA StartFailsType ==
  ASSUME TypeOK, cur # NoAgent, StartFails
  PROVE  /\ cur' = NoAgent /\ req' = "create"
         /\ pc' \in {pc, "shutdown"}
         /\ todo' \in SUBSET Agents
         /\ MonTypeOK'
         /\ UNCHANGED agents
<1>1. CASE pc = "starting"
  BY <1>1, LeaveType DEF StartFails
<1>2. CASE pc # "starting"
  BY <1>2 DEF StartFails, TypeOK, MonTypeOK, monVars
<1> QED BY <1>1, <1>2

LEMMA TypeStepStart ==
  ASSUME TypeOK, (\E a \in Agents : BeginStart(a)) \/ Create \/ RunLoadTest \/ AllStarted
  PROVE  TypeOK'
<1>1. ASSUME NEW a \in Agents, BeginStart(a) PROVE TypeOK'
  BY <1>1 DEF BeginStart, TypeOK, DistTypeOK, MonTypeOK, distVars, monVars, servers, agents, errMap,
     times, signals
<1>2. CASE Create
  <2>1. cur \in Agents /\ UNCHANGED <<distVars, users, errors, crashes, errMap, times, signals, active, alert>>
    BY <1>2 DEF Create, TypeOK
  <2>2. tester' \in [Agents -> {"none", "stopped", "running"}]
    BY <1>2, <2>1 DEF Create, TypeOK
  <2>3. CASE Created
    BY <2>1, <2>2, <2>3 DEF Created, TypeOK, DistTypeOK, MonTypeOK, distVars, monVars, errMap, times,
       signals
  <2>4. CASE StartFails
    BY <2>1, <2>2, <2>4, StartFailsType DEF TypeOK, DistTypeOK, distVars, agents, errMap, times, signals
  <2> QED BY <1>2, <2>3, <2>4 DEF Create
<1>3. CASE RunLoadTest
  <2>1. cur \in Agents /\ UNCHANGED <<distVars, users, errors, crashes, errMap, times, signals, active, alert>>
    BY <1>3 DEF RunLoadTest, TypeOK
  <2>2. tester' \in [Agents -> {"none", "stopped", "running"}]
    BY <1>3, <2>1 DEF RunLoadTest, TypeOK
  <2>3. CASE Started
    BY <2>1, <2>2, <2>3 DEF Started, TypeOK, DistTypeOK, MonTypeOK, distVars, monVars, errMap, times,
       signals
  <2>4. CASE StartFails
    BY <2>1, <2>2, <2>4, StartFailsType DEF TypeOK, DistTypeOK, distVars, agents, errMap, times, signals
  <2> QED BY <1>3, <2>3, <2>4 DEF RunLoadTest
<1>4. CASE AllStarted
  BY <1>4 DEF AllStarted, MonRun, Goto, TypeOK, DistTypeOK, MonTypeOK, distVars, servers, agents,
     errMap, startReq, times, signals
<1> QED BY <1>1, <1>2, <1>3, <1>4

LEMMA TypeStepLoop ==
  ASSUME TypeOK, \/ TakeInterrupt \/ ReceiveStatus \/ StatusTaken \/ LoadTestDone
                 \/ \E a \in Agents : TakeStatus(a) \/ NilStatus(a)
  PROVE  TypeOK'
<1>1. CASE TakeInterrupt
  BY <1>1 DEF TakeInterrupt, Leave, Goto, StopMonitor, TypeOK, DistTypeOK, MonTypeOK, distVars,
     monVars, servers, agents, errMap, startReq, times, signals
<1>2. CASE ReceiveStatus
  BY <1>2 DEF ReceiveStatus, Deliver, Goto, TypeOK, DistTypeOK, MonTypeOK, Ages, distVars, servers,
     agents, errMap, startReq, signals
<1>3. CASE StatusTaken
  BY <1>3 DEF StatusTaken, Goto, TypeOK, DistTypeOK, MonTypeOK, distVars, monVars, servers, agents,
     errMap, startReq, times, signals
<1>4. CASE LoadTestDone
  BY <1>4 DEF LoadTestDone, Leave, Goto, StopMonitor, TypeOK, DistTypeOK, MonTypeOK, distVars,
     monVars, servers, agents, errMap, startReq, times, signals
<1>5. ASSUME NEW a \in Agents, TakeStatus(a) PROVE TypeOK'
  <2>1. lastError' \in [Agents -> 0..MaxErrors]
    BY <1>5 DEF TakeStatus, TypeOK
  <2>2. totalErrors' \in [Agents -> Nat]
    BY <1>5 DEF TakeStatus, TypeOK
  <2>3. active' \in Nat /\ todo' \in SUBSET Agents
    BY <1>5 DEF TakeStatus, TypeOK
  <2> QED BY <1>5, <2>1, <2>2, <2>3 DEF TakeStatus, TypeOK, DistTypeOK, MonTypeOK, distVars, monVars,
     servers, agents, startReq, times, signals
<1>6. ASSUME NEW a \in Agents, NilStatus(a) PROVE TypeOK'
  BY <1>6 DEF NilStatus, Leave, Goto, StopMonitor, TypeOK, DistTypeOK, MonTypeOK, distVars, monVars,
     servers, agents, errMap, startReq, times
<1> QED BY <1>1, <1>2, <1>3, <1>4, <1>5, <1>6

LEMMA TypeStepDivide ==
  ASSUME TypeOK, Decide \/ Divide \/ Divided
  PROVE  TypeOK'
<1>1. CASE Decide
  <2>1. pc' \in {"distribute", "await"} /\ DistTypeOK'
    <3>1. CASE Decrement
      BY <3>1 DEF Decrement, Distribute, Begin, Goto, TypeOK, DistTypeOK
    <3>2. CASE Increment
      <4>1. MaxActiveUsers - active \in Nat
        BY <3>2 DEF Increment, CanGrow, TypeOK
      <4>2. Smaller(NumUsersInc, MaxActiveUsers - active) \in Nat
        BY <4>1, SmallerInt
      <4> QED BY <3>2, <4>2 DEF Increment, Distribute, Begin, Goto, TypeOK, DistTypeOK
    <3>3. CASE Rest
      BY <3>3 DEF Rest, Goto, TypeOK, DistTypeOK, distVars
    <3> QED BY <1>1, <3>1, <3>2, <3>3 DEF Decide
  <2> QED BY <1>1, <2>1 DEF Decide, TypeOK, MonTypeOK, monVars, servers, agents, errMap, startReq,
     times, signals
<1>2. CASE Divide
  <2>1. DistTypeOK'
    BY <1>2, DistTypeStep DEF Divide, DistNext, TypeOK
  <2> QED BY <1>2, <2>1 DEF Divide, TypeOK, MonTypeOK, monVars, servers, agents, errMap, startReq,
     times, signals
<1>3. CASE Divided
  BY <1>3 DEF Divided, Chosen, Goto, TypeOK, DistTypeOK, MonTypeOK, distVars, monVars, servers,
     agents, errMap, startReq, times, signals
<1> QED BY <1>1, <1>2, <1>3

LEMMA TypeStepSend ==
  ASSUME TypeOK, NEW a \in Agents, Send(a)
  PROVE  TypeOK'
<1> DEFINE Small == pc' \in {"send", "await"} /\ todo' \in SUBSET Agents /\ cur' \in Agents \cup {NoAgent}
                    /\ req' \in {"create", "run"}
           Seen == /\ nilStatus' \in SUBSET Agents /\ seenUsers' \in [Agents -> Nat]
                   /\ seenErrors' \in [Agents -> 0..MaxErrors] /\ past' \in [Agents -> Nat]
<1>1. GiveUp => Small /\ Seen
  BY DEF GiveUp, Goto, TypeOK, agents, startReq
<1>2. users'[a] \in Nat /\ Answered(a) => Small /\ Seen
  BY DEF Send, Answered, TypeOK, startReq
<1>3. NotFound(a) => Small /\ Seen /\ users' = users
  BY DEF Send, NotFound, TypeOK, agents
<1>4. ASSUME NEW n \in Nat, n <= AgentMaxUsers - users[a] PROVE users[a] + n \in 0..AgentMaxUsers
  BY <1>4 DEF TypeOK
<1>5. ASSUME NEW n \in Nat, n <= users[a] PROVE users[a] - n \in 0..AgentMaxUsers
  BY <1>5 DEF TypeOK
<1>6. dist[a] \in Nat /\ users[a] \in Nat /\ AgentMaxUsers - users[a] \in Nat
  BY DEF TypeOK, DistTypeOK
<1>7. ASSUME users'[a] \in Nat, NEW ok, Reply(a, ok) PROVE Small /\ Seen
  BY <1>7, <1>1, <1>2 DEF Reply
<1>8. Small /\ Seen /\ users' \in [Agents -> 0..AgentMaxUsers]
  <2>1. CASE NotFound(a)
    BY <2>1, <1>3 DEF TypeOK
  <2>2. CASE Refused(a)
    BY <2>2, <1>1 DEF Refused, TypeOK
  <2>3. CASE AddUsers(a)
    <3> DEFINE n == Smaller(dist[a], AgentMaxUsers - users[a])
    <3>1. n \in Nat /\ n <= AgentMaxUsers - users[a]
      BY <1>6, SmallerInt
    <3>2. users' = [users EXCEPT ![a] = @ + n] /\ Reply(a, n = dist[a])
      BY <2>3 DEF AddUsers
    <3>3. users[a] + n \in 0..AgentMaxUsers
      BY <3>1, <1>4
    <3>4. users' \in [Agents -> 0..AgentMaxUsers] /\ users'[a] \in Nat
      BY <3>2, <3>3 DEF TypeOK
    <3> QED BY <3>2, <3>4, <1>7
  <2>4. CASE RemoveUsers(a)
    <3> DEFINE n == Smaller(dist[a], users[a])
    <3>1. n \in Nat /\ n <= users[a]
      BY <1>6, SmallerInt
    <3>2. users' = [users EXCEPT ![a] = @ - n] /\ Reply(a, n = dist[a])
      BY <2>4 DEF RemoveUsers
    <3>3. users[a] - n \in 0..AgentMaxUsers
      BY <3>1, <1>5
    <3>4. users' \in [Agents -> 0..AgentMaxUsers] /\ users'[a] \in Nat
      BY <3>2, <3>3 DEF TypeOK
    <3> QED BY <3>2, <3>4, <1>7
  <2> QED BY <2>1, <2>2, <2>3, <2>4 DEF Send
<1> QED BY <1>8 DEF Send, TypeOK, DistTypeOK, MonTypeOK, distVars, monVars, errMap, times, signals

LEMMA TypeStepEnd ==
  ASSUME TypeOK, Sent \/ Finish \/ \E a \in Agents : StopAgent(a)
  PROVE  TypeOK'
<1>1. CASE Sent
  BY <1>1 DEF Sent, Goto, TypeOK, DistTypeOK, MonTypeOK, Ages, distVars, monVars, servers, agents,
     errMap, startReq, signals
<1>2. CASE Finish
  BY <1>2 DEF Finish, Goto, TypeOK, DistTypeOK, MonTypeOK, distVars, monVars, servers, agents,
     errMap, startReq, times, signals
<1>3. ASSUME NEW a \in Agents, StopAgent(a) PROVE TypeOK'
  <2>1. /\ tester' \in [Agents -> {"none", "stopped", "running"}]
        /\ users' \in [Agents -> 0..AgentMaxUsers]
        /\ errors' \in [Agents -> 0..MaxErrors]
    BY <1>3 DEF StopAgent, TypeOK
  <2> QED BY <1>3, <2>1 DEF StopAgent, TypeOK, DistTypeOK, MonTypeOK, distVars, monVars, agents,
     errMap, startReq, times, signals
<1> QED BY <1>1, <1>2, <1>3

LEMMA TypeStepAround ==
  ASSUME TypeOK, \/ Interrupt \/ TimePasses \/ Monitoring
                 \/ \E a \in Agents : UserFails(a) \/ ServerRestarts(a)
  PROVE  TypeOK'
<1>1. CASE Interrupt
  BY <1>1 DEF Interrupt, TypeOK, DistTypeOK, MonTypeOK, distVars, monVars, servers, agents, errMap,
     startReq, times
<1>2. CASE TimePasses
  BY <1>2 DEF TimePasses, TypeOK, DistTypeOK, MonTypeOK, Ages, distVars, monVars, servers, agents,
     errMap, startReq, signals
<1>3. CASE Monitoring
  <2>1. MonTypeOK'
    BY <1>3 DEF Monitoring, MonStep, RunQueries, Wake, MonSeesStop, TypeOK, MonTypeOK
  <2> QED BY <1>3, <2>1 DEF Monitoring, TypeOK, DistTypeOK, distVars, servers, agents, errMap, startReq,
     times, signals
<1>4. ASSUME NEW a \in Agents, UserFails(a) PROVE TypeOK'
  <2>1. errors' \in [Agents -> 0..MaxErrors]
    BY <1>4 DEF UserFails, TypeOK
  <2> QED BY <1>4, <2>1 DEF UserFails, TypeOK, DistTypeOK, MonTypeOK, distVars, monVars, agents,
     errMap, startReq, times, signals
<1>5. ASSUME NEW a \in Agents, ServerRestarts(a) PROVE TypeOK'
  <2>1. /\ tester' \in [Agents -> {"none", "stopped", "running"}]
        /\ users' \in [Agents -> 0..AgentMaxUsers]
        /\ errors' \in [Agents -> 0..MaxErrors]
        /\ crashes' \in 0..MaxCrashes
    BY <1>5 DEF ServerRestarts, TypeOK
  <2> QED BY <1>5, <2>1 DEF ServerRestarts, TypeOK, DistTypeOK, MonTypeOK, distVars, monVars, agents,
     errMap, startReq, times, signals
<1> QED BY <1>1, <1>2, <1>3, <1>4, <1>5

LEMMA TypeInit == Init => TypeOK
<1> SUFFICES ASSUME Init PROVE TypeOK
  OBVIOUS
<1>1. Zero \in [Agents -> Nat] /\ Zero \in [Agents -> 0..MaxErrors] /\ Zero \in [Agents -> 0..AgentMaxUsers]
  BY DEF Zero
<1>2. DistTypeOK
  BY <1>1 DEF Init, DistTypeOK
<1>3. MonTypeOK
  BY DEF Init, MonInit, MonTypeOK
<1>4. tester \in [Agents -> {"none", "stopped", "running"}] /\ crashes \in 0..MaxCrashes
  BY DEF Init
<1> QED BY <1>1, <1>2, <1>3, <1>4 DEF Init, TypeOK, Ages

LEMMA TypeStep == TypeOK /\ [Next]_vars => TypeOK'
<1> SUFFICES ASSUME TypeOK, [Next]_vars PROVE TypeOK'
  OBVIOUS
<1>1. CASE UNCHANGED vars
  BY <1>1 DEF vars, TypeOK, DistTypeOK, MonTypeOK, distVars, monVars, servers, agents, errMap,
     startReq, times, signals
<1>2. CASE RunStep
  BY <1>2, TypeStepStart, TypeStepLoop, TypeStepDivide, TypeStepSend, TypeStepEnd DEF RunStep
<1>3. CASE Next /\ ~ RunStep
  BY <1>3, TypeStepAround DEF Next
<1> QED BY <1>1, <1>2, <1>3

(* Every variable keeps its type: no agent has more users than it can      *)
(* hold, nor fewer than none, whatever is lost and whoever restarts.       *)
THEOREM TypeCorrect == Spec => []TypeOK
BY TypeInit, TypeStep, PTL DEF Spec

-----------------------------------------------------------------------------
(* An agent is being started only while Run starts them all or sends       *)
(* requests, and the loop has no other call of it to make.                 *)
CurOK ==
  /\ cur # NoAgent => pc \in {"starting", "send"}
  /\ cur \notin todo

LEMMA LeaveEffect == Leave => pc' = "shutdown" /\ todo' = Agents
BY DEF Leave, Goto

LEMMA StartFailsEffect ==
  StartFails => /\ cur' = NoAgent /\ req' = "create" /\ UNCHANGED agents
                /\ \/ pc = "starting" /\ pc' = "shutdown" /\ todo' = Agents
                   \/ pc # "starting" /\ UNCHANGED <<pc, todo>>
BY LeaveEffect DEF StartFails

LEMMA SendEffect ==
  ASSUME NEW a \in Agents, Send(a)
  PROVE  /\ pc = "send" /\ cur = NoAgent /\ a \in todo
         /\ UNCHANGED <<distVars, tester, errors, errMap>>
         /\ \/ tester[a] = "none" /\ cur' = a /\ req' = "create" /\ todo' = todo \ {a}
               /\ UNCHANGED <<agents, pc, users>>
            \/ pc' = "await" /\ todo' = {} /\ UNCHANGED <<agents, startReq>>
               /\ (users' = users \/ tester[a] = "running")
            \/ tester[a] = "running" /\ Answered(a)
<1>1. Send(a) => /\ pc = "send" /\ cur = NoAgent /\ a \in todo
                 /\ UNCHANGED <<distVars, tester, errors, errMap>>
  BY DEF Send
<1>2. CASE NotFound(a)
  BY <1>1, <1>2 DEF NotFound
<1>3. CASE Refused(a)
  BY <1>1, <1>3 DEF Refused, GiveUp, Goto
<1>4. CASE AddUsers(a)
  BY <1>1, <1>4 DEF AddUsers, Reply, GiveUp, Goto
<1>5. CASE RemoveUsers(a)
  BY <1>1, <1>5 DEF RemoveUsers, Reply, GiveUp, Goto
<1> QED BY <1>2, <1>3, <1>4, <1>5 DEF Send

LEMMA DecideEffect ==
  Decide => /\ pc = "decide" /\ pc' \in {"distribute", "await"}
            /\ UNCHANGED <<monVars, servers, agents, errMap, startReq, todo>>
            /\ pc' = "distribute" => start' = seenUsers /\ dist' = [a \in Agents |-> 0]
            /\ pc' # "distribute" => UNCHANGED distVars
<1>1. Decide => pc = "decide" /\ UNCHANGED <<monVars, servers, agents, errMap, startReq, todo>>
  BY DEF Decide
<1>2. Decrement => pc' = "distribute" /\ start' = seenUsers /\ dist' = [a \in Agents |-> 0]
  BY DEF Decrement, Distribute, Begin, Goto
<1>3. Increment => pc' = "distribute" /\ start' = seenUsers /\ dist' = [a \in Agents |-> 0]
  BY DEF Increment, Distribute, Begin, Goto
<1>4. Rest => pc' = "await" /\ UNCHANGED distVars
  BY DEF Rest, Goto
<1> QED BY <1>1, <1>2, <1>3, <1>4 DEF Decide

LEMMA CurStep == TypeOK /\ CurOK /\ [Next]_vars => CurOK'
<1> SUFFICES ASSUME TypeOK, CurOK, [Next]_vars PROVE CurOK'
  OBVIOUS
<1>1. ASSUME NEW a \in Agents, BeginStart(a) PROVE CurOK'
  BY <1>1 DEF BeginStart, CurOK, TypeOK
<1>2. CASE Create
  BY <1>2, StartFailsEffect DEF Create, Created, CurOK, TypeOK
<1>3. CASE RunLoadTest
  BY <1>3, StartFailsEffect DEF RunLoadTest, Started, CurOK, TypeOK
<1>4. ASSUME NEW a \in Agents, Send(a) PROVE CurOK'
  BY <1>4, SendEffect DEF Answered, CurOK, startReq, TypeOK
<1>5. ASSUME NEW a \in Agents, TakeStatus(a) \/ NilStatus(a) \/ StopAgent(a) PROVE CurOK'
  BY <1>5, LeaveEffect DEF TakeStatus, NilStatus, StopAgent, CurOK, startReq, TypeOK
<1>6. CASE AllStarted \/ TakeInterrupt \/ ReceiveStatus \/ StatusTaken \/ LoadTestDone
  BY <1>6, LeaveEffect DEF AllStarted, TakeInterrupt, ReceiveStatus, StatusTaken, LoadTestDone, Goto,
     CurOK, startReq, TypeOK
<1>7. CASE Decide \/ Divide \/ Divided \/ Sent \/ Finish
  BY <1>7, DecideEffect DEF Divide, Divided, Sent, Finish, Chosen, Goto, CurOK, startReq, TypeOK
<1>8. CASE Interrupt \/ TimePasses \/ Monitoring
  BY <1>8 DEF Interrupt, TimePasses, Monitoring, CurOK, startReq
<1>9. ASSUME NEW a \in Agents, UserFails(a) \/ ServerRestarts(a) PROVE CurOK'
  BY <1>9 DEF UserFails, ServerRestarts, CurOK, startReq
<1>10. CASE UNCHANGED vars
  BY <1>10 DEF vars, CurOK, startReq
<1> QED BY <1>1, <1>2, <1>3, <1>4, <1>5, <1>6, <1>7, <1>8, <1>9, <1>10 DEF Next, RunStep

-----------------------------------------------------------------------------
(* What the coordinator knows of the errors of an agent: it has accounted  *)
(* for what it has seen; or has seen more of the same load test since; or  *)
(* the load test is a new one, of which it has seen nothing.               *)
Accounted(a) == totalErrors[a] = past[a] /\ lastError[a] = seenErrors[a]
Grown(a) == totalErrors[a] = past[a] /\ lastError[a] <= seenErrors[a]
Renewed(a) == seenErrors[a] = 0 /\ totalErrors[a] + lastError[a] = past[a]

(* Since it is a new one only if all before was accounted for, each loop   *)
(* must call an agent at most once, and take the statuses in between.      *)
ErrInv ==
  /\ \A a \in Agents : Grown(a) \/ Renewed(a)
  /\ \A a \in Agents : tester[a] = "running" => seenErrors[a] <= errors[a]
  /\ pc = "starting" => \A a \in Agents : seenErrors[a] = 0
  /\ pc \in {"starting", "decide", "distribute"} => \A a \in Agents : Accounted(a)
  /\ pc = "status" => \A a \in Agents \ todo : Accounted(a)
  /\ pc = "send" => \A a \in todo : Accounted(a)
  /\ cur # NoAgent /\ req = "create" => Accounted(cur)
  /\ cur # NoAgent /\ req = "run" => seenErrors[cur] = 0

errVars == <<errMap, seenErrors, past>>

LEMMA ErrType ==
  ASSUME TypeOK, NEW a \in Agents
  PROVE  /\ {lastError[a], seenErrors[a], errors[a], totalErrors[a], past[a]} \subseteq Nat
BY DEF TypeOK

LEMMA AccountedKept ==
  ASSUME UNCHANGED errVars, NEW a \in Agents
  PROVE  /\ Accounted(a)' <=> Accounted(a)
         /\ Grown(a)' <=> Grown(a)
         /\ Renewed(a)' <=> Renewed(a)
BY DEF errVars, errMap, Accounted, Grown, Renewed

(* Steps that change neither errors nor what is known of them.             *)
LEMMA ErrQuiet ==
  ASSUME TypeOK, ErrInv, UNCHANGED <<errVars, errors>>,
         \A a \in Agents : tester'[a] = "running" =>
           tester[a] = "running" \/ seenErrors[a] = 0,
         \/ pc' \notin {"starting", "decide", "distribute", "status", "send"}
         \/ pc' = pc /\ todo' = todo
         \/ pc' = pc /\ pc \in {"starting", "send"} /\ todo' \subseteq todo
         \/ pc \in {"decide", "distribute"} /\ pc' \in {"decide", "distribute", "send"} /\ todo' \subseteq Agents
         \/ pc' = "status" /\ todo' = Agents
         \/ pc = "status" /\ todo = {} /\ pc' = "decide",
         \/ cur' = NoAgent
         \/ UNCHANGED startReq
         \/ cur' \in Agents /\ req' = "create" /\ Accounted(cur')
  PROVE  ErrInv'
<1>1. \A a \in Agents : Grown(a)' \/ Renewed(a)'
  BY AccountedKept DEF ErrInv
<1>2. \A a \in Agents : tester'[a] = "running" => seenErrors'[a] <= errors'[a]
  BY ErrType DEF ErrInv, errVars
<1>3. pc' = "starting" => \A a \in Agents : seenErrors'[a] = 0
  BY DEF ErrInv, errVars
<1>4. pc' \in {"starting", "decide", "distribute"} => \A a \in Agents : Accounted(a)'
  BY AccountedKept DEF ErrInv
<1>5. pc' = "status" => \A a \in Agents \ todo' : Accounted(a)'
  BY AccountedKept DEF ErrInv
<1>6. pc' = "send" => \A a \in todo' : Accounted(a)'
  <2> SUFFICES ASSUME pc' = "send", NEW a \in todo' PROVE Accounted(a)'
    OBVIOUS
  <2>1. a \in Agents
    BY DEF TypeOK
  <2>2. Accounted(a)
    BY <2>1 DEF ErrInv
  <2> QED BY <2>1, <2>2, AccountedKept
<1>7. cur' # NoAgent /\ req' = "create" => Accounted(cur)'
  <2> SUFFICES ASSUME cur' # NoAgent, req' = "create" PROVE Accounted(cur)'
    OBVIOUS
  <2>1. cur' \in Agents
    BY DEF TypeOK, startReq
  <2>2. totalErrors[cur'] = past[cur'] /\ lastError[cur'] = seenErrors[cur']
    BY DEF ErrInv, Accounted, startReq
  <2> QED BY <2>2 DEF errVars, errMap, Accounted
<1>8. cur' # NoAgent /\ req' = "run" => seenErrors'[cur'] = 0
  BY DEF ErrInv, errVars, startReq
<1> QED BY <1>1, <1>2, <1>3, <1>4, <1>5, <1>6, <1>7, <1>8 DEF ErrInv

LEMMA ErrStepStart ==
  ASSUME TypeOK, CurOK, ErrInv, (\E a \in Agents : BeginStart(a)) \/ Create \/ RunLoadTest
  PROVE  ErrInv'
<1>1. ASSUME NEW a \in Agents, BeginStart(a) PROVE ErrInv'
  <2>1. pc = "starting" /\ cur' = a /\ req' = "create" /\ Accounted(a)
    BY <1>1 DEF BeginStart, ErrInv
  <2> QED BY <1>1, <2>1, ErrQuiet DEF BeginStart, errVars, servers, agents
<1>2. CASE Create /\ StartFails
  <2>1. UNCHANGED <<errVars, errors>> /\ cur' = NoAgent
    BY <1>2, StartFailsEffect DEF Create, errVars, agents
  <2>2. \A a \in Agents : tester'[a] = "running" => tester[a] = "running"
    BY <1>2 DEF Create, TypeOK
  <2>3. pc' = "shutdown" \/ (pc' = pc /\ todo' = todo)
    BY <1>2, StartFailsEffect
  <2> QED BY <2>1, <2>2, <2>3, ErrQuiet
<1>3. CASE Create /\ Created
  <2>1. cur \in Agents /\ cur # NoAgent /\ req = "create"
    BY <1>3 DEF Create, TypeOK
  <2>2. Accounted(cur) /\ cur \notin todo /\ pc \in {"starting", "send"}
    BY <2>1 DEF ErrInv, CurOK
  <2>3. /\ UNCHANGED <<errMap, errors, pc, todo, cur>> /\ req' = "run"
        /\ seenErrors' = [seenErrors EXCEPT ![cur] = 0]
        /\ past' = [past EXCEPT ![cur] = @ + seenErrors[cur]]
    BY <1>3 DEF Create, Created
  <2>4. \A a \in Agents : tester'[a] = "running" => tester[a] = "running"
    BY <1>3 DEF Create, TypeOK
  <2>5. seenErrors'[cur] = 0 /\ past'[cur] = past[cur] + seenErrors[cur]
    BY <2>1, <2>3 DEF TypeOK
  <2>6. \A a \in Agents : a # cur => seenErrors'[a] = seenErrors[a] /\ past'[a] = past[a]
    BY <2>3 DEF TypeOK
  <2>7. Renewed(cur)'
    BY <2>1, <2>2, <2>3, <2>5, ErrType DEF Accounted, Renewed, errMap
  <2>8. \A a \in Agents : a # cur => /\ Accounted(a) => Accounted(a)'
                                     /\ Grown(a) => Grown(a)'
                                     /\ Renewed(a) => Renewed(a)'
    BY <2>3, <2>6 DEF Accounted, Grown, Renewed, errMap
  <2>9. \A a \in Agents : Grown(a)' \/ Renewed(a)'
    BY <2>3, <2>7, <2>8 DEF ErrInv
  <2>10. \A a \in Agents : tester'[a] = "running" => seenErrors'[a] <= errors'[a]
    BY <2>3, <2>4, <2>5, <2>6, ErrType DEF ErrInv
  <2>11. pc' = "starting" => Accounted(cur)' /\ \A a \in Agents : seenErrors'[a] = 0
    BY <2>1, <2>2, <2>3, <2>5, <2>6, ErrType DEF ErrInv, Accounted, errMap
  <2>12. pc' \in {"starting", "decide", "distribute"} => \A a \in Agents : Accounted(a)'
    <3> SUFFICES ASSUME pc = "starting", NEW a \in Agents PROVE Accounted(a)'
      BY <2>2, <2>3
    <3>1. Accounted(a)
      BY DEF ErrInv
    <3>2. a = cur => Accounted(a)'
      BY <2>3, <2>11 DEF Accounted
    <3> QED BY <3>1, <3>2, <2>8
  <2>13. pc' = "send" => \A a \in todo' : Accounted(a)'
    BY <2>2, <2>3, <2>8 DEF ErrInv, TypeOK
  <2> QED BY <2>2, <2>3, <2>5, <2>9, <2>10, <2>11, <2>12, <2>13 DEF ErrInv
<1>4. CASE RunLoadTest /\ StartFails
  <2>0. cur \in Agents /\ seenErrors[cur] = 0
    BY <1>4 DEF RunLoadTest, ErrInv, TypeOK
  <2>1. UNCHANGED <<errVars, errors>> /\ cur' = NoAgent
    BY <1>4, StartFailsEffect DEF RunLoadTest, errVars, agents
  <2>2. \A a \in Agents : tester'[a] = "running" => tester[a] = "running" \/ seenErrors[a] = 0
    BY <1>4, <2>0 DEF RunLoadTest, TypeOK
  <2>3. pc' = "shutdown" \/ (pc' = pc /\ todo' = todo)
    BY <1>4, StartFailsEffect
  <2> QED BY <2>1, <2>2, <2>3, ErrQuiet
<1>5. CASE RunLoadTest /\ Started
  <2>0. cur \in Agents /\ seenErrors[cur] = 0
    BY <1>5 DEF RunLoadTest, ErrInv, TypeOK
  <2>1. UNCHANGED <<errVars, errors>> /\ cur' = NoAgent /\ pc' = pc /\ todo' = todo
    BY <1>5 DEF RunLoadTest, Started, errVars
  <2>2. \A a \in Agents : tester'[a] = "running" => tester[a] = "running" \/ seenErrors[a] = 0
    BY <1>5, <2>0 DEF RunLoadTest, TypeOK
  <2> QED BY <2>1, <2>2, ErrQuiet
<1> QED BY <1>1, <1>2, <1>3, <1>4, <1>5 DEF Create, RunLoadTest

LEMMA ErrStepStatus ==
  ASSUME TypeOK, CurOK, ErrInv, NEW a \in Agents, TakeStatus(a)
  PROVE  ErrInv'
<1>1. /\ pc = "status" /\ pc' = "status" /\ a \in todo /\ todo' = todo \ {a}
      /\ UNCHANGED <<seenErrors, past, errors, tester, startReq>>
      /\ totalErrors' = [totalErrors EXCEPT ![a] =
                           IF seenErrors[a] < lastError[a] THEN @ + lastError[a] ELSE @]
      /\ lastError' = [lastError EXCEPT ![a] = seenErrors[a]]
  BY DEF TakeStatus, agents, servers
<1>2. cur = NoAgent
  BY <1>1 DEF CurOK
<1>3. Accounted(a)'
  <2>1. lastError'[a] = seenErrors[a]
    BY <1>1 DEF TypeOK
  <2>2. totalErrors'[a] = IF seenErrors[a] < lastError[a] THEN totalErrors[a] + lastError[a]
                                                          ELSE totalErrors[a]
    BY <1>1 DEF TypeOK
  <2>3. totalErrors'[a] = past[a]
    <3>1. CASE Grown(a)
      BY <3>1, <2>2, ErrType DEF Grown
    <3>2. CASE Renewed(a)
      BY <3>2, <2>2, ErrType DEF Renewed
    <3> QED BY <3>1, <3>2 DEF ErrInv
  <2> QED BY <1>1, <2>1, <2>3 DEF Accounted
<1>4. \A b \in Agents : b # a => lastError'[b] = lastError[b] /\ totalErrors'[b] = totalErrors[b]
  BY <1>1 DEF TypeOK
<1>5. \A b \in Agents : b # a => /\ Accounted(b) => Accounted(b)'
                                 /\ Grown(b) => Grown(b)'
                                 /\ Renewed(b) => Renewed(b)'
  BY <1>1, <1>4 DEF Accounted, Grown, Renewed
<1>6. Grown(a)'
  BY <1>1, <1>3, ErrType DEF Accounted, Grown
<1>7. \A b \in Agents : Grown(b)' \/ Renewed(b)'
  BY <1>5, <1>6 DEF ErrInv
<1>8. \A b \in Agents \ todo' : Accounted(b)'
  BY <1>1, <1>3, <1>5 DEF ErrInv
<1> QED BY <1>1, <1>2, <1>7, <1>8 DEF ErrInv, startReq

LEMMA ErrStepSend ==
  ASSUME TypeOK, CurOK, ErrInv, NEW a \in Agents, Send(a)
  PROVE  ErrInv'
<1>1. /\ pc = "send" /\ cur = NoAgent /\ a \in todo
      /\ UNCHANGED <<tester, errors, errMap>>
      /\ Accounted(a)
  BY SendEffect DEF ErrInv
<1>2. CASE cur' = a /\ req' = "create" /\ todo' = todo \ {a} /\ UNCHANGED <<agents, pc, users>>
  BY <1>1, <1>2, ErrQuiet DEF errVars, agents
<1>3. CASE pc' = "await" /\ todo' = {} /\ UNCHANGED <<agents, startReq>>
  BY <1>1, <1>3, ErrQuiet DEF errVars, agents
<1>4. CASE tester[a] = "running" /\ Answered(a)
  <2>1. /\ pc' = pc /\ todo' = todo \ {a} /\ UNCHANGED <<startReq, past>>
        /\ seenErrors' = [seenErrors EXCEPT ![a] = errors[a]]
    BY <1>4 DEF Answered
  <2>2. seenErrors'[a] = errors[a] /\ \A b \in Agents : b # a => seenErrors'[b] = seenErrors[b]
    BY <2>1 DEF TypeOK
  <2>3. seenErrors[a] <= errors[a]
    BY <1>4 DEF ErrInv
  <2>4. Grown(a)'
    BY <1>1, <2>1, <2>2, <2>3 DEF Accounted, Grown, errMap
  <2>5. \A b \in Agents : b # a => /\ Accounted(b) => Accounted(b)'
                                   /\ Grown(b) => Grown(b)'
                                   /\ Renewed(b) => Renewed(b)'
    BY <1>1, <2>1, <2>2 DEF Accounted, Grown, Renewed, errMap
  <2>6. \A b \in Agents : Grown(b)' \/ Renewed(b)'
    BY <2>4, <2>5 DEF ErrInv
  <2>7. \A b \in Agents : tester'[b] = "running" => seenErrors'[b] <= errors'[b]
    BY <1>1, <2>2, ErrType DEF ErrInv
  <2>8. \A b \in todo' : Accounted(b)'
    BY <1>1, <2>1, <2>5 DEF ErrInv, TypeOK
  <2> QED BY <1>1, <2>1, <2>6, <2>7, <2>8 DEF ErrInv, startReq
<1> QED BY <1>2, <1>3, <1>4, SendEffect

(* Errors that happen, and those that are forgotten with a load test.      *)
LEMMA ErrStepServers ==
  ASSUME TypeOK, ErrInv, NEW a \in Agents, StopAgent(a) \/ UserFails(a) \/ ServerRestarts(a)
  PROVE  ErrInv'
<1>1. /\ UNCHANGED <<errVars, startReq, pc>>
      /\ todo' = todo \/ (pc = "shutdown" /\ todo' \subseteq todo)
  BY DEF StopAgent, UserFails, ServerRestarts, errVars, agents
<1>2. \A b \in Agents : tester'[b] = "running" => tester[b] = "running" /\ errors'[b] >= errors[b]
  <2>1. CASE StopAgent(a)
    BY <2>1, ErrType DEF StopAgent, TypeOK
  <2>2. CASE UserFails(a)
    BY <2>2, ErrType DEF UserFails, TypeOK
  <2>3. CASE ServerRestarts(a)
    BY <2>3, ErrType DEF ServerRestarts, TypeOK
  <2> QED BY <2>1, <2>2, <2>3
<1>3. \A b \in Agents : errors'[b] \in Nat
  <2>1. CASE StopAgent(a)
    BY <2>1, ErrType DEF StopAgent, TypeOK
  <2>2. CASE UserFails(a)
    BY <2>2, ErrType DEF UserFails, TypeOK
  <2>3. CASE ServerRestarts(a)
    BY <2>3, ErrType DEF ServerRestarts, TypeOK
  <2> QED BY <2>1, <2>2, <2>3
<1>4. \A b \in Agents : tester'[b] = "running" => seenErrors'[b] <= errors'[b]
  BY <1>1, <1>2, <1>3, ErrType DEF ErrInv, errVars
<1>5. \A b \in Agents : Grown(b)' \/ Renewed(b)'
  BY <1>1, AccountedKept DEF ErrInv
<1>6. /\ pc' \in {"starting", "decide", "distribute"} => \A b \in Agents : Accounted(b)'
      /\ pc' = "status" => \A b \in Agents \ todo' : Accounted(b)'
      /\ pc' = "send" => \A b \in todo' : Accounted(b)'
  BY <1>1, AccountedKept DEF ErrInv, TypeOK
<1>7. /\ cur' # NoAgent /\ req' = "create" => Accounted(cur)'
      /\ cur' # NoAgent /\ req' = "run" => seenErrors'[cur'] = 0
      /\ pc' = "starting" => \A b \in Agents : seenErrors'[b] = 0
  BY <1>1 DEF ErrInv, Accounted, errVars, errMap, startReq
<1> QED BY <1>4, <1>5, <1>6, <1>7 DEF ErrInv

LEMMA ErrStep == TypeOK /\ CurOK /\ ErrInv /\ [Next]_vars => ErrInv'
<1> SUFFICES ASSUME TypeOK, CurOK, ErrInv, [Next]_vars PROVE ErrInv'
  OBVIOUS
<1>1. CASE AllStarted \/ TakeInterrupt \/ LoadTestDone
  BY <1>1, ErrQuiet, LeaveEffect DEF AllStarted, TakeInterrupt, LoadTestDone, Goto, errVars, agents,
     servers
<1>2. CASE ReceiveStatus \/ StatusTaken
  BY <1>2, ErrQuiet DEF ReceiveStatus, StatusTaken, Goto, errVars, agents, servers
<1>3. ASSUME NEW a \in Agents, NilStatus(a) PROVE ErrInv'
  BY <1>3, ErrQuiet, LeaveEffect DEF NilStatus, errVars, agents, servers
<1>4. CASE Decide
  BY <1>4, ErrQuiet, DecideEffect DEF errVars, agents, servers, TypeOK
<1>5. CASE Divide
  BY <1>5, ErrQuiet DEF Divide, errVars, agents, servers
<1>6. CASE Divided
  BY <1>6, ErrQuiet DEF Divided, Chosen, Goto, errVars, agents, servers
<1>7. CASE Sent \/ Finish
  BY <1>7, ErrQuiet DEF Sent, Finish, Goto, errVars, agents, servers
<1>8. CASE Interrupt \/ TimePasses \/ Monitoring
  BY <1>8, ErrQuiet DEF Interrupt, TimePasses, Monitoring, errVars, agents, servers
<1>9. CASE UNCHANGED vars
  BY <1>9, ErrQuiet DEF vars, errVars, agents, servers
<1> QED BY <1>1, <1>2, <1>3, <1>4, <1>5, <1>6, <1>7, <1>8, <1>9, ErrStepStart, ErrStepStatus,
        ErrStepSend, ErrStepServers DEF Next, RunStep

(* LoadAgentCluster.Status counts the errors of every load test an agent   *)
(* has had exactly once, as they were last seen: however often servers     *)
(* restart, whatever requests and answers are lost.                        *)
THEOREM ErrorsCounted == Spec => []ErrorsAccumulate
<1>1. Init => CurOK /\ ErrInv
  BY DEF Init, Zero, CurOK, ErrInv, Grown, Accounted
<1>2. TypeOK /\ ErrInv => ErrorsAccumulate
  <2> SUFFICES ASSUME TypeOK, ErrInv, pc = "decide"
               PROVE  totalErrors = past /\ lastError = seenErrors
    BY DEF ErrorsAccumulate
  <2>1. \A a \in Agents : totalErrors[a] = past[a] /\ lastError[a] = seenErrors[a]
    BY DEF ErrInv, Accounted
  <2> QED BY <2>1 DEF TypeOK
<1> QED BY <1>1, <1>2, CurStep, ErrStep, TypeCorrect, PTL DEF Spec

-----------------------------------------------------------------------------
(* When every request is answered, an agent has at least the users that it *)
(* was last seen with, and those are the ones its share is computed from.  *)
UserInv ==
  /\ \A a \in Agents : tester[a] = "running" => seenUsers[a] <= users[a]
  /\ cur # NoAgent /\ req = "run" => seenUsers[cur] = 0
  /\ pc = "distribute" => start = seenUsers
  /\ pc = "send" => \A a \in todo : start[a] = seenUsers[a]
  /\ NeverBelowZero

LEMMA UserFits ==
  ASSUME TypeOK, UserInv
  PROVE  RemovalsFit
<1> SUFFICES ASSUME pc = "send", kind = "remove", NEW a \in todo, tester[a] = "running"
             PROVE  dist[a] <= users[a]
  BY DEF RemovalsFit
<1>1. a \in Agents
  BY DEF TypeOK
<1>2. dist[a] <= start[a] /\ start[a] = seenUsers[a] /\ seenUsers[a] <= users[a]
  BY <1>1 DEF UserInv, NeverBelowZero
<1> QED BY <1>1, <1>2 DEF TypeOK, DistTypeOK

LEMMA UserType ==
  ASSUME TypeOK, NEW a \in Agents
  PROVE  {users[a], seenUsers[a], dist[a], start[a]} \subseteq Nat /\ AgentMaxUsers - users[a] \in Nat
BY DEF TypeOK, DistTypeOK

(* Steps that leave alone users and what is known of them.                 *)
LEMMA UserQuiet ==
  ASSUME TypeOK, UserInv, UNCHANGED <<distVars, seenUsers>>,
         \A a \in Agents : tester'[a] = "running" =>
           \/ tester[a] = "running" /\ users'[a] = users[a]
           \/ seenUsers[a] = 0 /\ users'[a] \in Nat,
         \/ pc' \notin {"distribute", "send"}
         \/ pc' = pc /\ todo' \subseteq todo
         \/ pc = "distribute" /\ pc' = "send" /\ todo' \subseteq Agents,
         cur' = NoAgent \/ UNCHANGED startReq \/ req' = "create"
  PROVE  UserInv'
<1>1. \A a \in Agents : tester'[a] = "running" => seenUsers'[a] <= users'[a]
  BY UserType DEF UserInv
<1>2. cur' # NoAgent /\ req' = "run" => seenUsers'[cur'] = 0
  BY DEF UserInv, startReq
<1>3. pc' = "distribute" => start' = seenUsers'
  BY DEF UserInv, distVars
<1>4. pc' = "send" => \A a \in todo' : start'[a] = seenUsers'[a]
  BY DEF UserInv, distVars, TypeOK
<1>5. NeverBelowZero'
  BY DEF UserInv, NeverBelowZero, distVars
<1> QED BY <1>1, <1>2, <1>3, <1>4, <1>5 DEF UserInv

LEMMA UserStepStart ==
  ASSUME TypeOK, CurOK, UserInv, (\E a \in Agents : BeginStart(a)) \/ Create \/ RunLoadTest
  PROVE  UserInv'
<1>1. ASSUME NEW a \in Agents, BeginStart(a) PROVE UserInv'
  BY <1>1, UserQuiet DEF BeginStart, servers, agents
<1>2. CASE Create
  <2>0. cur \in Agents /\ cur # NoAgent /\ cur \notin todo /\ UNCHANGED <<distVars, users>>
    BY <1>2 DEF Create, TypeOK, CurOK
  <2>1. \A a \in Agents : tester'[a] = "running" => tester[a] = "running"
    BY <1>2 DEF Create, TypeOK
  <2>2. CASE StartFails
    <3>1. seenUsers' = seenUsers /\ cur' = NoAgent /\ (pc' = "shutdown" \/ (pc' = pc /\ todo' = todo))
      BY <2>2, StartFailsEffect DEF agents
    <3> QED BY <2>0, <2>1, <3>1, UserQuiet
  <2>3. CASE Created
    <3>1. UNCHANGED <<pc, todo, cur>> /\ seenUsers' = [seenUsers EXCEPT ![cur] = 0]
      BY <2>3 DEF Created
    <3>2. seenUsers'[cur] = 0 /\ \A a \in Agents : a # cur => seenUsers'[a] = seenUsers[a]
      BY <2>0, <3>1 DEF TypeOK
    <3>3. \A a \in Agents : tester'[a] = "running" => seenUsers'[a] <= users'[a]
      BY <2>0, <2>1, <3>2, UserType DEF UserInv
    <3>4. pc' # "distribute"
      BY <2>0, <3>1 DEF CurOK
    <3>5. pc' = "send" => \A a \in todo' : start'[a] = seenUsers'[a]
      BY <2>0, <3>1, <3>2 DEF UserInv, distVars, TypeOK
    <3>6. NeverBelowZero'
      BY <2>0 DEF UserInv, NeverBelowZero, distVars
    <3>7. cur' # NoAgent /\ req' = "run" => seenUsers'[cur'] = 0
      BY <3>1, <3>2
    <3> QED BY <3>3, <3>4, <3>5, <3>6, <3>7 DEF UserInv
  <2> QED BY <1>2, <2>2, <2>3 DEF Create
<1>3. CASE RunLoadTest
  <2>0. cur \in Agents /\ seenUsers[cur] = 0 /\ UNCHANGED <<distVars, users>>
    BY <1>3 DEF RunLoadTest, TypeOK, UserInv
  <2>1. \A a \in Agents : tester'[a] = "running" => tester[a] = "running" \/ a = cur
    BY <1>3 DEF RunLoadTest, TypeOK
  <2>2. seenUsers' = seenUsers /\ cur' = NoAgent /\ (pc' = "shutdown" \/ (pc' = pc /\ todo' = todo))
    BY <1>3, StartFailsEffect DEF RunLoadTest, Started, agents
  <2>3. \A a \in Agents : users'[a] = users[a] /\ users[a] \in Nat
    BY <2>0, UserType
  <2> QED BY <2>0, <2>1, <2>2, <2>3, UserQuiet
<1> QED BY <1>1, <1>2, <1>3

LEMMA UserStepSend ==
  ASSUME ~ NetworkFails, TypeOK, UserInv, NEW a \in Agents, Send(a)
  PROVE  UserInv'
<1>1. /\ pc = "send" /\ cur = NoAgent /\ a \in todo
      /\ UNCHANGED <<distVars, tester>>
  BY SendEffect
<1>2. \A b \in Agents : b # a => users'[b] = users[b]
  BY DEF Send, NotFound, Refused, AddUsers, RemoveUsers, TypeOK
<1>3. CASE NotFound(a)
  BY <1>1, <1>3, UserQuiet DEF NotFound, agents
<1>4. CASE Refused(a)
  BY <1>1, <1>4, UserQuiet DEF Refused, GiveUp, Goto, agents
<1>5. ASSUME GiveUp, tester[a] = "running" => users'[a] \in Nat /\ seenUsers[a] <= users'[a]
      PROVE  UserInv'
  <2>1. pc' = "await" /\ seenUsers' = seenUsers /\ UNCHANGED startReq
    BY <1>5 DEF GiveUp, Goto, agents
  <2>2. \A b \in Agents : tester'[b] = "running" => seenUsers'[b] <= users'[b]
    BY <1>1, <1>2, <1>5, <2>1 DEF UserInv
  <2>3. NeverBelowZero'
    BY <1>1 DEF UserInv, NeverBelowZero, distVars
  <2> QED BY <1>1, <2>1, <2>2, <2>3 DEF UserInv, startReq
<1>6. ASSUME Answered(a), users'[a] \in Nat PROVE UserInv'
  <2>1. pc' = pc /\ UNCHANGED startReq /\ todo' = todo \ {a}
    BY <1>6 DEF Answered
  <2>2. seenUsers'[a] = users'[a] /\ \A b \in Agents : b # a => seenUsers'[b] = seenUsers[b]
    BY <1>6 DEF Answered, TypeOK
  <2>3. \A b \in Agents : tester'[b] = "running" => seenUsers'[b] <= users'[b]
    BY <1>1, <1>2, <1>6, <2>2, UserType DEF UserInv
  <2>4. \A b \in todo' : start'[b] = seenUsers'[b]
    BY <1>1, <2>1, <2>2 DEF UserInv, distVars, TypeOK
  <2>5. NeverBelowZero'
    BY <1>1 DEF UserInv, NeverBelowZero, distVars
  <2> QED BY <1>1, <2>1, <2>3, <2>4, <2>5 DEF UserInv, startReq
<1>7. CASE kind = "add" /\ AddUsers(a)
  <2> DEFINE n == Smaller(dist[a], AgentMaxUsers - users[a])
  <2>1. n \in Nat /\ users[a] \in Nat
    BY SmallerInt, UserType
  <2>2. users' = [users EXCEPT ![a] = @ + n] /\ (Answered(a) \/ GiveUp) /\ tester[a] = "running"
    BY <1>7 DEF AddUsers, Reply
  <2>3. users'[a] = users[a] + n
    BY <2>2 DEF TypeOK
  <2>4. seenUsers[a] <= users[a] /\ seenUsers[a] \in Nat
    BY <2>2, UserType DEF UserInv
  <2> HIDE DEF n
  <2>5. users'[a] \in Nat /\ seenUsers[a] <= users'[a]
    BY <2>1, <2>3, <2>4
  <2> QED BY <2>2, <2>5, <1>5, <1>6
<1>8. CASE kind = "remove" /\ RemoveUsers(a)
  <2>1. tester[a] = "running"
    BY <1>8 DEF RemoveUsers
  <2>2. dist[a] <= users[a]
    BY <1>1, <1>8, <2>1, UserFits DEF RemovalsFit
  <2>3. Smaller(dist[a], users[a]) = dist[a]
    <3>1. CASE dist[a] < users[a]
      BY <3>1 DEF Smaller
    <3>2. CASE dist[a] = users[a]
      BY <3>2, UserType DEF Smaller
    <3> QED BY <3>1, <3>2, <2>2, UserType
  <2>4. users' = [users EXCEPT ![a] = @ - dist[a]] /\ Answered(a)
    BY <1>8, <2>3 DEF RemoveUsers, Reply
  <2>5. users'[a] \in Nat
    BY <2>2, <2>4, UserType DEF TypeOK
  <2> QED BY <2>4, <2>5, <1>6
<1> QED BY <1>3, <1>4, <1>7, <1>8 DEF Send

LEMMA UserStep ==
  ASSUME ~ NetworkFails
  PROVE  TypeOK /\ CurOK /\ UserInv /\ [Next]_vars => UserInv'
<1> SUFFICES ASSUME TypeOK, CurOK, UserInv, [Next]_vars PROVE UserInv'
  OBVIOUS
<1>1. CASE AllStarted \/ TakeInterrupt \/ LoadTestDone
  BY <1>1, UserQuiet, LeaveEffect DEF AllStarted, TakeInterrupt, LoadTestDone, Goto, agents, servers
<1>2. CASE ReceiveStatus \/ StatusTaken
  BY <1>2, UserQuiet DEF ReceiveStatus, StatusTaken, Goto, agents, servers
<1>3. ASSUME NEW a \in Agents, TakeStatus(a) \/ NilStatus(a) PROVE UserInv'
  BY <1>3, UserQuiet, LeaveEffect DEF TakeStatus, NilStatus, agents, servers
<1>4. CASE Decide
  <2>1. /\ pc' \in {"distribute", "await"} /\ UNCHANGED <<servers, agents, startReq>>
        /\ pc' = "distribute" => start' = seenUsers /\ dist' = [a \in Agents |-> 0]
        /\ pc' # "distribute" => UNCHANGED distVars
    BY <1>4, DecideEffect
  <2>2. CASE pc' = "distribute"
    <3>1. NeverBelowZero'
      BY <2>1, <2>2 DEF NeverBelowZero, TypeOK
    <3> QED BY <2>1, <2>2, <3>1 DEF UserInv, servers, agents, startReq
  <2>3. CASE pc' = "await"
    BY <2>1, <2>3, UserQuiet DEF servers, agents
  <2> QED BY <2>1, <2>2, <2>3
<1>5. CASE Divide
  <2>1. NeverBelowZero'
    BY <1>5, NeverBelowZeroStep DEF Divide, DistNext, TypeOK, UserInv
  <2>2. start' = start
    BY <1>5 DEF Divide, AddOne, RemoveOne
  <2> QED BY <1>5, <2>1, <2>2 DEF Divide, UserInv, servers, agents, startReq
<1>6. CASE Divided
  BY <1>6, UserQuiet DEF Divided, Chosen, Goto, agents, servers
<1>7. CASE Sent \/ Finish
  BY <1>7, UserQuiet DEF Sent, Finish, Goto, agents, servers
<1>8. ASSUME NEW a \in Agents, StopAgent(a) PROVE UserInv'
  <2>1. \A b \in Agents : tester'[b] = "running" => tester[b] = "running" /\ users'[b] = users[b]
    BY <1>8 DEF StopAgent, TypeOK
  <2>2. UNCHANGED <<distVars, seenUsers, startReq>> /\ pc' = "shutdown"
    BY <1>8 DEF StopAgent, agents
  <2> QED BY <2>1, <2>2, UserQuiet
<1>9. ASSUME NEW a \in Agents, UserFails(a) \/ ServerRestarts(a) PROVE UserInv'
  <2>1. \A b \in Agents : tester'[b] = "running" => tester[b] = "running" /\ users'[b] = users[b]
    BY <1>9 DEF UserFails, ServerRestarts, TypeOK
  <2>2. UNCHANGED <<distVars, seenUsers, startReq, pc, todo>>
    BY <1>9 DEF UserFails, ServerRestarts, agents
  <2> QED BY <2>1, <2>2, UserQuiet
<1>10. CASE Interrupt \/ TimePasses \/ Monitoring
  BY <1>10, UserQuiet DEF Interrupt, TimePasses, Monitoring, agents, servers
<1>11. CASE UNCHANGED vars
  BY <1>11, UserQuiet DEF vars, agents, servers
<1> QED BY <1>1, <1>2, <1>3, <1>4, <1>5, <1>6, <1>7, <1>8, <1>9, <1>10, <1>11, UserStepStart,
        UserStepSend DEF Next, RunStep

(* When every request is answered, DecrementUsers asks no load test for    *)
(* more users than it has, whatever servers restart: the request that      *)
(* would fail, and end the loop, is never made.                            *)
THEOREM RemovalsAlwaysFit ==
  ASSUME ~ NetworkFails
  PROVE  Spec => []RemovalsFit
<1>1. Init => CurOK /\ UserInv
  BY DEF Init, Zero, CurOK, UserInv, NeverBelowZero
<1> QED BY <1>1, CurStep, UserStep, UserFits, TypeCorrect, PTL DEF Spec

-----------------------------------------------------------------------------
(* Once Run has left its loop, a load test is left only where Shutdown has *)
(* still to call.                                                          *)
LeftInv ==
  /\ pc \in {"shutdown", "done"} => \A a \in Agents \ todo : tester[a] = "none"
  /\ pc = "done" => todo = {}

LEMMA LeftStep ==
  ASSUME ~ NetworkFails
  PROVE  TypeOK /\ CurOK /\ LeftInv /\ [Next]_vars => LeftInv'
<1> SUFFICES ASSUME TypeOK, CurOK, LeftInv, [Next]_vars PROVE LeftInv'
  OBVIOUS
<1>1. ASSUME NEW a \in Agents, BeginStart(a) \/ TakeStatus(a) PROVE LeftInv'
  BY <1>1 DEF BeginStart, TakeStatus, LeftInv
<1>2. CASE Create \/ RunLoadTest
  <2>1. pc \in {"starting", "send"}
    BY <1>2 DEF Create, RunLoadTest, CurOK
  <2>2. pc' \in {"starting", "send"} \/ (pc' = "shutdown" /\ todo' = Agents)
    BY <1>2, <2>1, StartFailsEffect DEF Create, RunLoadTest, Created, Started
  <2> QED BY <2>2 DEF LeftInv
<1>3. CASE TakeInterrupt \/ LoadTestDone
  BY <1>3, LeaveEffect DEF TakeInterrupt, LoadTestDone, LeftInv
<1>4. ASSUME NEW a \in Agents, NilStatus(a) PROVE LeftInv'
  BY <1>4, LeaveEffect DEF NilStatus, LeftInv
<1>5. ASSUME NEW a \in Agents, Send(a) PROVE LeftInv'
  BY <1>5, SendEffect DEF Answered, LeftInv
<1>6. CASE AllStarted \/ ReceiveStatus \/ StatusTaken \/ Divide \/ Divided \/ Sent
  BY <1>6 DEF AllStarted, ReceiveStatus, StatusTaken, Divide, Divided, Sent, Goto, LeftInv
<1>7. CASE Decide
  BY <1>7, DecideEffect DEF LeftInv
<1>8. ASSUME NEW a \in Agents, StopAgent(a) PROVE LeftInv'
  <2>1. pc = "shutdown" /\ pc' = "shutdown" /\ todo' = todo \ {a}
        /\ tester' = [tester EXCEPT ![a] = "none"]
    BY <1>8 DEF StopAgent
  <2> QED BY <2>1 DEF LeftInv, TypeOK
<1>9. CASE Finish
  BY <1>9 DEF Finish, Goto, LeftInv, servers
<1>10. ASSUME NEW a \in Agents, UserFails(a) PROVE LeftInv'
  BY <1>10 DEF UserFails, LeftInv
<1>11. ASSUME NEW a \in Agents, ServerRestarts(a) PROVE LeftInv'
  BY <1>11 DEF ServerRestarts, LeftInv, TypeOK
<1>12. CASE Interrupt \/ TimePasses \/ Monitoring \/ UNCHANGED vars
  BY <1>12 DEF Interrupt, TimePasses, Monitoring, vars, servers, LeftInv
<1> QED BY <1>1, <1>2, <1>3, <1>4, <1>5, <1>6, <1>7, <1>8, <1>9, <1>10, <1>11, <1>12 DEF Next, RunStep

(* When every request is answered, the deferred Shutdown leaves no load    *)
(* test behind: not of agents that a failed Run had started before, and    *)
(* not of those that were being started again.                             *)
THEOREM NothingIsLeft ==
  ASSUME ~ NetworkFails
  PROVE  Spec => []NothingLeft
<1>1. Init => CurOK /\ LeftInv
  BY DEF Init, CurOK, LeftInv
<1>2. LeftInv => NothingLeft
  BY DEF LeftInv, NothingLeft
<1> QED BY <1>1, <1>2, CurStep, LeftStep, TypeCorrect, PTL DEF Spec

-----------------------------------------------------------------------------
(* A load test that does not run has no users.                             *)
Idle == \A a \in Agents : tester[a] # "running" => users[a] = 0

LEMMA IdleStep == TypeOK /\ Idle /\ [Next]_vars => Idle'
<1> SUFFICES ASSUME TypeOK, Idle, [Next]_vars PROVE Idle'
  OBVIOUS
<1>1. CASE UNCHANGED <<tester, users>>
  BY <1>1 DEF Idle
<1>2. CASE Create \/ RunLoadTest
  BY <1>2 DEF Create, RunLoadTest, Idle, TypeOK
<1>3. ASSUME NEW a \in Agents, Send(a) PROVE Idle'
  <2>1. tester' = tester
    BY <1>3 DEF Send
  <2>2. users' = users \/ (tester[a] = "running" /\ \A b \in Agents : b # a => users'[b] = users[b])
    BY <1>3 DEF Send, NotFound, Refused, AddUsers, RemoveUsers, TypeOK
  <2> QED BY <2>1, <2>2 DEF Idle
<1>4. ASSUME NEW a \in Agents, StopAgent(a) \/ ServerRestarts(a) PROVE Idle'
  BY <1>4 DEF StopAgent, ServerRestarts, Idle, TypeOK
<1>5. \/ UNCHANGED <<tester, users>> \/ Create \/ RunLoadTest
      \/ \E a \in Agents : Send(a) \/ StopAgent(a) \/ ServerRestarts(a)
  <2>1. UNCHANGED vars => UNCHANGED <<tester, users>>
    BY DEF vars, servers
  <2>2. \A a \in Agents : BeginStart(a) \/ TakeStatus(a) \/ NilStatus(a) \/ UserFails(a)
                           => UNCHANGED <<tester, users>>
    BY DEF BeginStart, TakeStatus, NilStatus, UserFails, servers
  <2>3. AllStarted \/ TakeInterrupt \/ ReceiveStatus \/ StatusTaken \/ LoadTestDone \/ Decide
          => UNCHANGED <<tester, users>>
    BY DEF AllStarted, TakeInterrupt, ReceiveStatus, StatusTaken, LoadTestDone, Decide, servers
  <2>4. Divide \/ Divided \/ Sent \/ Finish \/ Interrupt \/ TimePasses \/ Monitoring
          => UNCHANGED <<tester, users>>
    BY DEF Divide, Divided, Sent, Finish, Interrupt, TimePasses, Monitoring, servers
  <2> QED BY <2>1, <2>2, <2>3, <2>4 DEF Next, RunStep
<1> QED BY <1>1, <1>2, <1>3, <1>4, <1>5

(* What the loops of Distribution keep, the coordinator keeps: it runs     *)
(* them, or begins anew.                                                   *)
DivideInv == NeverBelowZero /\ Even /\ Given

LEMMA BeginDivides ==
  ASSUME amount' \in Nat, left' = amount', dist' = [a \in Agents |-> 0], start' \in [Agents -> Nat]
  PROVE  DivideInv'
<1>1. Total(dist') = 0
  BY TotalZero
<1>2. Given'
  <2>1. \A n \in Nat : 0 + n = n
    OBVIOUS
  <2>2. Total(dist') + left' = amount'
    BY <1>1, <2>1, Zenon
  <2> QED BY <2>2 DEF Given
<1>3. Even' /\ NeverBelowZero'
  BY DEF Even, Chosen, NeverBelowZero
<1> QED BY <1>2, <1>3 DEF DivideInv

LEMMA DivideStep == TypeOK /\ DivideInv /\ [Next]_vars => DivideInv'
<1> SUFFICES ASSUME TypeOK, DivideInv, [Next]_vars PROVE DivideInv'
  OBVIOUS
<1>0. DistTypeOK /\ DistTypeOK'
  BY TypeStep DEF TypeOK
<1>1. CASE [DistNext]_distVars
  BY <1>0, <1>1, NeverBelowZeroStep, EvenStep, GivenStep DEF DivideInv
<1>2. CASE Decide
  <2>1. UNCHANGED distVars \/ (left' = amount' /\ dist' = [a \in Agents |-> 0])
    BY <1>2 DEF Decide, Decrement, Increment, Rest, Distribute, Begin
  <2> QED BY <1>0, <1>1, <2>1, BeginDivides DEF DistTypeOK
<1>3. Decide \/ [DistNext]_distVars
  <2>1. UNCHANGED vars => UNCHANGED distVars
    BY DEF vars
  <2>2. \A a \in Agents : BeginStart(a) \/ TakeStatus(a) \/ NilStatus(a) \/ Send(a) \/ StopAgent(a)
                             \/ UserFails(a) \/ ServerRestarts(a)
                           => UNCHANGED distVars
    BY DEF BeginStart, TakeStatus, NilStatus, Send, StopAgent, UserFails, ServerRestarts
  <2>3. Create \/ RunLoadTest \/ AllStarted \/ TakeInterrupt \/ ReceiveStatus \/ StatusTaken
          => UNCHANGED distVars
    BY DEF Create, RunLoadTest, AllStarted, TakeInterrupt, ReceiveStatus, StatusTaken
  <2>4. LoadTestDone \/ Divided \/ Sent \/ Finish \/ Interrupt \/ TimePasses \/ Monitoring
          => UNCHANGED distVars
    BY DEF LoadTestDone, Divided, Sent, Finish, Interrupt, TimePasses, Monitoring
  <2>5. Divide => DistNext
    BY DEF Divide, DistNext
  <2> QED BY <2>1, <2>2, <2>3, <2>4, <2>5 DEF Next, RunStep
<1> QED BY <1>1, <1>2, <1>3

-----------------------------------------------------------------------------
(* The users that the coordinator has in mind: it never knows of fewer     *)
(* than there are, and plans no more than there may be.  (An agent that is *)
(* asked for more than it has room for adds some and answers with an error,*)
(* so that they are not counted; that is harmless only because then all    *)
(* agents are full according to the plan.)                                 *)
Full == [a \in Agents |-> AgentMaxUsers]
Counted == [a \in Agents |-> IF a \in todo THEN 0 ELSE seenUsers[a]]

CountInv ==
  /\ Total(seenUsers) <= MaxActiveUsers
  /\ \A a \in Agents : users[a] <= seenUsers[a]
  /\ pc = "status" => active = Total(Counted)
  /\ pc = "decide" => active = Total(seenUsers)
  /\ pc \in {"distribute", "send"} /\ kind = "add" => Total(start) + amount <= MaxActiveUsers
  /\ pc = "send" /\ kind = "add" => \A a \in Agents : seenUsers[a] <= start[a] + dist[a]

(* Steps that tell the coordinator nothing about users.                    *)
LEMMA CountQuiet ==
  ASSUME TypeOK, CountInv, UNCHANGED <<distVars, seenUsers>>,
         \A a \in Agents : users'[a] = users[a] \/ users'[a] = 0,
         \/ pc' \notin {"status", "decide", "distribute", "send"}
         \/ pc' = pc /\ active' = active /\ (pc = "status" => todo' = todo)
  PROVE  CountInv'
<1>1. \A a \in Agents : users'[a] <= seenUsers'[a]
  BY UserType DEF CountInv
<1>2. pc' = "status" => active' = Total(Counted')
  BY DEF CountInv, Counted
<1> QED BY <1>1, <1>2 DEF CountInv, distVars

LEMMA CountStepStart ==
  ASSUME TypeOK, TypeOK', CurOK, UserInv, Idle, CountInv, ~ NetworkFails,
         (\E a \in Agents : BeginStart(a)) \/ Create \/ RunLoadTest
  PROVE  CountInv'
<1>1. ASSUME NEW a \in Agents, BeginStart(a) PROVE CountInv'
  BY <1>1, CountQuiet DEF BeginStart, servers, agents
<1>2. CASE Create \/ RunLoadTest
  <2>0. cur \in Agents /\ pc \in {"starting", "send"} /\ UNCHANGED <<distVars, users, active>>
    BY <1>2 DEF Create, RunLoadTest, TypeOK, CurOK
  <2>1. CASE StartFails
    BY <2>0, <2>1, CountQuiet, StartFailsEffect DEF agents
  <2>2. CASE Started
    BY <2>0, <2>2, CountQuiet DEF Started
  <2>3. CASE Create /\ Created
    <3>1. /\ UNCHANGED <<pc, todo>> /\ seenUsers' = [seenUsers EXCEPT ![cur] = 0]
          /\ tester[cur] = "none"
      BY <2>3, StartFailsEffect DEF Create, Created
    <3>2. seenUsers'[cur] = 0 /\ \A a \in Agents : a # cur => seenUsers'[a] = seenUsers[a]
      BY <2>0, <3>1 DEF TypeOK
    <3>7. users[cur] = 0
      BY <2>0, <3>1 DEF Idle
    <3>3. \A a \in Agents : seenUsers'[a] <= seenUsers[a] /\ users'[a] <= seenUsers'[a]
      BY <2>0, <3>2, <3>7, UserType DEF CountInv
    <3>4. Total(seenUsers') <= Total(seenUsers)
      BY <3>3, TotalMonotone DEF TypeOK
    <3>5. Total(seenUsers') <= MaxActiveUsers
      <4>1. Total(seenUsers) \in Nat /\ Total(seenUsers') \in Nat
        BY TotalType DEF TypeOK
      <4> QED BY <3>4, <4>1 DEF CountInv
    <3>6. pc' = "send" /\ kind' = "add" => \A a \in Agents : seenUsers'[a] <= start'[a] + dist'[a]
      <4> SUFFICES ASSUME pc = "send", kind = "add", NEW a \in Agents
                   PROVE  seenUsers'[a] <= start[a] + dist[a]
        BY <2>0, <3>1 DEF distVars
      <4>1. seenUsers[a] <= start[a] + dist[a] /\ seenUsers'[a] <= seenUsers[a] /\ seenUsers'[a] \in Nat
        BY <3>3 DEF CountInv, TypeOK
      <4> QED BY <4>1, UserType
    <3> QED BY <2>0, <3>1, <3>3, <3>5, <3>6 DEF CountInv, distVars
  <2> QED BY <1>2, <2>1, <2>2, <2>3 DEF Create, RunLoadTest
<1> QED BY <1>1, <1>2

LEMMA CountStepStatus ==
  ASSUME TypeOK, TypeOK', CountInv,
         ReceiveStatus \/ StatusTaken \/ \E a \in Agents : TakeStatus(a) \/ NilStatus(a)
  PROVE  CountInv'
<1>1. CASE ReceiveStatus
  <2>1. pc' = "status" /\ todo' = Agents /\ active' = 0 /\ UNCHANGED <<users, seenUsers>>
    BY <1>1 DEF ReceiveStatus, Goto, servers, agents
  <2>2. Total(Counted') = 0
    BY <2>1, TotalZero DEF Counted
  <2> QED BY <2>1, <2>2 DEF CountInv
<1>2. CASE StatusTaken
  <2>1. pc = "status" /\ pc' = "decide" /\ todo = {} /\ UNCHANGED <<users, seenUsers, active>>
    BY <1>2 DEF StatusTaken, Goto, servers, agents
  <2>2. Counted = seenUsers
    BY <2>1 DEF Counted, TypeOK
  <2> QED BY <2>1, <2>2 DEF CountInv
<1>3. ASSUME NEW a \in Agents, TakeStatus(a) PROVE CountInv'
  <2>1. /\ pc = "status" /\ pc' = pc /\ a \in todo /\ todo' = todo \ {a}
        /\ active' = active + seenUsers[a] /\ UNCHANGED <<users, seenUsers>>
    BY <1>3 DEF TakeStatus, servers, agents
  <2>2. Counted \in [Agents -> Nat] /\ Counted' \in [Agents -> Nat]
    BY DEF Counted, TypeOK
  <2>3. \A b \in Agents \ {a} : Counted'[b] = Counted[b]
    BY <2>1 DEF Counted
  <2>4. Total(Counted') - Counted'[a] = Total(Counted) - Counted[a]
    BY <2>2, <2>3, TotalFollows
  <2>5. Counted'[a] = seenUsers[a] /\ Counted[a] = 0
    BY <2>1 DEF Counted
  <2>6. Total(Counted) \in Nat /\ Total(Counted') \in Nat /\ seenUsers[a] \in Nat
    BY <2>2, TotalType, UserType
  <2>7. active' = Total(Counted')
    BY <2>1, <2>4, <2>5, <2>6 DEF CountInv
  <2> QED BY <2>1, <2>7 DEF CountInv
<1>4. ASSUME NEW a \in Agents, NilStatus(a) PROVE CountInv'
  BY <1>4, CountQuiet, LeaveEffect DEF NilStatus, servers, agents
<1> QED BY <1>1, <1>2, <1>3, <1>4

LEMMA CountStepDivide ==
  ASSUME TypeOK, TypeOK', UserInv, CountInv, Decide \/ Divide \/ Divided
  PROVE  CountInv'
<1>1. CASE Decide
  <2>1. /\ pc = "decide" /\ UNCHANGED <<users, seenUsers>>
        /\ (pc' = "distribute" /\ start' = seenUsers) \/ pc' = "await"
    BY <1>1, DecideEffect DEF servers, agents
  <2>2. CASE pc' = "distribute" /\ kind' = "add"
    <3>1. amount' = Smaller(NumUsersInc, MaxActiveUsers - active) /\ active < MaxActiveUsers
      BY <1>1, <2>2 DEF Decide, Decrement, Increment, Rest, CanGrow, Distribute, Begin, Goto
    <3>2. active = Total(seenUsers) /\ active \in Nat
      BY <2>1 DEF CountInv, TypeOK
    <3>3. MaxActiveUsers - active \in Nat
      BY <3>1, <3>2
    <3>4. amount' \in Nat /\ amount' <= MaxActiveUsers - active
      BY <3>1, <3>3, SmallerInt
    <3>5. Total(start') + amount' <= MaxActiveUsers
      BY <2>1, <2>2, <3>2, <3>4
    <3> QED BY <2>1, <2>2, <3>5 DEF CountInv
  <2> QED BY <2>1, <2>2 DEF CountInv
<1>2. CASE Divide
  BY <1>2 DEF Divide, AddOne, RemoveOne, CountInv, servers, agents
<1>3. CASE Divided
  <2>1. pc = "distribute" /\ pc' = "send" /\ UNCHANGED <<distVars, users, seenUsers>>
    BY <1>3 DEF Divided, Goto, servers, agents
  <2>2. \A a \in Agents : seenUsers[a] <= start[a] + dist[a]
    BY <2>1, UserType DEF UserInv
  <2> QED BY <2>1, <2>2 DEF CountInv, distVars
<1> QED BY <1>1, <1>2, <1>3

(* An agent has no room for its share only when the plan fills every agent.*)
LEMMA PlanFills ==
  ASSUME TypeOK, UserInv, DivideInv, CountInv, pc = "send", kind = "add",
         NEW a \in todo, dist[a] > AgentMaxUsers - users[a]
  PROVE  Total(Full) <= MaxActiveUsers
<1> DEFINE plan == [b \in Agents |-> start[b] + dist[b]]
<1>1. a \in Agents /\ \A b \in Agents : {users[b], seenUsers[b], dist[b], start[b]} \subseteq Nat
  BY UserType DEF TypeOK
<1>2. users[a] <= start[a] /\ users[a] <= AgentMaxUsers
  BY <1>1 DEF CountInv, UserInv, TypeOK
<1>3. a \in Chosen /\ AgentMaxUsers < plan[a]
  BY <1>1, <1>2 DEF Chosen
<1>4. \A b \in Agents : plan[a] <= plan[b] + 1
  BY <1>1, <1>3 DEF DivideInv, Even, Load
<1>5. plan \in [Agents -> Nat] /\ Full \in [Agents -> Nat]
  BY <1>1 DEF Full
<1>6. \A b \in Agents : Full[b] <= plan[b]
  <2> SUFFICES ASSUME NEW b \in Agents PROVE AgentMaxUsers <= plan[b]
    BY DEF Full
  <2>1. plan[a] \in Nat /\ plan[b] \in Nat /\ plan[a] <= plan[b] + 1
    BY <1>1, <1>4, <1>5
  <2> QED BY <1>3, <2>1
<1>7. Total(Full) <= Total(plan)
  BY <1>5, <1>6, TotalMonotone
<1>8. Total(plan) = Total(start) + Total(dist)
  <2>1. \A b \in Agents : plan[b] = start[b] + dist[b]
    OBVIOUS
  <2> QED BY <1>5, <2>1, TotalPlus DEF TypeOK, DistTypeOK
<1>9. Total(dist) <= amount /\ Total(start) + amount <= MaxActiveUsers
  BY TotalType DEF DivideInv, Given, CountInv, TypeOK, DistTypeOK
<1> QED BY <1>5, <1>7, <1>8, <1>9, TotalType DEF TypeOK, DistTypeOK

(* What the agents are known to have, once each has at most what it was to *)
(* have, is no more than was planned.                                      *)
LEMMA PlanHolds ==
  ASSUME TypeOK, DivideInv, CountInv, pc = "send", kind = "add",
         NEW f \in [Agents -> Nat], \A a \in Agents : f[a] <= start[a] + dist[a]
  PROVE  Total(f) <= MaxActiveUsers
<1> DEFINE plan == [b \in Agents |-> start[b] + dist[b]]
<1>1. plan \in [Agents -> Nat] /\ \A b \in Agents : plan[b] = start[b] + dist[b]
  BY UserType
<1>2. Total(plan) = Total(start) + Total(dist)
  BY <1>1, TotalPlus DEF TypeOK, DistTypeOK
<1>3. Total(f) <= Total(plan)
  BY <1>1, TotalMonotone
<1>4. Total(dist) <= amount /\ Total(start) + amount <= MaxActiveUsers
  BY TotalType DEF DivideInv, Given, CountInv, TypeOK, DistTypeOK
<1> QED BY <1>1, <1>2, <1>3, <1>4, TotalType DEF TypeOK, DistTypeOK

LEMMA CountStepSend ==
  ASSUME TypeOK, TypeOK', UserInv, DivideInv, CountInv, ~ NetworkFails,
         ~ (Total(Full) <= MaxActiveUsers), NEW a \in Agents, Send(a)
  PROVE  CountInv'
<1>1. pc = "send" /\ a \in todo /\ UNCHANGED <<distVars, active>>
  BY DEF Send
<1>2. \A b \in Agents : b # a => users'[b] = users[b]
  BY DEF Send, NotFound, Refused, AddUsers, RemoveUsers, TypeOK
<1>3. CASE NotFound(a) \/ Refused(a)
  BY <1>1, <1>3, CountQuiet DEF NotFound, Refused, GiveUp, Goto, agents
<1>4. ASSUME Answered(a), users'[a] <= seenUsers[a] \/ (kind = "add" /\ users'[a] <= start[a] + dist[a])
      PROVE  CountInv'
  <2>1. /\ pc' = "send" /\ seenUsers'[a] = users'[a]
        /\ \A b \in Agents : b # a => seenUsers'[b] = seenUsers[b]
    BY <1>1, <1>4 DEF Answered, TypeOK
  <2>2. \A b \in Agents : {users[b], users'[b], seenUsers[b], seenUsers'[b], dist[b], start[b]}
                           \subseteq Nat
    BY UserType DEF TypeOK
  <2>3. \A b \in Agents : users'[b] <= seenUsers'[b]
    BY <1>2, <2>1, <2>2 DEF CountInv
  <2>4. kind = "add" => \A b \in Agents : seenUsers'[b] <= start[b] + dist[b]
    <3> SUFFICES ASSUME kind = "add", NEW b \in Agents PROVE seenUsers'[b] <= start[b] + dist[b]
      OBVIOUS
    <3>1. seenUsers[b] <= start[b] + dist[b]
      BY <1>1 DEF CountInv
    <3> QED BY <1>4, <2>1, <2>2, <3>1
  <2>5. Total(seenUsers') <= MaxActiveUsers
    <3>1. CASE kind = "add"
      BY <1>1, <2>4, <3>1, PlanHolds DEF TypeOK
    <3>2. CASE kind # "add"
      <4>1. \A b \in Agents : seenUsers'[b] <= seenUsers[b]
        BY <1>4, <2>1, <2>2, <3>2
      <4>2. Total(seenUsers') <= Total(seenUsers)
        BY <4>1, TotalMonotone DEF TypeOK
      <4>3. Total(seenUsers) \in Nat /\ Total(seenUsers') \in Nat
        BY TotalType DEF TypeOK
      <4> QED BY <4>2, <4>3 DEF CountInv
    <3> QED BY <3>1, <3>2
  <2> QED BY <1>1, <2>1, <2>3, <2>4, <2>5 DEF CountInv, distVars
<1>5. CASE kind = "add" /\ AddUsers(a)
  <2>1. ~ (dist[a] > AgentMaxUsers - users[a])
    BY <1>1, <1>5, PlanFills
  <2>2. dist[a] \in Nat /\ users[a] \in Nat /\ AgentMaxUsers - users[a] \in Nat /\ start[a] \in Nat
    BY UserType
  <2>3. Smaller(dist[a], AgentMaxUsers - users[a]) = dist[a]
    BY <2>1, <2>2 DEF Smaller
  <2>4. users' = [users EXCEPT ![a] = @ + dist[a]] /\ Answered(a)
    BY <1>5, <2>3 DEF AddUsers, Reply
  <2>5. users[a] <= start[a]
    BY <1>1 DEF CountInv, UserInv
  <2>6. users'[a] <= start[a] + dist[a]
    BY <2>2, <2>4, <2>5 DEF TypeOK
  <2> QED BY <1>4, <1>5, <2>4, <2>6
<1>6. CASE kind = "remove" /\ RemoveUsers(a)
  <2> DEFINE n == Smaller(dist[a], users[a])
  <2>1. n \in Nat /\ users[a] \in Nat /\ seenUsers[a] \in Nat
    BY SmallerInt, UserType
  <2>2. users' = [users EXCEPT ![a] = @ - n] /\ (Answered(a) \/ GiveUp)
    BY <1>6 DEF RemoveUsers, Reply
  <2>3. users'[a] = users[a] - n /\ users[a] <= seenUsers[a]
    BY <2>2 DEF TypeOK, CountInv
  <2> HIDE DEF n
  <2>4. users'[a] <= seenUsers[a] /\ users'[a] \in Int
    BY <2>1, <2>3
  <2>5. CASE GiveUp
    <3>1. pc' = "await" /\ seenUsers' = seenUsers
      BY <2>5 DEF GiveUp, Goto, agents
    <3>2. \A b \in Agents : users'[b] <= seenUsers'[b]
      BY <1>2, <2>4, <3>1 DEF CountInv
    <3> QED BY <3>1, <3>2 DEF CountInv
  <2> QED BY <1>4, <2>2, <2>4, <2>5
<1> QED BY <1>3, <1>5, <1>6 DEF Send

LEMMA CountStep ==
  ASSUME ~ NetworkFails, ~ (Total(Full) <= MaxActiveUsers)
  PROVE  TypeOK /\ CurOK /\ UserInv /\ Idle /\ DivideInv /\ CountInv /\ [Next]_vars => CountInv'
<1> SUFFICES ASSUME TypeOK, CurOK, UserInv, Idle, DivideInv, CountInv, [Next]_vars
             PROVE  CountInv'
  OBVIOUS
<1>0. TypeOK'
  BY TypeStep
<1>1. CASE AllStarted \/ TakeInterrupt \/ LoadTestDone \/ Sent \/ Finish
  BY <1>1, CountQuiet, LeaveEffect DEF AllStarted, TakeInterrupt, LoadTestDone, Sent, Finish, Goto,
     agents, servers
<1>2. ASSUME NEW a \in Agents, StopAgent(a) \/ UserFails(a) \/ ServerRestarts(a) PROVE CountInv'
  <2>1. UNCHANGED <<distVars, seenUsers, active>>
        /\ (pc' = "shutdown" \/ UNCHANGED <<pc, todo>>)
    BY <1>2 DEF StopAgent, UserFails, ServerRestarts, agents
  <2>2. \A b \in Agents : users'[b] = users[b] \/ users'[b] = 0
    BY <1>2 DEF StopAgent, UserFails, ServerRestarts, TypeOK
  <2> QED BY <2>1, <2>2, CountQuiet
<1>3. CASE Interrupt \/ TimePasses \/ Monitoring \/ UNCHANGED vars
  BY <1>3, CountQuiet DEF Interrupt, TimePasses, Monitoring, vars, agents, servers
<1> QED BY <1>0, <1>1, <1>2, <1>3, CountStepStart, CountStepStatus, CountStepDivide, CountStepSend
        DEF Next, RunStep

LEMMA CountFits ==
  ASSUME TypeOK, Total(Full) <= MaxActiveUsers \/ CountInv
  PROVE  UsersWithinMax
<1>1. users \in [Agents -> Nat] /\ Full \in [Agents -> Nat] /\ seenUsers \in [Agents -> Nat]
  BY DEF Full, TypeOK
<1>2. Total(users) <= MaxActiveUsers
  <2>1. CASE Total(Full) <= MaxActiveUsers
    <3>1. \A a \in Agents : users[a] <= Full[a]
      BY DEF Full, TypeOK
    <3> QED BY <1>1, <2>1, <3>1, TotalMonotone, TotalType
  <2>2. CASE CountInv
    BY <1>1, <2>2, TotalMonotone, TotalType DEF CountInv
  <2> QED BY <2>1, <2>2
<1> QED BY <1>2 DEF UsersWithinMax, TotalUsers, Total

(* When every request is answered, there are never more users than         *)
(* MaxActiveUsers across the cluster: whatever servers restart, and also   *)
(* when the agents together have room for more, or for less.               *)
THEOREM NeverTooManyUsers ==
  ASSUME ~ NetworkFails
  PROVE  Spec => []UsersWithinMax
<1>1. Init => CurOK /\ UserInv /\ Idle /\ DivideInv /\ CountInv
  <2> SUFFICES ASSUME Init PROVE CurOK /\ UserInv /\ Idle /\ DivideInv /\ CountInv
    OBVIOUS
  <2>1. CurOK /\ UserInv /\ Idle
    BY DEF Init, Zero, CurOK, UserInv, NeverBelowZero, Idle
  <2>2. Zero \in [Agents -> Nat] /\ Total(Zero) = 0
    BY TotalZero DEF Zero
  <2>3. DivideInv
    BY <2>2 DEF Init, Zero, DivideInv, NeverBelowZero, Even, Chosen, Given
  <2>4. CountInv
    BY <2>2 DEF Init, CountInv, Zero
  <2> QED BY <2>1, <2>3, <2>4
<1>2. CASE Total(Full) <= MaxActiveUsers
  BY <1>2, CountFits, TypeCorrect, PTL
<1>3. CASE ~ (Total(Full) <= MaxActiveUsers)
  <2>1. TypeOK /\ CurOK /\ UserInv /\ Idle /\ DivideInv /\ CountInv /\ [Next]_vars => CountInv'
    BY <1>3, CountStep
  <2> QED BY <1>1, <2>1, CurStep, UserStep, IdleStep, DivideStep, CountFits, TypeCorrect, PTL DEF Spec
<1> QED BY <1>2, <1>3
=============================================================================
