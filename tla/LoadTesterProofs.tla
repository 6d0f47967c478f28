-------------------------- MODULE LoadTesterProofs --------------------------
(* Theorems about LoadTester, for every value of its constants.            *)
EXTENDS LoadTester, TLAPS, FiniteSetTheorems, FunctionTheorems, SequenceTheorems

USE ControllersAssumption, BoundsAssumption

(* The operation in progress, the state and the channels fit together.     *)
Shape ==
  /\ numUsers = Len(active)
  /\ numAdded = numRemoved + numUsers
  /\ Len(active) <= MaxActiveUsers
  /\ op = "run" <=> state = "starting"
  /\ op \in {"stop", "drain"} <=> state = "stopping"
  /\ op \in {"add", "remove"} => state = "running"
  /\ op \in {"remove", "stop"} => todo <= Len(active)
  /\ op = "stop" => todo = Len(active)
  /\ op = "drain" \/ state = "stopped" => Len(active) = 0
  /\ closed = {g \in 1..gen : g < gen \/ state = "stopped"}
  /\ waiting # {} => op \in {"remove", "stop"}
  /\ stopping \subseteq waiting
  /\ state # "stopped" => gen > 0

Inv1 == TypeOK /\ Shape

LEMMA Init1 == Init => Inv1
<1> SUFFICES ASSUME Init PROVE Inv1
  OBVIOUS
<1> USE EmptySeq
<1>1. active \in Seq(Controllers) /\ idle \in Seq(Controllers)
  BY DEF Init
<1>2. buf \in [Gens -> Seq(Status)]
  <2>1. <<>> \in Seq(Status)
    BY EmptySeq
  <2> QED BY <2>1 DEF Init
<1>3. TypeOK
  BY <1>1, <1>2 DEF Init, TypeOK, Gens, States, Ops, Phases
<1>4. Shape
  BY DEF Init, Shape
<1> QED BY <1>3, <1>4 DEF Inv1

LEMMA LastActiveType ==
  ASSUME TypeOK, NEW n \in Nat, n <= Len(active)
  PROVE  LastActive(n) \in SUBSET Controllers
<1> SUFFICES ASSUME NEW i \in (Len(active) - n + 1)..Len(active)
             PROVE  active[i] \in Controllers
  BY DEF LastActive
<1>1. active \in Seq(Controllers)
  BY DEF TypeOK
<1>2. Len(active) \in Nat
  BY <1>1
<1>3. i \in 1..Len(active)
  BY <1>2
<1> QED BY <1>1, <1>3

LEMMA Step1 == Inv1 /\ [Next]_vars => Inv1'
<1> SUFFICES ASSUME Inv1, [Next]_vars PROVE Inv1'
  OBVIOUS
<1> USE DEF opVars, lifeVars, sendVars, tally, counters
<1>0. TypeOK /\ Shape
  BY DEF Inv1
<1>1. CASE Run
  <2>1. TypeOK'
    BY <1>0, <1>1 DEF Run, TypeOK, Gens, States, Ops
  <2>2. Shape'
    BY <1>0, <1>1 DEF Run, TypeOK, Shape, Gens
  <2> QED BY <2>1, <2>2 DEF Inv1
<1>2. CASE RunDone
  BY <1>0, <1>2 DEF RunDone, Inv1, TypeOK, Shape, States, Ops
<1>3. CASE AddUsersDone
  BY <1>0, <1>3 DEF AddUsersDone, Inv1, TypeOK, Shape, States, Ops
<1>4. ASSUME NEW n \in 1..(MaxActiveUsers + 1), AddUsers(n) PROVE Inv1'
  BY <1>0, <1>4 DEF AddUsers, Inv1, TypeOK, Shape, States, Ops
<1>5. CASE AddUserAtMax
  BY <1>0, <1>5 DEF AddUserAtMax, Adding, AddFailed, Inv1, TypeOK, Shape, States, Ops
<1>6. CASE AddIdleUser
  <2>1. Head(idle) \in Controllers /\ idle' \in Seq(Controllers)
    BY <1>0, <1>6, HeadTailProperties DEF AddIdleUser, TypeOK
  <2>2. active' \in Seq(Controllers) /\ Len(active') = Len(active) + 1
    BY <1>0, <1>6, <2>1, AppendProperties DEF AddIdleUser, Launch, TypeOK
  <2>3. TypeOK'
    BY <1>0, <1>6, <2>1, <2>2 DEF AddIdleUser, Adding, Launch, TypeOK, Phases
  <2>4. /\ Len(active) < MaxActiveUsers
        /\ op \in {"run", "add"}
        /\ numUsers' = numUsers + 1
        /\ numAdded' = numAdded + 1
        /\ UNCHANGED <<numRemoved, state, op, waiting, gen, closed, stopping>>
    BY <1>0, <1>6 DEF AddIdleUser, Adding, Launch, TypeOK, Shape
  <2>5. Len(active) \in Nat /\ numAdded \in Nat /\ numRemoved \in Nat
    BY <1>0 DEF TypeOK
  <2>6. Shape'
    BY <1>0, <2>2, <2>4, <2>5 DEF Shape
  <2> QED BY <2>3, <2>6 DEF Inv1
<1>7. ASSUME NEW c \in Controllers, AddNewUser(c) PROVE Inv1'
  <2>1. active' \in Seq(Controllers) /\ Len(active') = Len(active) + 1
    BY <1>0, <1>7, AppendProperties DEF AddNewUser, Launch, TypeOK
  <2>2. userOf' \in [Controllers -> Nat]
    <3>1. Len(active) \in Nat
      BY <1>0 DEF TypeOK
    <3>2. NewUserIds \subseteq Nat
      BY <3>1 DEF NewUserIds
    <3> QED BY <1>0, <1>7, <3>2 DEF AddNewUser, TypeOK
  <2>3. TypeOK'
    BY <1>0, <1>7, <2>1, <2>2 DEF AddNewUser, Adding, Launch, TypeOK, Phases
  <2>4. Shape'
    BY <1>0, <1>7, <2>1 DEF AddNewUser, Adding, Launch, TypeOK, Shape
  <2> QED BY <2>3, <2>4 DEF Inv1
<1>8. CASE AddNewUserFails
  BY <1>0, <1>8 DEF AddNewUserFails, Adding, AddFailed, Inv1, TypeOK, Shape, States, Ops
<1>9. ASSUME NEW n \in 1..(MaxActiveUsers + 1), RemoveUsers(n) PROVE Inv1'
  <2> DEFINE k == IF n > Len(active) THEN Len(active) ELSE n
  <2>1. k \in Nat /\ k <= Len(active)
    BY <1>0 DEF TypeOK
  <2>2. LastActive(k) \in SUBSET Controllers
    BY <1>0, <2>1, LastActiveType
  <2> HIDE DEF k
  <2>3. todo' = k /\ waiting' = LastActive(k)
    BY <1>9 DEF RemoveUsers, k
  <2>4. TypeOK'
    BY <1>0, <1>9, <2>1, <2>2, <2>3 DEF RemoveUsers, TypeOK, Ops
  <2>5. Shape'
    BY <1>0, <1>9, <2>1, <2>3 DEF RemoveUsers, TypeOK, Shape
  <2> QED BY <2>4, <2>5 DEF Inv1
<1>10. CASE Stop
  <2>1. Len(active) \in Nat
    BY <1>0 DEF TypeOK
  <2>2. LastActive(Len(active)) \in SUBSET Controllers
    BY <1>0, <2>1, LastActiveType
  <2>3. TypeOK'
    BY <1>0, <1>10, <2>1, <2>2 DEF Stop, TypeOK, States, Ops
  <2>4. Shape'
    BY <1>0, <1>10, <2>1 DEF Stop, TypeOK, Shape
  <2> QED BY <2>3, <2>4 DEF Inv1
<1>11. ASSUME NEW c \in Controllers, CloseStopChan(c) PROVE Inv1'
  BY <1>0, <1>11 DEF CloseStopChan, Inv1, TypeOK, Shape
<1>12. ASSUME NEW c \in Controllers, StopReturns(c) PROVE Inv1'
  BY <1>0, <1>12 DEF StopReturns, Inv1, TypeOK, Shape, Phases
<1>13. CASE RemoveDone
  <2> DEFINE kept == SubSeq(active, 1, Len(active) - todo)
             gone == SubSeq(active, Len(active) - todo + 1, Len(active))
  <2>1. todo \in 0..Len(active) /\ Len(active) \in Nat /\ active \in Seq(Controllers)
    BY <1>0, <1>13 DEF RemoveDone, TypeOK, Shape
  <2>2. kept \in Seq(Controllers) /\ Len(kept) = Len(active) - todo
    <3>1. \A i \in 1..(Len(active) - todo) : active[i] \in Controllers
      BY <2>1
    <3> QED BY <2>1, <3>1, SubSeqProperties
  <2>3. gone \in Seq(Controllers)
    <3>1. \A i \in (Len(active) - todo + 1)..Len(active) : active[i] \in Controllers
      BY <2>1
    <3> QED BY <2>1, <3>1, SubSeqProperties
  <2>4. idle' \in Seq(Controllers)
    BY <1>0, <1>13, <2>3, ConcatProperties DEF RemoveDone, TypeOK
  <2>5. active' = kept
    BY <1>13 DEF RemoveDone
  <2> HIDE DEF kept, gone
  <2>6. numUsers' \in Nat /\ numRemoved' \in Nat
    BY <1>0, <1>13, <2>1 DEF RemoveDone, TypeOK, Shape
  <2>7. TypeOK'
    BY <1>0, <1>13, <2>2, <2>4, <2>5, <2>6 DEF RemoveDone, TypeOK, Ops
  <2>8. /\ numUsers' = Len(active')
        /\ numAdded' = numRemoved' + numUsers'
        /\ Len(active') <= MaxActiveUsers
        /\ op' = "drain" => Len(active') = 0
        /\ state # "stopped"
    <3>1. numAdded \in Nat /\ numRemoved \in Nat
      BY <1>0 DEF TypeOK
    <3>2. /\ numUsers' = numUsers - todo
          /\ numRemoved' = numRemoved + todo
          /\ numAdded' = numAdded
          /\ op' = "drain" => op = "stop"
          /\ op \in {"remove", "stop"}
      BY <1>13 DEF RemoveDone
    <3> QED BY <1>0, <2>1, <2>2, <2>5, <3>1, <3>2 DEF Shape
  <2>9. Shape'
    BY <1>0, <1>13, <2>8 DEF RemoveDone, Shape
  <2> QED BY <2>7, <2>9 DEF Inv1
<1>14. CASE StopDone
  <2>1. gen \in 1..MaxRuns
    BY <1>0, <1>14 DEF StopDone, TypeOK, Shape, Gens
  <2>2. TypeOK'
    BY <1>0, <1>14 DEF StopDone, TypeOK, States, Ops
  <2>3. closed' = {g \in 1..gen' : g < gen' \/ state' = "stopped"}
    <3>1. closed = {g \in 1..gen : g < gen}
      BY <1>0, <1>14 DEF StopDone, Shape
    <3> QED BY <1>14, <2>1, <3>1 DEF StopDone
  <2>4. Shape'
    BY <1>0, <1>14, <2>3 DEF StopDone, TypeOK, Shape
  <2> QED BY <2>2, <2>4 DEF Inv1
<1>15. ASSUME NEW c \in Controllers, ControllerStep(c) PROVE Inv1'
  <2>1. buf' \in [Gens -> Seq(Status)]
    <3>1. ASSUME NEW code \in Codes, Send(c, code) PROVE buf' \in [Gens -> Seq(Status)]
      <4>1. [from |-> c, code |-> code] \in Status
        BY DEF Status
      <4>2. chanOf[c] \in Gens /\ buf[chanOf[c]] \in Seq(Status)
        BY <1>0 DEF TypeOK
      <4>3. Append(buf[chanOf[c]], [from |-> c, code |-> code]) \in Seq(Status)
        BY <4>1, <4>2, AppendProperties
      <4> QED BY <1>0, <3>1, <4>3 DEF Send, TypeOK
    <3>2. UNCHANGED buf => buf' \in [Gens -> Seq(Status)]
      BY <1>0 DEF TypeOK
    <3>3. UNCHANGED buf \/ \E code \in Codes : Send(c, code)
      BY <1>15 DEF ControllerStep, UserStarted, UserInfo, UserError, UserLeaves,
         UserStopped, SendOnClosedPanics, Codes
    <3> QED BY <3>1, <3>2, <3>3
  <2>2. phase' \in [Controllers -> Phases] /\ errorsSent' \in Nat /\ crashed' \in BOOLEAN
    <3> USE <1>0 DEF TypeOK, Phases, Send
    <3>1. CASE UserStarted(c)
      BY <3>1 DEF UserStarted
    <3>2. CASE UserInfo(c)
      BY <3>2 DEF UserInfo
    <3>3. CASE UserError(c)
      BY <3>3 DEF UserError
    <3>4. CASE UserLeaves(c)
      BY <3>4 DEF UserLeaves
    <3>5. CASE UserStopped(c)
      BY <3>5 DEF UserStopped
    <3>6. CASE SendOnClosedPanics(c)
      BY <3>6 DEF SendOnClosedPanics
    <3> QED BY <1>15, <3>1, <3>2, <3>3, <3>4, <3>5, <3>6 DEF ControllerStep
  <2>3. UNCHANGED <<opVars, active, idle, stopping, userOf, chanOf, tally, counters>>
    BY <1>15 DEF ControllerStep, UserStarted, UserInfo, UserError, UserLeaves, UserStopped,
       SendOnClosedPanics
  <2>4. TypeOK'
    BY <1>0, <2>1, <2>2, <2>3 DEF TypeOK
  <2>5. Shape'
    BY <1>0, <2>3 DEF Shape
  <2> QED BY <2>4, <2>5 DEF Inv1
<1>16. ASSUME NEW g \in Gens, HandleStatus(g) PROVE Inv1'
  <2>1. Tail(buf[g]) \in Seq(Status)
    BY <1>0, <1>16, HeadTailProperties DEF HandleStatus, TypeOK
  <2>2. buf' \in [Gens -> Seq(Status)]
    BY <1>0, <1>16, <2>1 DEF HandleStatus, TypeOK
  <2>3. wg' \in Int /\ numStopped' \in Nat /\ numErrors' \in Nat
    BY <1>0, <1>16 DEF HandleStatus, TypeOK
  <2>4. TypeOK'
    BY <1>0, <1>16, <2>2, <2>3 DEF HandleStatus, TypeOK
  <2>5. Shape'
    BY <1>0, <1>16 DEF HandleStatus, Shape
  <2> QED BY <2>4, <2>5 DEF Inv1
<1>17. CASE UNCHANGED vars
  BY <1>0, <1>17 DEF vars, Inv1, TypeOK, Shape
<1> QED
  BY <1>1, <1>2, <1>3, <1>4, <1>5, <1>6, <1>7, <1>8, <1>9, <1>10, <1>11, <1>12, <1>13, <1>14,
     <1>15, <1>16, <1>17 DEF Next, LockHolderStep, Ended

(* Every variable keeps its type.                                          *)
THEOREM TypeCorrect == Spec => []TypeOK
<1>1. Spec => []Inv1
  BY Init1, Step1, PTL DEF Spec
<1> QED BY <1>1, PTL DEF Inv1

-----------------------------------------------------------------------------
(* Which controllers the two lists hold, and in which phase they are: an   *)
(* idle one is not running, nobody is in the lists twice, and the ones     *)
(* that removeUsers is done with are idle already.                         *)
Members ==
  /\ \A i \in 1..Len(idle) : phase[idle[i]] = "idle"
  /\ \A i \in 1..Len(active) : phase[active[i]] # "unborn"
  /\ \A i, j \in 1..Len(idle) : idle[i] = idle[j] => i = j
  /\ \A i, j \in 1..Len(active) : active[i] = active[j] => i = j
  /\ \A i \in 1..Len(idle), j \in 1..Len(active) : idle[i] # active[j]
  /\ op \in {"remove", "stop"} =>
       \A i \in (Len(active) - todo + 1)..Len(active) :
         active[i] \in waiting \/ phase[active[i]] = "idle"
  /\ \A c \in Controllers : phase[c] # "unborn" => chanOf[c] \in 1..gen

LEMMA Init2 == Init => Members
BY DEF Init, Members

LEMMA Step2 == Inv1 /\ Members /\ [Next]_vars => Members'
<1> SUFFICES ASSUME Inv1, Members, [Next]_vars PROVE Members'
  OBVIOUS
<1> USE DEF opVars, lifeVars, sendVars, tally, counters
<1>0. /\ Len(active) \in Nat /\ active \in Seq(Controllers)
      /\ Len(idle) \in Nat /\ idle \in Seq(Controllers)
      /\ phase \in [Controllers -> Phases] /\ chanOf \in [Controllers -> Gens]
      /\ todo \in Nat /\ gen \in Nat
      /\ \A i \in 1..Len(active) : active[i] \in Controllers
      /\ \A i \in 1..Len(idle) : idle[i] \in Controllers
  BY DEF Inv1, TypeOK, Gens
<1>a. \A i, j \in 1..Len(active) : active[i] = active[j] => i = j
  BY DEF Members
<1>b. \A i, j \in 1..Len(idle) : idle[i] = idle[j] => i = j
  BY DEF Members
<1>c. \A i \in 1..Len(idle), j \in 1..Len(active) : idle[i] # active[j]
  BY DEF Members
<1>1. CASE UNCHANGED <<active, idle, phase, chanOf, gen>> /\ op' \notin {"remove", "stop"}
  BY <1>1 DEF Members
<1>2. CASE Run
  <2>1. UNCHANGED <<active, idle, phase, chanOf>> /\ op' = "run" /\ gen' = gen + 1
    BY <1>2 DEF Run
  <2>2. \A c \in Controllers : phase'[c] # "unborn" => chanOf'[c] \in 1..gen'
    BY <1>0, <2>1 DEF Members
  <2> QED BY <2>1, <2>2 DEF Members
<1>3. CASE AddIdleUser
  <2>1. /\ idle # <<>> /\ op' \notin {"remove", "stop"}
        /\ idle' = Tail(idle) /\ active' = Append(active, Head(idle))
        /\ phase' = [phase EXCEPT ![Head(idle)] = "starting"]
        /\ UNCHANGED <<chanOf, gen>>
    BY <1>3 DEF AddIdleUser, Adding, Launch
  <2>2. /\ Head(idle) = idle[1] /\ 1 \in 1..Len(idle) /\ Len(idle') = Len(idle) - 1
        /\ \A i \in 1..Len(idle') : idle'[i] = idle[i + 1]
    BY <1>0, <2>1, HeadTailProperties
  <2>3. /\ Len(active') = Len(active) + 1
        /\ \A i \in 1..Len(active') :
             active'[i] = IF i <= Len(active) THEN active[i] ELSE idle[1]
    BY <1>0, <2>1, <2>2, AppendProperties
  <2>4. \A i \in 1..Len(idle') : phase'[idle'[i]] = "idle"
    BY <1>0, <2>1, <2>2 DEF Members
  <2>5. \A i \in 1..Len(active') : phase'[active'[i]] # "unborn"
    BY <1>0, <2>1, <2>2, <2>3 DEF Members
  <2>6. \A i, j \in 1..Len(idle') : idle'[i] = idle'[j] => i = j
    BY <1>0, <2>2 DEF Members
  <2>7. \A i, j \in 1..Len(active') : active'[i] = active'[j] => i = j
    <3> SUFFICES ASSUME NEW i \in 1..Len(active'), NEW j \in 1..Len(active'),
                        active'[i] = active'[j]
                 PROVE  i = j
      OBVIOUS
    <3>1. CASE i <= Len(active) /\ j <= Len(active)
      BY <1>0, <1>a, <2>3, <3>1
    <3>2. CASE i > Len(active) /\ j > Len(active)
      BY <1>0, <2>3, <3>2
    <3>3. CASE i <= Len(active) /\ j > Len(active)
      <4>1. i \in 1..Len(active) /\ active'[i] = active[i] /\ active'[j] = idle[1]
        BY <1>0, <2>3, <3>3
      <4> QED BY <1>c, <2>2, <4>1
    <3>4. CASE i > Len(active) /\ j <= Len(active)
      BY <1>0, <1>c, <2>2, <2>3, <3>4
    <3> QED BY <1>0, <2>3, <3>1, <3>2, <3>3, <3>4
  <2>8. \A i \in 1..Len(idle'), j \in 1..Len(active') : idle'[i] # active'[j]
    <3> SUFFICES ASSUME NEW i \in 1..Len(idle'), NEW j \in 1..Len(active')
                 PROVE  idle'[i] # active'[j]
      OBVIOUS
    <3>1. i + 1 \in 1..Len(idle) /\ idle'[i] = idle[i + 1]
      BY <1>0, <2>2
    <3>2. CASE j <= Len(active)
      BY <1>0, <1>c, <2>3, <3>1, <3>2
    <3>3. CASE j > Len(active)
      BY <1>0, <1>b, <2>2, <2>3, <3>1, <3>3
    <3> QED BY <1>0, <2>3, <3>2, <3>3
  <2>9. \A c \in Controllers : phase'[c] # "unborn" => chanOf'[c] \in 1..gen'
    BY <1>0, <2>1, <2>2 DEF Members
  <2> QED BY <2>1, <2>4, <2>5, <2>6, <2>7, <2>8, <2>9 DEF Members
<1>4. ASSUME NEW c \in Controllers, AddNewUser(c) PROVE Members'
  <2>1. /\ idle = <<>> /\ idle' = idle /\ op' \notin {"remove", "stop"}
        /\ phase[c] = "unborn" /\ active' = Append(active, c)
        /\ phase' = [phase EXCEPT ![c] = "starting"]
        /\ chanOf' = [chanOf EXCEPT ![c] = gen] /\ gen' = gen
    BY <1>4 DEF AddNewUser, Adding, Launch
  <2>2. /\ Len(active') = Len(active) + 1
        /\ \A i \in 1..Len(active') :
             active'[i] = IF i <= Len(active) THEN active[i] ELSE c
    BY <1>0, <2>1, AppendProperties
  <2>3. Len(idle') = 0
    BY <2>1
  <2>4. gen \in 1..gen
    BY <1>0, <1>4 DEF AddNewUser, Adding, Inv1, Shape
  <2>5. \A i \in 1..Len(active') : phase'[active'[i]] # "unborn"
    BY <1>0, <2>1, <2>2 DEF Members
  <2>6. \A i, j \in 1..Len(active') : active'[i] = active'[j] => i = j
    BY <1>0, <2>1, <2>2 DEF Members
  <2>7. \A d \in Controllers : phase'[d] # "unborn" => chanOf'[d] \in 1..gen'
    BY <1>0, <2>1, <2>4 DEF Members
  <2> QED BY <2>1, <2>3, <2>5, <2>6, <2>7 DEF Members
<1>5. ASSUME NEW n \in 1..(MaxActiveUsers + 1), RemoveUsers(n) PROVE Members'
  BY <1>0, <1>5 DEF RemoveUsers, LastActive, Members
<1>6. CASE Stop
  BY <1>0, <1>6 DEF Stop, LastActive, Members
<1>7. ASSUME NEW c \in Controllers, CloseStopChan(c) PROVE Members'
  BY <1>7 DEF CloseStopChan, Members
<1>8. ASSUME NEW c \in Controllers, StopReturns(c) PROVE Members'
  <2>1. \A d \in Controllers : phase'[d] = IF d = c THEN "idle" ELSE phase[d]
    BY <1>0, <1>8 DEF StopReturns
  <2>2. phase[c] = "stopped" /\ waiting' = waiting \ {c}
    BY <1>8 DEF StopReturns
  <2>3. UNCHANGED <<op, todo, active, idle, chanOf, gen>>
    BY <1>8 DEF StopReturns
  <2>4. op' \in {"remove", "stop"} =>
          \A i \in (Len(active') - todo' + 1)..Len(active') :
            active'[i] \in waiting' \/ phase'[active'[i]] = "idle"
    <3> SUFFICES ASSUME op \in {"remove", "stop"}, NEW i \in (Len(active) - todo + 1)..Len(active)
                 PROVE  active[i] \in waiting' \/ phase'[active[i]] = "idle"
      BY <2>3
    <3>1. i \in 1..Len(active)
      BY <1>0, <1>8 DEF StopReturns, Inv1, Shape
    <3>2. active[i] \in waiting \/ phase[active[i]] = "idle"
      BY DEF Members
    <3> QED BY <1>0, <2>1, <2>2, <3>1, <3>2
  <2>5. /\ \A i \in 1..Len(idle) : phase'[idle[i]] = "idle"
        /\ \A i \in 1..Len(active) : phase'[active[i]] # "unborn"
        /\ \A d \in Controllers : phase'[d] # "unborn" => chanOf'[d] \in 1..gen'
    BY <1>0, <2>1, <2>2, <2>3 DEF Members
  <2> QED BY <1>a, <1>b, <1>c, <2>3, <2>4, <2>5 DEF Members
<1>9. CASE RemoveDone
  <2> DEFINE m == Len(active) - todo
             gone == SubSeq(active, m + 1, Len(active))
  <2>1. m \in Nat /\ op \in {"remove", "stop"} /\ op' \notin {"remove", "stop"} /\ waiting = {}
    BY <1>0, <1>9 DEF RemoveDone, Inv1, Shape
  <2>2. UNCHANGED <<phase, chanOf, gen>>
    BY <1>9 DEF RemoveDone
  <2>3. Len(active') = m /\ \A i \in 1..m : active'[i] = active[i]
    <3>1. \A i \in 1..m : active[i] \in Controllers
      BY <1>0, <2>1
    <3>2. active' = SubSeq(active, 1, m)
      BY <1>9 DEF RemoveDone
    <3> QED BY <1>0, <2>1, <3>1, <3>2, SubSeqProperties
  <2>4. /\ gone \in Seq(Controllers) /\ Len(gone) = todo
        /\ \A i \in 1..todo : gone[i] = active[m + i]
    <3>1. \A i \in (m + 1)..Len(active) : active[i] \in Controllers
      BY <1>0, <2>1
    <3> QED BY <1>0, <2>1, <3>1, SubSeqProperties
  <2>5. /\ Len(idle') = Len(idle) + todo
        /\ \A i \in 1..Len(idle') :
             idle'[i] = IF i <= Len(idle) THEN idle[i] ELSE active[m + (i - Len(idle))]
    <3>1. idle' = idle \o gone
      BY <1>9 DEF RemoveDone
    <3> HIDE DEF gone, m
    <3>2. /\ Len(idle') = Len(idle) + Len(gone)
          /\ \A i \in 1..(Len(idle) + Len(gone)) :
               idle'[i] = IF i <= Len(idle) THEN idle[i] ELSE gone[i - Len(idle)]
      BY <1>0, <2>4, <3>1, ConcatProperties
    <3>3. \A i \in 1..Len(idle') : i > Len(idle) => i - Len(idle) \in 1..todo
      BY <1>0, <2>4, <3>2
    <3> QED BY <1>0, <2>4, <3>2, <3>3
  <2>6. \A i \in 1..Len(idle') : i > Len(idle) =>
          m + (i - Len(idle)) \in (m + 1)..Len(active)
    BY <1>0, <2>1, <2>5
  <2> HIDE DEF gone
  <2>7. \A i \in 1..Len(idle') : phase'[idle'[i]] = "idle"
    BY <1>0, <2>1, <2>2, <2>5, <2>6 DEF Members
  <2>8. \A i, j \in 1..Len(idle') : idle'[i] = idle'[j] => i = j
    <3> SUFFICES ASSUME NEW i \in 1..Len(idle'), NEW j \in 1..Len(idle'), idle'[i] = idle'[j]
                 PROVE  i = j
      OBVIOUS
    <3>1. CASE i <= Len(idle) /\ j <= Len(idle)
      BY <1>0, <1>b, <2>5, <3>1
    <3>2. CASE i > Len(idle) /\ j > Len(idle)
      <4>1. m + (i - Len(idle)) \in 1..Len(active) /\ m + (j - Len(idle)) \in 1..Len(active)
        BY <1>0, <2>1, <2>6, <3>2
      <4>2. idle'[i] = active[m + (i - Len(idle))] /\ idle'[j] = active[m + (j - Len(idle))]
        BY <1>0, <2>5, <3>2
      <4>3. m + (i - Len(idle)) = m + (j - Len(idle))
        BY <1>a, <4>1, <4>2
      <4> QED BY <1>0, <2>1, <4>3
    <3>3. ASSUME NEW u \in 1..Len(idle'), NEW v \in 1..Len(idle'), u <= Len(idle), v > Len(idle)
          PROVE  idle'[u] # idle'[v]
      <4>1. m + (v - Len(idle)) \in 1..Len(active) /\ u \in 1..Len(idle)
        BY <1>0, <2>1, <2>6, <3>3
      <4>2. idle'[u] = idle[u] /\ idle'[v] = active[m + (v - Len(idle))]
        BY <1>0, <2>5, <3>3
      <4> QED BY <1>c, <4>1, <4>2
    <3> QED BY <1>0, <2>5, <3>1, <3>2, <3>3
  <2>9. \A i \in 1..Len(idle'), j \in 1..Len(active') : idle'[i] # active'[j]
    <3> SUFFICES ASSUME NEW i \in 1..Len(idle'), NEW j \in 1..Len(active')
                 PROVE  idle'[i] # active'[j]
      OBVIOUS
    <3>1. j \in 1..Len(active) /\ j <= m /\ active'[j] = active[j]
      BY <1>0, <2>1, <2>3
    <3>2. CASE i <= Len(idle)
      <4>1. i \in 1..Len(idle) /\ idle'[i] = idle[i]
        BY <1>0, <2>5, <3>2
      <4> QED BY <1>c, <3>1, <4>1
    <3>3. CASE i > Len(idle)
      <4>1. /\ m + (i - Len(idle)) \in 1..Len(active)
            /\ m + (i - Len(idle)) > m
            /\ idle'[i] = active[m + (i - Len(idle))]
        BY <1>0, <2>1, <2>5, <2>6, <3>3
      <4>2. m + (i - Len(idle)) # j
        BY <2>1, <3>1, <4>1
      <4> QED BY <1>a, <3>1, <4>1, <4>2
    <3> QED BY <1>0, <2>5, <3>2, <3>3
  <2>10. \A i \in 1..Len(active') : i \in 1..Len(active) /\ active'[i] = active[i]
    BY <1>0, <2>1, <2>3
  <2>11. \A i \in 1..Len(active') : phase'[active'[i]] # "unborn"
    BY <2>2, <2>10 DEF Members
  <2>12. \A i, j \in 1..Len(active') : active'[i] = active'[j] => i = j
    BY <1>a, <2>10
  <2>13. \A c \in Controllers : phase'[c] # "unborn" => chanOf'[c] \in 1..gen'
    BY <2>2 DEF Members
  <2> QED BY <2>1, <2>7, <2>8, <2>9, <2>11, <2>12, <2>13 DEF Members
<1>10. ASSUME NEW c \in Controllers, ControllerStep(c) PROVE Members'
  <2>1. \A d \in Controllers : phase'[d] # phase[d] =>
          /\ phase[d] \in {"starting", "running", "leaving"}
          /\ phase'[d] # "unborn"
    BY <1>0, <1>10 DEF ControllerStep, UserStarted, UserInfo, UserError, UserLeaves,
       UserStopped, SendOnClosedPanics
  <2>2. UNCHANGED <<op, todo, waiting, active, idle, chanOf, gen>>
    BY <1>10 DEF ControllerStep, UserStarted, UserInfo, UserError, UserLeaves, UserStopped,
       SendOnClosedPanics
  <2>3. op' \in {"remove", "stop"} =>
          \A i \in (Len(active') - todo' + 1)..Len(active') :
            active'[i] \in waiting' \/ phase'[active'[i]] = "idle"
    <3> SUFFICES ASSUME op \in {"remove", "stop"}, NEW i \in (Len(active) - todo + 1)..Len(active)
                 PROVE  active[i] \in waiting \/ phase'[active[i]] = "idle"
      BY <2>2
    <3>1. i \in 1..Len(active)
      BY <1>0 DEF Inv1, Shape
    <3>2. active[i] \in waiting \/ phase[active[i]] = "idle"
      BY DEF Members
    <3> QED BY <1>0, <2>1, <3>1, <3>2
  <2>4. /\ \A i \in 1..Len(idle) : phase'[idle[i]] = "idle"
        /\ \A i \in 1..Len(active) : phase'[active[i]] # "unborn"
        /\ \A d \in Controllers : phase'[d] # "unborn" => chanOf'[d] \in 1..gen'
    BY <1>0, <2>1, <2>2 DEF Members
  <2> QED BY <1>a, <1>b, <1>c, <2>2, <2>3, <2>4 DEF Members
<1>11. ASSUME NEW g \in Gens, HandleStatus(g) PROVE Members'
  BY <1>11 DEF HandleStatus, Members
<1>12. CASE UNCHANGED vars
  BY <1>12 DEF vars, Members
<1>13. RunDone \/ AddUsersDone \/ AddUserAtMax \/ AddNewUserFails \/ StopDone => Members'
  BY <1>1 DEF RunDone, AddUsersDone, AddUserAtMax, AddNewUserFails, StopDone, Adding
<1>14. \A n \in 1..(MaxActiveUsers + 1) : AddUsers(n) => Members'
  BY <1>1 DEF AddUsers
<1> QED
  BY <1>2, <1>3, <1>4, <1>5, <1>6, <1>7, <1>8, <1>9, <1>10, <1>11, <1>12, <1>13, <1>14
     DEF Next, LockHolderStep, Ended

THEOREM MembersInvariant == Spec => [](Inv1 /\ Members)
<1>1. Init => Inv1 /\ Members
  BY Init1, Init2
<1>2. (Inv1 /\ Members) /\ [Next]_vars => (Inv1 /\ Members)'
  BY Step1, Step2
<1> QED BY <1>1, <1>2, PTL DEF Spec

-----------------------------------------------------------------------------
(* Counting the statuses of one code in a channel.                         *)

LEMMA CountType ==
  ASSUME NEW s \in Seq(Status), NEW k
  PROVE  /\ IsFiniteSet({i \in 1..Len(s) : s[i].code = k})
         /\ CountOf(s, k) \in Nat
<1>1. Len(s) \in Nat
  BY LenProperties
<1>2. IsFiniteSet(1..Len(s))
  BY <1>1, FS_Interval
<1>3. IsFiniteSet({i \in 1..Len(s) : s[i].code = k})
  BY <1>2, FS_Subset
<1> QED BY <1>3, FS_CardinalityType DEF CountOf

LEMMA CountEmpty ==
  ASSUME NEW k
  PROVE  CountOf(<<>>, k) = 0
<1>1. {i \in 1..Len(<<>>) : <<>>[i].code = k} = {}
  BY EmptySeq
<1> QED BY <1>1, FS_EmptySet DEF CountOf

LEMMA CountAppend ==
  ASSUME NEW s \in Seq(Status), NEW m \in Status, NEW k
  PROVE  CountOf(Append(s, m), k) = CountOf(s, k) + IF m.code = k THEN 1 ELSE 0
<1> DEFINE t == Append(s, m)
           S == {i \in 1..Len(s) : s[i].code = k}
           T == {i \in 1..Len(t) : t[i].code = k}
<1>1. /\ Len(s) \in Nat /\ Len(t) = Len(s) + 1
      /\ \A i \in 1..Len(s) : t[i] = s[i]
      /\ t[Len(s) + 1] = m
  BY AppendProperties, LenProperties
<1>a. CountOf(s, k) = Cardinality(S) /\ CountOf(t, k) = Cardinality(T)
  BY DEF CountOf
<1>b. IsFiniteSet(S)
  BY CountType
<1>c. Cardinality(S) \in Nat
  BY <1>b, FS_CardinalityType
<1>2. Len(s) + 1 \notin S
  BY <1>1
<1>3. CASE m.code = k
  <2>1. T = S \union {Len(s) + 1}
    BY <1>1, <1>3
  <2>2. Cardinality(T) = Cardinality(S) + 1
    BY <1>b, <1>2, <2>1, FS_AddElement
  <2> HIDE DEF S, T
  <2> QED BY <1>3, <1>a, <2>2
<1>4. CASE m.code # k
  <2>1. T = S
    BY <1>1, <1>4
  <2> HIDE DEF S, T
  <2> QED BY <1>4, <1>a, <1>c, <2>1
<1> QED BY <1>3, <1>4

LEMMA CountTail ==
  ASSUME NEW s \in Seq(Status), s # <<>>, NEW k
  PROVE  CountOf(s, k) = CountOf(Tail(s), k) + IF Head(s).code = k THEN 1 ELSE 0
<1> DEFINE t == Tail(s)
           S == {i \in 1..Len(s) : s[i].code = k}
           T == {i \in 1..Len(t) : t[i].code = k}
           R == {i \in S : i # 1}
           f == [i \in T |-> i + 1]
<1>1. /\ Len(s) \in Nat /\ Len(s) > 0 /\ t \in Seq(Status) /\ Len(t) = Len(s) - 1
      /\ \A i \in 1..Len(t) : t[i] = s[i + 1]
      /\ Head(s) = s[1]
  BY HeadTailProperties, LenProperties, EmptySeq
<1>a. CountOf(s, k) = Cardinality(S) /\ CountOf(t, k) = Cardinality(T)
  BY DEF CountOf
<1>2. IsFiniteSet(S) /\ IsFiniteSet(T) /\ IsFiniteSet(R)
  <2>1. IsFiniteSet(S)
    BY CountType
  <2>2. IsFiniteSet(T)
    BY <1>1, CountType
  <2>3. R \in SUBSET S
    OBVIOUS
  <2>4. IsFiniteSet(R)
    BY <2>1, <2>3, FS_Subset
  <2> QED BY <2>1, <2>2, <2>4
<1>3. f \in Bijection(T, R)
  <2>1. f \in [T -> R]
    BY <1>1
  <2>2. \A a, b \in T : f[a] = f[b] => a = b
    BY <1>1
  <2>3. \A r \in R : \E a \in T : f[a] = r
    <3>1. ASSUME NEW r \in R PROVE r - 1 \in T /\ f[r - 1] = r
      BY <1>1
    <3> QED BY <3>1
  <2> QED BY <2>1, <2>2, <2>3, Fun_IsBij
<1>4. Cardinality(R) = Cardinality(T)
  <2>1. ExistsBijection(T, R)
    BY <1>3 DEF ExistsBijection
  <2> HIDE DEF T, R, f
  <2> QED BY <1>2, <2>1, FS_Bijection
<1>5. Cardinality(T) \in Nat
  BY <1>2, FS_CardinalityType
<1>6. CASE Head(s).code = k
  <2>1. S = R \union {1} /\ 1 \notin R
    BY <1>1, <1>6
  <2>2. Cardinality(S) = Cardinality(R) + 1
    BY <1>2, <2>1, FS_AddElement
  <2> HIDE DEF S, T, R
  <2> QED BY <1>4, <1>5, <1>6, <1>a, <2>2
<1>7. CASE Head(s).code # k
  <2>1. S = R
    BY <1>1, <1>7
  <2> HIDE DEF S, T, R
  <2> QED BY <1>4, <1>5, <1>7, <1>a, <2>1
<1> QED BY <1>6, <1>7

LEMMA CountZero ==
  ASSUME NEW s \in Seq(Status), NEW k, CountOf(s, k) = 0
  PROVE  \A i \in 1..Len(s) : s[i].code # k
<1> DEFINE S == {i \in 1..Len(s) : s[i].code = k}
<1>1. IsFiniteSet(S) /\ Cardinality(S) = 0
  BY CountType DEF CountOf
<1>2. S = {}
  <2> HIDE DEF S
  <2> QED BY <1>1, FS_EmptySet
<1> QED BY <1>2

-----------------------------------------------------------------------------
(* The wait group, the counters of the status and the channels fit         *)
(* together.  The last conjunct of Drained is what makes lt.wg.Wait enough *)
(* for Stop: whatever is in the channel comes before a STOPPED that is in  *)
(* it too, or was sent by a controller that will send one.                 *)
Counters ==
  /\ wg = Cardinality(Live) + CountOf(buf[gen], "stopped")
  /\ numStopped + wg = numAdded
  /\ numErrors + CountOf(buf[gen], "error") = errorsSent

Drained ==
  /\ \A g \in Gens : g # gen \/ state = "stopped" => buf[g] = <<>>
  /\ state = "stopped" => wg = 0
  /\ \A i \in 1..Len(buf[gen]) :
       \/ phase[buf[gen][i].from] \in {"running", "leaving"}
       \/ \E j \in i..Len(buf[gen]) : buf[gen][j].code = "stopped"

Inv3 == Counters /\ Drained

LEMMA SenderType ==
  ASSUME NEW s \in Seq(Status)
  PROVE  \A i \in 1..Len(s) : s[i].from \in Controllers
<1> SUFFICES ASSUME NEW i \in 1..Len(s) PROVE s[i].from \in Controllers
  OBVIOUS
<1>1. s[i] \in Status
  BY ElementOfSeq
<1> QED BY <1>1 DEF Status

LEMMA LiveType == IsFiniteSet(Live) /\ Cardinality(Live) \in Nat
<1>1. IsFiniteSet(Live)
  BY FS_Subset DEF Live
<1> QED BY <1>1, FS_CardinalityType

(* What a controller sends goes to the channel of the present run.         *)
LEMMA SendsToCurrent ==
  ASSUME Inv1, Members, NEW c \in Controllers, NEW code \in Codes,
         phase[c] # "unborn", Send(c, code)
  PROVE  /\ state # "stopped"
         /\ buf' = [buf EXCEPT ![gen] = Append(buf[gen], [from |-> c, code |-> code])]
<1>1. chanOf[c] \in 1..gen /\ chanOf[c] \notin closed
  BY DEF Members, Send
<1>2. gen \in Nat /\ closed = {g \in 1..gen : g < gen \/ state = "stopped"}
  BY DEF Inv1, TypeOK, Shape, Gens
<1>3. chanOf[c] = gen /\ state # "stopped"
  BY <1>1, <1>2
<1> QED BY <1>3 DEF Send

LEMMA Init3 == Init => Inv3
<1> SUFFICES ASSUME Init PROVE Inv3
  OBVIOUS
<1>1. gen \in Gens /\ buf[gen] = <<>> /\ \A g \in Gens : buf[g] = <<>>
  BY DEF Init, Gens
<1>2. Live = {}
  BY DEF Init, Live
<1>3. Cardinality(Live) = 0
  BY <1>2, FS_EmptySet
<1>4. CountOf(buf[gen], "stopped") = 0 /\ CountOf(buf[gen], "error") = 0
  BY <1>1, CountEmpty
<1>5. Counters
  BY <1>3, <1>4 DEF Init, Counters
<1>6. Drained
  BY <1>1 DEF Init, Drained
<1> QED BY <1>5, <1>6 DEF Inv3

(* A controller is launched: it is live, and counted in lt.wg.             *)
LEMMA Launch3 ==
  ASSUME Inv1, Members, Inv3, NEW c \in Controllers, phase[c] \in {"unborn", "idle"},
         Launch(c), Adding, UNCHANGED <<state, gen, buf, errorsSent>>
  PROVE  Inv3'
<1>0. /\ phase \in [Controllers -> Phases] /\ wg \in Int /\ gen \in Gens
      /\ numStopped \in Nat /\ numAdded \in Nat
      /\ buf[gen] \in Seq(Status) /\ state # "stopped"
  BY DEF Inv1, TypeOK, Shape, Adding
<1>1. /\ wg' = wg + 1 /\ numAdded' = numAdded + 1
      /\ phase' = [phase EXCEPT ![c] = "starting"]
      /\ UNCHANGED <<numStopped, numErrors>>
  BY DEF Launch
<1>2. Live' = Live \union {c} /\ c \notin Live
  BY <1>0, <1>1 DEF Live
<1>3. Cardinality(Live') = Cardinality(Live) + 1
  BY <1>2, LiveType, FS_AddElement
<1>4. CountOf(buf[gen], "stopped") \in Nat /\ Cardinality(Live) \in Nat
  BY <1>0, CountType, LiveType
<1>5. UNCHANGED <<CountOf(buf[gen], "stopped"), CountOf(buf[gen], "error")>>
  OBVIOUS
<1>6. Counters'
  BY <1>0, <1>1, <1>3, <1>4, <1>5 DEF Inv3, Counters
<1>7. \A d \in Controllers : phase[d] \in {"running", "leaving"} => phase'[d] = phase[d]
  BY <1>0, <1>1
<1>8. \A i \in 1..Len(buf[gen]) : buf[gen][i].from \in Controllers
  BY <1>0, SenderType
<1>9. Drained'
  BY <1>0, <1>7, <1>8 DEF Inv3, Drained
<1> QED BY <1>6, <1>9 DEF Inv3

(* A status is sent: STOPPED takes its sender from the live ones to the    *)
(* channel.                                                                *)
LEMMA Send3 ==
  ASSUME Inv1, Members, Inv3, NEW c \in Controllers, ControllerStep(c)
  PROVE  Inv3'
<1> USE DEF opVars, lifeVars, sendVars, tally, counters
<1>0. /\ phase \in [Controllers -> Phases] /\ wg \in Int /\ gen \in Gens
      /\ numStopped \in Nat /\ numAdded \in Nat /\ numErrors \in Nat /\ errorsSent \in Nat
      /\ buf \in [Gens -> Seq(Status)] /\ buf[gen] \in Seq(Status)
  BY DEF Inv1, TypeOK
<1>1. UNCHANGED <<gen, state, wg, numStopped, numAdded, numErrors>>
  BY DEF ControllerStep, UserStarted, UserInfo, UserError, UserLeaves, UserStopped,
     SendOnClosedPanics
<1>2. /\ CountOf(buf[gen], "stopped") \in Nat /\ CountOf(buf[gen], "error") \in Nat
      /\ Cardinality(Live) \in Nat /\ IsFiniteSet(Live)
  BY <1>0, CountType, LiveType
<1>3. \A i \in 1..Len(buf[gen]) : buf[gen][i].from \in Controllers
  BY <1>0, SenderType
<1>4. ASSUME UNCHANGED <<buf, errorsSent>>, UserLeaves(c) \/ SendOnClosedPanics(c)
      PROVE  Inv3'
  <2>1. \A d \in Controllers :
          /\ phase[d] \in {"running", "leaving"} => phase'[d] \in {"running", "leaving"}
          /\ phase'[d] \in {"starting", "running", "leaving"}
               <=> phase[d] \in {"starting", "running", "leaving"}
    BY <1>0, <1>4 DEF UserLeaves, SendOnClosedPanics
  <2>2. Live' = Live
    BY <2>1 DEF Live
  <2>3. Counters'
    BY <1>1, <1>4, <2>2 DEF Inv3, Counters, CountOf
  <2>4. Drained'
    BY <1>1, <1>3, <1>4, <2>1 DEF Inv3, Drained
  <2> QED BY <2>3, <2>4 DEF Inv3
<1>5. ASSUME NEW code \in Codes, NEW p, Send(c, code),
             phase[c] \in {"starting", "running", "leaving"},
             phase' = [phase EXCEPT ![c] = p],
             code = "stopped" => p = "stopped",
             code # "stopped" => p \in {"running", "leaving"},
             errorsSent' = IF code = "error" THEN errorsSent + 1 ELSE errorsSent
      PROVE  Inv3'
  <2> DEFINE m == [from |-> c, code |-> code]
             old == buf[gen]
             new == Append(buf[gen], m)
  <2>1. m \in Status /\ m.code = code /\ m.from = c
    BY DEF Status
  <2>2. state # "stopped" /\ buf' = [buf EXCEPT ![gen] = new]
    BY <1>5, SendsToCurrent
  <2>3. buf'[gen'] = new /\ \A g \in Gens : g # gen => buf'[g] = buf[g]
    BY <1>0, <1>1, <2>2
  <2>4. /\ CountOf(new, "stopped") = CountOf(old, "stopped") + IF code = "stopped" THEN 1 ELSE 0
        /\ CountOf(new, "error") = CountOf(old, "error") + IF code = "error" THEN 1 ELSE 0
    BY <1>0, <2>1, CountAppend
  <2>5. Cardinality(Live') = IF code = "stopped" THEN Cardinality(Live) - 1 ELSE Cardinality(Live)
    <3>1. CASE code = "stopped"
      <4>1. Live' = Live \ {c} /\ c \in Live
        BY <1>0, <1>5, <3>1 DEF Live
      <4>2. Cardinality(Live') = Cardinality(Live) - 1
        BY <1>2, <4>1, FS_RemoveElement
      <4> QED BY <3>1, <4>2
    <3>2. CASE code # "stopped"
      <4>1. \A d \in Controllers : phase'[d] \in {"starting", "running", "leaving"}
               <=> phase[d] \in {"starting", "running", "leaving"}
        BY <1>0, <1>5, <3>2
      <4>2. Live' = Live
        BY <4>1 DEF Live
      <4> QED BY <3>2, <4>2
    <3> QED BY <3>1, <3>2
  <2>6. CountOf(buf[gen], "stopped")' = CountOf(new, "stopped")
        /\ CountOf(buf[gen], "error")' = CountOf(new, "error")
    BY <2>3 DEF CountOf
  <2> HIDE DEF new, m
  <2>7. Counters'
    <3>1. Counters
      BY DEF Inv3
    <3>2. wg' = Cardinality(Live') + CountOf(new, "stopped")
      BY <1>0, <1>1, <1>2, <2>4, <2>5, <3>1 DEF Counters
    <3>3. numErrors' + CountOf(new, "error") = errorsSent'
      BY <1>0, <1>1, <1>2, <1>5, <2>4, <3>1 DEF Counters
    <3>4. numStopped' + wg' = numAdded'
      BY <1>1, <3>1 DEF Counters
    <3> QED BY <2>6, <3>2, <3>3, <3>4 DEF Counters
  <2>8. Len(new) = Len(old) + 1 /\ Len(old) \in Nat
        /\ new[Len(old) + 1] = m /\ \A i \in 1..Len(old) : new[i] = old[i]
    BY <1>0, <2>1, AppendProperties, LenProperties DEF new
  <2>9. \A i \in 1..Len(new) :
          \/ phase'[new[i].from] \in {"running", "leaving"}
          \/ \E j \in i..Len(new) : new[j].code = "stopped"
    <3>1. CASE code = "stopped"
      <4>1. \A i \in 1..Len(new) : Len(new) \in i..Len(new)
        BY <2>8
      <4>2. new[Len(new)].code = "stopped"
        BY <2>1, <2>8, <3>1
      <4> QED BY <4>1, <4>2
    <3>2. CASE code # "stopped"
      <4>1. phase'[c] \in {"running", "leaving"}
        BY <1>0, <1>5, <3>2
      <4>2. \A d \in Controllers :
              phase[d] \in {"running", "leaving"} => phase'[d] \in {"running", "leaving"}
        BY <1>0, <1>5, <3>2, <4>1
      <4> SUFFICES ASSUME NEW i \in 1..Len(new)
                   PROVE  \/ phase'[new[i].from] \in {"running", "leaving"}
                          \/ \E j \in i..Len(new) : new[j].code = "stopped"
        OBVIOUS
      <4>3. CASE i = Len(old) + 1
        BY <2>1, <2>8, <4>1, <4>3
      <4>4. CASE i \in 1..Len(old)
        <5>1. new[i] = old[i] /\ old[i].from \in Controllers
          BY <1>3, <2>8, <4>4
        <5>2. \/ phase[old[i].from] \in {"running", "leaving"}
              \/ \E j \in i..Len(old) : old[j].code = "stopped"
          BY <4>4 DEF Inv3, Drained
        <5>3. ASSUME NEW j \in i..Len(old), old[j].code = "stopped"
              PROVE  \E k \in i..Len(new) : new[k].code = "stopped"
          <6>1. j \in i..Len(new) /\ new[j] = old[j]
            BY <2>8, <4>4, <5>3
          <6> QED BY <5>3, <6>1
        <5> QED BY <4>2, <5>1, <5>2, <5>3
      <4> QED BY <2>8, <4>3, <4>4
    <3> QED BY <3>1, <3>2
  <2>10. Drained'
    BY <1>1, <2>2, <2>3, <2>9 DEF Inv3, Drained
  <2> QED BY <2>7, <2>10 DEF Inv3
<1>6. CASE UserStarted(c)
  <2>1. Send(c, "info") /\ phase[c] = "starting" /\ UNCHANGED errorsSent
        /\ phase' = [phase EXCEPT ![c] = "running"]
    BY <1>6 DEF UserStarted
  <2> QED BY <1>5, <2>1 DEF Codes
<1>7. CASE UserInfo(c)
  <2>1. /\ Send(c, "info") /\ phase[c] \in {"running", "leaving"}
        /\ UNCHANGED <<errorsSent, phase>>
    BY <1>7 DEF UserInfo
  <2>2. phase' = [phase EXCEPT ![c] = phase[c]]
    BY <1>0, <2>1
  <2> QED BY <1>5, <2>1, <2>2 DEF Codes
<1>8. CASE UserError(c)
  <2>1. /\ Send(c, "error") /\ phase[c] \in {"running", "leaving"}
        /\ UNCHANGED phase /\ errorsSent' = errorsSent + 1
    BY <1>8 DEF UserError
  <2>2. phase' = [phase EXCEPT ![c] = phase[c]]
    BY <1>0, <2>1
  <2> QED BY <1>5, <2>1, <2>2 DEF Codes
<1>9. CASE UserStopped(c)
  <2>1. /\ Send(c, "stopped") /\ phase[c] = "leaving" /\ UNCHANGED errorsSent
        /\ phase' = [phase EXCEPT ![c] = "stopped"]
    BY <1>9 DEF UserStopped
  <2> QED BY <1>5, <2>1 DEF Codes
<1>10. UserLeaves(c) \/ SendOnClosedPanics(c) => UNCHANGED <<buf, errorsSent>>
  BY DEF UserLeaves, SendOnClosedPanics
<1> QED BY <1>4, <1>6, <1>7, <1>8, <1>9, <1>10 DEF ControllerStep

(* A status is handled: STOPPED moves one from the channel to NumUsersStopped. *)
LEMMA Handle3 ==
  ASSUME Inv1, Inv3, NEW g \in Gens, HandleStatus(g)
  PROVE  Inv3'
<1> USE DEF opVars, lifeVars, counters
<1>0. /\ wg \in Int /\ gen \in Gens
      /\ numStopped \in Nat /\ numAdded \in Nat /\ numErrors \in Nat /\ errorsSent \in Nat
      /\ buf \in [Gens -> Seq(Status)] /\ buf[gen] \in Seq(Status)
  BY DEF Inv1, TypeOK
<1> DEFINE old == buf[gen]
           new == Tail(old)
           k == Head(old).code
<1>1. g = gen /\ old # <<>> /\ state # "stopped"
  BY <1>0 DEF HandleStatus, Inv3, Drained
<1>2. /\ buf' = [buf EXCEPT ![gen] = new]
      /\ numStopped' = IF k = "stopped" THEN numStopped + 1 ELSE numStopped
      /\ wg' = IF k = "stopped" THEN wg - 1 ELSE wg
      /\ numErrors' = IF k = "error" THEN numErrors + 1 ELSE numErrors
      /\ UNCHANGED <<state, gen, phase, numAdded, errorsSent>>
  BY <1>1 DEF HandleStatus
<1>3. buf'[gen'] = new /\ \A h \in Gens : h # gen => buf'[h] = buf[h]
  BY <1>0, <1>2
<1>4. /\ new \in Seq(Status) /\ Len(old) \in Nat /\ Len(new) = Len(old) - 1
      /\ \A i \in 1..Len(new) : new[i] = old[i + 1]
  BY <1>0, <1>1, HeadTailProperties, LenProperties
<1>5. /\ CountOf(old, "stopped") = CountOf(new, "stopped") + IF k = "stopped" THEN 1 ELSE 0
      /\ CountOf(old, "error") = CountOf(new, "error") + IF k = "error" THEN 1 ELSE 0
  BY <1>0, <1>1, CountTail
<1>6. /\ CountOf(new, "stopped") \in Nat /\ CountOf(new, "error") \in Nat
      /\ Cardinality(Live) \in Nat
  BY <1>4, CountType, LiveType
<1>7. /\ CountOf(buf[gen], "stopped")' = CountOf(new, "stopped")
      /\ CountOf(buf[gen], "error")' = CountOf(new, "error")
      /\ Live' = Live
  BY <1>2, <1>3 DEF CountOf, Live
<1> HIDE DEF new, k
<1>8. Counters'
  <2>1. Counters
    BY DEF Inv3
  <2>2. wg' = Cardinality(Live) + CountOf(new, "stopped")
    <3>1. wg = Cardinality(Live) + CountOf(old, "stopped")
      BY <2>1 DEF Counters
    <3> HIDE DEF old
    <3>2. CASE k = "stopped"
      BY <1>2, <1>5, <1>6, <3>1, <3>2
    <3>3. CASE k # "stopped"
      BY <1>2, <1>5, <1>6, <3>1, <3>3
    <3> QED BY <3>2, <3>3
  <2>3. numStopped' + wg' = numAdded'
    BY <1>0, <1>2, <2>1 DEF Counters
  <2>4. numErrors' + CountOf(new, "error") = errorsSent'
    BY <1>0, <1>2, <1>5, <1>6, <2>1 DEF Counters
  <2> QED BY <1>7, <2>2, <2>3, <2>4 DEF Counters
<1>9. ASSUME NEW i \in 1..Len(new)
      PROVE  \/ phase'[new[i].from] \in {"running", "leaving"}
             \/ \E j \in i..Len(new) : new[j].code = "stopped"
  <2>1. i + 1 \in 1..Len(old) /\ new[i] = old[i + 1]
    BY <1>4
  <2>2. \/ phase[old[i + 1].from] \in {"running", "leaving"}
        \/ \E j \in (i + 1)..Len(old) : old[j].code = "stopped"
    BY <2>1 DEF Inv3, Drained
  <2>3. ASSUME NEW j \in (i + 1)..Len(old), old[j].code = "stopped"
        PROVE  \E l \in i..Len(new) : new[l].code = "stopped"
    <3>1. j - 1 \in i..Len(new) /\ new[j - 1] = old[j]
      BY <1>4, <2>3
    <3> QED BY <2>3, <3>1
  <2> QED BY <1>2, <2>1, <2>2, <2>3
<1>10. Drained'
  BY <1>1, <1>2, <1>3, <1>9 DEF Inv3, Drained
<1> QED BY <1>8, <1>10 DEF Inv3

LEMMA Step3 == Inv1 /\ Members /\ Inv3 /\ [Next]_vars => Inv3'
<1> SUFFICES ASSUME Inv1, Members, Inv3, [Next]_vars PROVE Inv3'
  OBVIOUS
<1> USE DEF opVars, lifeVars, sendVars, tally, counters
<1>0. /\ phase \in [Controllers -> Phases] /\ wg \in Int /\ gen \in Gens
      /\ buf \in [Gens -> Seq(Status)] /\ buf[gen] \in Seq(Status)
      /\ numStopped \in Nat /\ numAdded \in Nat /\ numErrors \in Nat /\ errorsSent \in Nat
  BY DEF Inv1, TypeOK
<1>1. ASSUME UNCHANGED <<phase, buf, gen, wg, numStopped, numAdded, numErrors, errorsSent>>,
             state' = "stopped" => state = "stopped"
      PROVE  Inv3'
  <2>1. Counters'
    BY <1>1 DEF Inv3, Counters, Live, CountOf
  <2>2. Drained'
    BY <1>1 DEF Inv3, Drained
  <2> QED BY <2>1, <2>2 DEF Inv3
<1>2. CASE Run
  <2>1. /\ gen' = gen + 1 /\ gen' \in Gens /\ gen' # gen
        /\ state = "stopped" /\ state' = "starting"
        /\ UNCHANGED <<buf, phase, wg>>
        /\ numAdded' = 0 /\ numStopped' = 0 /\ numErrors' = 0 /\ errorsSent' = 0
    BY <1>0, <1>2 DEF Run, Gens
  <2>2. wg = 0 /\ \A g \in Gens : buf[g] = <<>>
    BY <2>1 DEF Inv3, Drained
  <2>3. buf[gen] = <<>> /\ buf'[gen'] = <<>>
    BY <1>0, <2>1, <2>2
  <2>4. \A k : CountOf(<<>>, k) = 0
    BY CountEmpty
  <2>5. wg = Cardinality(Live) + 0
    BY <2>3, <2>4 DEF Inv3, Counters
  <2>6. Live' = Live
    BY <2>1 DEF Live
  <2>7. CountOf(buf[gen], "stopped")' = 0 /\ CountOf(buf[gen], "error")' = 0
    BY <2>3, <2>4 DEF CountOf
  <2>8. Counters'
    BY <2>1, <2>2, <2>5, <2>6, <2>7, LiveType DEF Counters
  <2>9. Drained'
    BY <2>1, <2>2, <2>3 DEF Drained
  <2> QED BY <2>8, <2>9 DEF Inv3
<1>3. CASE AddIdleUser
  <2>1. Head(idle) = idle[1] /\ 1 \in 1..Len(idle) /\ idle[1] \in Controllers
    BY <1>3, HeadTailProperties DEF AddIdleUser, Inv1, TypeOK
  <2>2. phase[idle[1]] = "idle"
    BY <2>1 DEF Members
  <2>3. Launch(idle[1]) /\ Adding /\ UNCHANGED <<state, gen, buf, errorsSent>>
    BY <1>3, <2>1 DEF AddIdleUser
  <2> QED BY <2>1, <2>2, <2>3, Launch3
<1>4. ASSUME NEW c \in Controllers, AddNewUser(c) PROVE Inv3'
  <2>1. /\ Launch(c) /\ Adding /\ phase[c] = "unborn"
        /\ UNCHANGED <<state, gen, buf, errorsSent>>
    BY <1>4 DEF AddNewUser
  <2> QED BY <2>1, Launch3
<1>5. ASSUME NEW c \in Controllers, StopReturns(c) PROVE Inv3'
  <2>1. /\ phase[c] = "stopped" /\ phase' = [phase EXCEPT ![c] = "idle"]
        /\ UNCHANGED <<state, buf, gen, wg, numStopped, numAdded, numErrors, errorsSent>>
    BY <1>5 DEF StopReturns
  <2>2. Live' = Live
    BY <1>0, <2>1 DEF Live
  <2>3. \A d \in Controllers : phase[d] \in {"running", "leaving"} => phase'[d] = phase[d]
    BY <1>0, <2>1
  <2>4. \A i \in 1..Len(buf[gen]) : buf[gen][i].from \in Controllers
    BY <1>0, SenderType
  <2>5. Counters'
    BY <2>1, <2>2 DEF Inv3, Counters, CountOf
  <2>6. Drained'
    BY <2>1, <2>3, <2>4 DEF Inv3, Drained
  <2> QED BY <2>5, <2>6 DEF Inv3
<1>6. CASE StopDone
  <2>1. /\ wg = 0 /\ wg' = 0
        /\ UNCHANGED <<phase, buf, gen, numStopped, numAdded, numErrors, errorsSent>>
    BY <1>6 DEF StopDone
  <2>2. /\ wg = Cardinality(Live) + CountOf(buf[gen], "stopped")
        /\ Cardinality(Live) \in Nat /\ CountOf(buf[gen], "stopped") \in Nat
    BY <1>0, CountType, LiveType DEF Inv3, Counters
  <2>3. Cardinality(Live) = 0 /\ CountOf(buf[gen], "stopped") = 0
    BY <2>1, <2>2
  <2>4. Live = {}
    BY <2>3, LiveType, FS_EmptySet
  <2>5. \A d \in Controllers : phase[d] \notin {"running", "leaving"}
    BY <2>4 DEF Live
  <2>6. \A i \in 1..Len(buf[gen]) : buf[gen][i].code # "stopped"
    BY <1>0, <2>3, CountZero
  <2>7. Len(buf[gen]) \in Nat
    BY <1>0
  <2>8. \A i \in 1..Len(buf[gen]) : buf[gen][i].from \in Controllers
    BY <1>0, SenderType
  <2>9. ASSUME NEW i \in 1..Len(buf[gen]) PROVE FALSE
    <3>1. phase[buf[gen][i].from] \notin {"running", "leaving"}
      BY <2>5, <2>8
    <3>2. PICK j \in i..Len(buf[gen]) : buf[gen][j].code = "stopped"
      BY <3>1 DEF Inv3, Drained
    <3>3. j \in 1..Len(buf[gen])
      BY <2>7, <3>2
    <3> QED BY <2>6, <3>2, <3>3
  <2>10. buf[gen] = <<>>
    <3>1. Len(buf[gen]) = 0
      BY <2>7, <2>9
    <3> QED BY <1>0, <3>1, EmptySeq
  <2>11. Counters'
    BY <2>1 DEF Inv3, Counters, Live, CountOf
  <2>12. \A g \in Gens : buf[g] = <<>>
    BY <2>10 DEF Inv3, Drained
  <2>13. Drained'
    BY <2>1, <2>10, <2>12 DEF Inv3, Drained
  <2> QED BY <2>11, <2>13 DEF Inv3
<1>7. RunDone \/ AddUsersDone \/ AddUserAtMax \/ AddNewUserFails \/ Stop \/ UNCHANGED vars => Inv3'
  BY <1>1 DEF RunDone, AddUsersDone, AddUserAtMax, AddNewUserFails, Stop, vars
<1>8. CASE RemoveDone
  BY <1>1, <1>8 DEF RemoveDone
<1>9. \A n \in 1..(MaxActiveUsers + 1) : AddUsers(n) \/ RemoveUsers(n) => Inv3'
  BY <1>1 DEF AddUsers, RemoveUsers
<1>10. \A c \in Controllers : CloseStopChan(c) => Inv3'
  BY <1>1 DEF CloseStopChan
<1>11. \A c \in Controllers : ControllerStep(c) => Inv3'
  BY Send3
<1>12. \A g \in Gens : HandleStatus(g) => Inv3'
  BY Handle3
<1> QED
  BY <1>2, <1>3, <1>4, <1>5, <1>6, <1>7, <1>8, <1>9, <1>10, <1>11, <1>12
     DEF Next, LockHolderStep, Ended

(* The inductive invariant of LoadTester.                                  *)
IInv == Inv1 /\ Members /\ Inv3

THEOREM InductiveInvariant == Spec => []IInv
<1>1. Init => IInv
  BY Init1, Init2, Init3 DEF IInv
<1>2. IInv /\ [Next]_vars => IInv'
  BY Step1, Step2, Step3 DEF IInv
<1> QED BY <1>1, <1>2, PTL DEF Spec

(* lt.wg is exact: wg.Done of handleStatus never finds it at zero, and     *)
(* wg.Wait of Stop waits for every user.                                   *)
THEOREM WaitGroupCorrect == Spec => []WaitGroupExact
<1>1. IInv => WaitGroupExact
  BY DEF IInv, Inv3, Counters, WaitGroupExact
<1> QED BY <1>1, InductiveInvariant, PTL

(* At any time, in the middle of an operation too, NumUsers is the number  *)
(* of active controllers and the difference of the users added and removed. *)
THEOREM UsersBalance == Spec => []UsersBalanced
<1>1. IInv => UsersBalanced
  BY DEF IInv, Inv1, Shape, UsersBalanced
<1> QED BY <1>1, InductiveInvariant, PTL

(* When Stop has returned, every status of the run has been handled.       *)
THEOREM StopSettles == Spec => []StatusSettled
<1>1. IInv => StatusSettled
  <2> SUFFICES ASSUME IInv, state = "stopped" PROVE
         /\ buf[gen] = <<>>
         /\ numErrors = errorsSent
         /\ numStopped = numAdded
         /\ numRemoved = numAdded
    BY DEF StatusSettled
  <2>0. /\ gen \in Gens /\ numErrors \in Nat /\ errorsSent \in Nat
        /\ numStopped \in Nat /\ numAdded \in Nat /\ numRemoved \in Nat
    BY DEF IInv, Inv1, TypeOK
  <2>1. buf[gen] = <<>> /\ wg = 0
    BY <2>0 DEF IInv, Inv3, Drained
  <2>2. CountOf(<<>>, "error") = 0
    BY CountEmpty
  <2>3. numErrors + CountOf(buf[gen], "error") = errorsSent /\ numStopped + wg = numAdded
    BY DEF IInv, Inv3, Counters
  <2>4. numRemoved = numAdded
    BY <2>0 DEF IInv, Inv1, Shape
  <2> QED BY <2>0, <2>1, <2>2, <2>3, <2>4
<1> QED BY <1>1, InductiveInvariant, PTL

-----------------------------------------------------------------------------
(* LoadTester implements its contract.                                     *)

LEMMA ContractInit == Init => Contract!Init
BY DEF Init, Contract!Init

LEMMA ContractStep == IInv /\ [Next]_vars => [Contract!Next]_(Contract!vars)
<1> SUFFICES ASSUME IInv, [Next]_vars PROVE [Contract!Next]_(Contract!vars)
  OBVIOUS
<1> USE DEF opVars, lifeVars, sendVars, tally, counters
<1>0. /\ numUsers \in Nat /\ numAdded \in Nat /\ numRemoved \in Nat /\ numStopped \in Nat
      /\ wg \in Int /\ todo \in Nat /\ Len(active) \in Nat /\ gen \in Gens
      /\ buf[gen] \in Seq(Status)
      /\ numUsers = Len(active)
      /\ numAdded = numRemoved + numUsers
      /\ numStopped + wg = numAdded
  BY DEF IInv, Inv1, TypeOK, Shape, Inv3, Counters
<1>1. CASE UNCHANGED <<state, numUsers, numAdded, numRemoved, numStopped>>
  BY <1>1 DEF Contract!vars
<1>2. CASE Run
  BY <1>0, <1>2 DEF Run, IInv, Inv1, Shape, Contract!Next, Contract!Start
<1>3. CASE RunDone
  BY <1>3 DEF RunDone, IInv, Inv1, Shape, Contract!Next, Contract!Ready
<1>4. ASSUME NEW c \in Controllers, Launch(c), Adding, Len(active) # MaxActiveUsers,
             UNCHANGED state
      PROVE  Contract!Next
  <2>1. Len(active) <= MaxActiveUsers /\ state \in {"starting", "running"}
    BY <1>4 DEF Adding, IInv, Inv1, Shape
  <2> QED BY <1>0, <1>4, <2>1 DEF Launch, Contract!Next, Contract!Add
<1>5. CASE AddIdleUser
  <2>1. Head(idle) \in Controllers
    BY <1>5, HeadTailProperties DEF AddIdleUser, IInv, Inv1, TypeOK
  <2> QED BY <1>4, <1>5, <2>1 DEF AddIdleUser
<1>6. ASSUME NEW c \in Controllers, AddNewUser(c) PROVE Contract!Next
  BY <1>4, <1>6 DEF AddNewUser
<1>7. CASE Stop
  BY <1>7 DEF Stop, Contract!Next, Contract!BeginStop
<1>8. CASE RemoveDone
  <2>1. /\ numUsers' = numUsers - todo
        /\ numRemoved' = numRemoved + todo
        /\ UNCHANGED <<state, numAdded, numStopped>>
        /\ op \in {"remove", "stop"}
    BY <1>8 DEF RemoveDone
  <2>2. CASE todo = 0
    BY <1>0, <2>1, <2>2 DEF Contract!vars
  <2>3. CASE todo # 0
    <3>1. todo \in 1..numUsers
      BY <1>0, <2>1, <2>3 DEF IInv, Inv1, Shape
    <3>2. state = "running" \/ (state = "stopping" /\ numUsers' = 0)
      BY <1>0, <2>1 DEF IInv, Inv1, Shape
    <3> QED BY <2>1, <3>1, <3>2 DEF Contract!Next, Contract!Remove
  <2> QED BY <2>2, <2>3
<1>9. CASE StopDone
  <2>1. state = "stopping" /\ Len(active) = 0
    BY <1>9 DEF StopDone, IInv, Inv1, Shape
  <2> QED BY <1>0, <1>9, <2>1 DEF StopDone, Contract!Next, Contract!Finish
<1>10. ASSUME NEW g \in Gens, HandleStatus(g) PROVE [Contract!Next]_(Contract!vars)
  <2>1. UNCHANGED <<state, numUsers, numAdded, numRemoved>>
    BY <1>10 DEF HandleStatus
  <2>2. CASE Head(buf[g]).code # "stopped"
    BY <1>10, <2>1, <2>2 DEF HandleStatus, Contract!vars
  <2>3. CASE Head(buf[g]).code = "stopped"
    <3>1. g = gen /\ buf[gen] # <<>>
      BY <1>0, <1>10 DEF HandleStatus, IInv, Inv3, Drained
    <3>2. CountOf(buf[gen], "stopped") = CountOf(Tail(buf[gen]), "stopped") + 1
      BY <1>0, <2>3, <3>1, CountTail
    <3>3. CountOf(Tail(buf[gen]), "stopped") \in Nat
      BY <1>0, <3>1, HeadTailProperties, CountType
    <3>4. wg = Cardinality(Live) + CountOf(buf[gen], "stopped")
      BY DEF IInv, Inv3, Counters
    <3>5. numStopped < numAdded
      BY <1>0, <3>2, <3>3, <3>4, LiveType
    <3>6. numStopped' = numStopped + 1
      BY <1>10, <2>3 DEF HandleStatus
    <3> QED BY <2>1, <3>5, <3>6 DEF Contract!Next, Contract!End
  <2> QED BY <2>2, <2>3
<1>11. AddUsersDone \/ AddUserAtMax \/ AddNewUserFails \/ UNCHANGED vars
         => UNCHANGED <<state, numUsers, numAdded, numRemoved, numStopped>>
  BY DEF AddUsersDone, AddUserAtMax, AddNewUserFails, vars
<1>12. \A n \in 1..(MaxActiveUsers + 1) : AddUsers(n) \/ RemoveUsers(n)
         => UNCHANGED <<state, numUsers, numAdded, numRemoved, numStopped>>
  BY DEF AddUsers, RemoveUsers
<1>13. \A c \in Controllers : CloseStopChan(c) \/ StopReturns(c) \/ ControllerStep(c)
         => UNCHANGED <<state, numUsers, numAdded, numRemoved, numStopped>>
  BY DEF CloseStopChan, StopReturns, ControllerStep, UserStarted, UserInfo, UserError, UserLeaves,
     UserStopped, SendOnClosedPanics
<1> QED
  BY <1>1, <1>2, <1>3, <1>5, <1>6, <1>7, <1>8, <1>9, <1>10, <1>11, <1>12, <1>13
     DEF Next, LockHolderStep, Ended

(* Every behaviour of the agent is one that its callers are promised: the  *)
(* states come in order, there are never more users than the maximum,      *)
(* each is counted once when it is added, ends and is removed, and none is *)
(* left when the test is stopped.                                          *)
THEOREM ContractImplemented == Spec => ImplementsContract
<1>1. Spec => Contract!Spec
  BY ContractInit, ContractStep, InductiveInvariant, PTL DEF Spec, Contract!Spec
<1> QED BY <1>1 DEF ImplementsContract

-----------------------------------------------------------------------------
(* Why addUser may number a new user by the length of activeControllers:   *)
(* every controller ever made is active or idle, so when none is idle the  *)
(* next number is free.                                                    *)
UserIds ==
  ~ MultiSession =>
    \A c \in Controllers : phase[c] # "unborn" =>
      /\ userOf[c] <= Len(active) + Len(idle)
      /\ \A d \in Controllers : phase[d] # "unborn" /\ userOf[c] = userOf[d] => c = d

LEMMA StepIds == Inv1 /\ Members /\ UserIds /\ [Next]_vars => UserIds'
<1> SUFFICES ASSUME Inv1, Members, UserIds, [Next]_vars PROVE UserIds'
  OBVIOUS
<1> USE DEF opVars, lifeVars, sendVars, tally, counters
<1>0. /\ phase \in [Controllers -> Phases] /\ userOf \in [Controllers -> Nat]
      /\ active \in Seq(Controllers) /\ idle \in Seq(Controllers)
      /\ Len(active) \in Nat /\ Len(idle) \in Nat /\ todo \in Nat
  BY DEF Inv1, TypeOK
<1>1. ASSUME \A c \in Controllers : phase'[c] # "unborn" => phase[c] # "unborn",
             Len(active') + Len(idle') = Len(active) + Len(idle), UNCHANGED userOf
      PROVE  UserIds'
  BY <1>1 DEF UserIds
<1>2. CASE AddIdleUser
  <2>1. Head(idle) = idle[1] /\ 1 \in 1..Len(idle) /\ idle[1] \in Controllers
        /\ Len(idle') = Len(idle) - 1
    BY <1>0, <1>2, HeadTailProperties DEF AddIdleUser
  <2>2. Len(active') = Len(active) + 1
    BY <1>0, <1>2, <2>1, AppendProperties DEF AddIdleUser, Launch
  <2>3. phase[idle[1]] = "idle"
    BY <2>1 DEF Members
  <2>4. phase' = [phase EXCEPT ![idle[1]] = "starting"] /\ UNCHANGED userOf
    BY <1>2, <2>1 DEF AddIdleUser, Launch
  <2>5. \A c \in Controllers : phase'[c] # "unborn" => phase[c] # "unborn"
    BY <1>0, <2>3, <2>4
  <2> QED BY <1>0, <1>1, <2>1, <2>2, <2>4, <2>5
<1>3. ASSUME NEW c \in Controllers, AddNewUser(c) PROVE UserIds'
  <2>1. Len(active') = Len(active) + 1 /\ idle = <<>> /\ idle' = idle
    BY <1>0, <1>3, AppendProperties DEF AddNewUser, Launch
  <2>2. Len(idle) = 0
    BY <2>1
  <2>3. phase' = [phase EXCEPT ![c] = "starting"] /\ phase[c] = "unborn"
    BY <1>3 DEF AddNewUser, Launch
  <2>4. ~ MultiSession => userOf' = [userOf EXCEPT ![c] = Len(active) + 1]
    BY <1>3 DEF AddNewUser, NewUserIds
  <2> SUFFICES ASSUME ~ MultiSession
               PROVE  \A d \in Controllers : phase'[d] # "unborn" =>
                        /\ userOf'[d] <= Len(active) + 1
                        /\ \A e \in Controllers :
                             phase'[e] # "unborn" /\ userOf'[d] = userOf'[e] => d = e
    BY <2>1, <2>2 DEF UserIds
  <2>5. userOf'[c] = Len(active) + 1
    BY <1>0, <2>4
  <2>6. \A d \in Controllers : d # c => phase'[d] = phase[d] /\ userOf'[d] = userOf[d]
    BY <1>0, <2>3, <2>4
  <2>7. \A d \in Controllers : phase[d] # "unborn" => userOf[d] <= Len(active)
    BY <1>0, <2>2 DEF UserIds
  <2>8. \A d \in Controllers : userOf[d] \in Nat
    BY <1>0
  <2>9. \A d \in Controllers : phase'[d] # "unborn" => d = c \/ phase[d] # "unborn"
    BY <2>6
  <2> SUFFICES ASSUME NEW d \in Controllers, phase'[d] # "unborn"
               PROVE  /\ userOf'[d] <= Len(active) + 1
                      /\ \A e \in Controllers :
                           phase'[e] # "unborn" /\ userOf'[d] = userOf'[e] => d = e
    OBVIOUS
  <2>10. CASE d = c
    BY <1>0, <2>5, <2>6, <2>7, <2>8, <2>9, <2>10
  <2>11. CASE d # c
    <3>1. phase[d] # "unborn" /\ userOf'[d] = userOf[d] /\ userOf[d] <= Len(active)
      BY <2>6, <2>7, <2>11
    <3>2. ASSUME NEW e \in Controllers, phase'[e] # "unborn", userOf'[d] = userOf'[e]
          PROVE  d = e
      <4>1. e # c
        BY <1>0, <2>5, <2>8, <3>1, <3>2
      <4> QED BY <2>6, <3>1, <3>2, <4>1 DEF UserIds
    <3> QED BY <1>0, <2>8, <3>1, <3>2
  <2> QED BY <2>10, <2>11
<1>4. CASE RemoveDone
  <2> DEFINE m == Len(active) - todo
  <2>1. m \in 0..Len(active)
    BY <1>0, <1>4 DEF RemoveDone, Inv1, Shape
  <2>2. Len(active') = m
    <3>1. \A i \in 1..m : active[i] \in Controllers
      BY <1>0, <2>1
    <3>2. active' = SubSeq(active, 1, m)
      BY <1>4 DEF RemoveDone
    <3> QED BY <1>0, <2>1, <3>1, <3>2, SubSeqProperties
  <2>3. /\ SubSeq(active, m + 1, Len(active)) \in Seq(Controllers)
        /\ Len(SubSeq(active, m + 1, Len(active))) = todo
    <3>1. \A i \in (m + 1)..Len(active) : active[i] \in Controllers
      BY <1>0, <2>1
    <3> QED BY <1>0, <2>1, <3>1, SubSeqProperties
  <2>4. idle' = idle \o SubSeq(active, m + 1, Len(active)) /\ UNCHANGED <<phase, userOf>>
    BY <1>4 DEF RemoveDone
  <2>5. Len(idle') = Len(idle) + todo
    <3> HIDE DEF m
    <3> QED BY <1>0, <2>3, <2>4, ConcatProperties
  <2>6. Len(active') + Len(idle') = Len(active) + Len(idle)
    BY <1>0, <2>2, <2>5
  <2> QED BY <1>1, <2>4, <2>6
<1>5. ASSUME NEW c \in Controllers, StopReturns(c) PROVE UserIds'
  <2>1. phase' = [phase EXCEPT ![c] = "idle"] /\ phase[c] = "stopped"
        /\ UNCHANGED <<active, idle, userOf>>
    BY <1>5 DEF StopReturns
  <2> QED BY <1>0, <1>1, <2>1
<1>6. ASSUME NEW c \in Controllers, ControllerStep(c) PROVE UserIds'
  <2>1. \A d \in Controllers : phase'[d] # phase[d] => phase[d] # "unborn"
    BY <1>0, <1>6 DEF ControllerStep, UserStarted, UserInfo, UserError, UserLeaves, UserStopped,
       SendOnClosedPanics
  <2>2. UNCHANGED <<active, idle, userOf>>
    BY <1>6 DEF ControllerStep, UserStarted, UserInfo, UserError, UserLeaves, UserStopped,
       SendOnClosedPanics
  <2> QED BY <1>1, <2>1, <2>2
<1>7. CASE UNCHANGED <<phase, active, idle, userOf>>
  BY <1>7 DEF UserIds
<1>8. Run \/ RunDone \/ AddUsersDone \/ AddUserAtMax \/ AddNewUserFails \/ StopDone \/ Stop
        \/ UNCHANGED vars => UNCHANGED <<phase, active, idle, userOf>>
  BY DEF Run, RunDone, AddUsersDone, AddUserAtMax, AddNewUserFails, StopDone, Stop, vars
<1>9. \A n \in 1..(MaxActiveUsers + 1) : AddUsers(n) \/ RemoveUsers(n)
        => UNCHANGED <<phase, active, idle, userOf>>
  BY DEF AddUsers, RemoveUsers
<1>10. \A c \in Controllers : CloseStopChan(c) => UNCHANGED <<phase, active, idle, userOf>>
  BY DEF CloseStopChan
<1>11. \A g \in Gens : HandleStatus(g) => UNCHANGED <<phase, active, idle, userOf>>
  BY DEF HandleStatus
<1> QED
  BY <1>2, <1>3, <1>4, <1>5, <1>6, <1>7, <1>8, <1>9, <1>10, <1>11 DEF Next, LockHolderStep, Ended

(* Without further sessions no two active controllers simulate one user.   *)
THEOREM UsersDistinct == Spec => []DistinctUsers
<1>1. Init => UserIds
  BY DEF Init, UserIds
<1>2. IInv /\ UserIds /\ [Next]_vars => UserIds'
  BY StepIds DEF IInv
<1>3. IInv /\ UserIds => DistinctUsers
  <2> SUFFICES ASSUME IInv, UserIds, ~ MultiSession,
                      NEW i \in 1..Len(active), NEW j \in 1..Len(active),
                      userOf[active[i]] = userOf[active[j]]
               PROVE  i = j
    BY DEF DistinctUsers
  <2>1. active[i] \in Controllers /\ active[j] \in Controllers
    BY DEF IInv, Inv1, TypeOK
  <2>2. phase[active[i]] # "unborn" /\ phase[active[j]] # "unborn"
    BY DEF IInv, Members
  <2>3. active[i] = active[j]
    BY <2>1, <2>2 DEF UserIds
  <2> QED BY <2>3 DEF IInv, Members
<1> QED BY <1>1, <1>2, <1>3, InductiveInvariant, PTL DEF Spec

(* An agent that runs one test never sends on a closed status channel.  It *)
(* is the second run that does: see NoSendOnClosedChannel in LoadTester.   *)
THEOREM FirstRunSafe == MaxRuns <= 1 => (Spec => []NoSendOnClosedChannel)
<1> SUFFICES ASSUME MaxRuns <= 1 PROVE Spec => []NoSendOnClosedChannel
  OBVIOUS
<1> USE DEF opVars, lifeVars, sendVars, tally, counters
<1>1. Init => NoSendOnClosedChannel
  BY DEF Init, NoSendOnClosedChannel
<1>2. IInv => \A c \in Controllers : ~ SendOnClosedPanics(c)
  <2> SUFFICES ASSUME IInv, NEW c \in Controllers, SendOnClosedPanics(c) PROVE FALSE
    OBVIOUS
  <2>1. c \in Live /\ chanOf[c] \in closed /\ chanOf[c] \in 1..gen
    BY DEF SendOnClosedPanics, Live, IInv, Members
  <2>2. gen <= 1 /\ gen \in Nat
    BY DEF IInv, Inv1, TypeOK, Gens
  <2>3. state = "stopped"
    BY <2>1, <2>2 DEF IInv, Inv1, Shape
  <2>4. wg = 0 /\ wg = Cardinality(Live) + CountOf(buf[gen], "stopped")
    BY <2>3 DEF IInv, Inv3, Counters, Drained
  <2>5. CountOf(buf[gen], "stopped") \in Nat
    BY CountType DEF IInv, Inv1, TypeOK
  <2>6. Cardinality(Live) = 0
    BY <2>4, <2>5, LiveType
  <2>7. Live = {}
    BY <2>6, LiveType, FS_EmptySet
  <2> QED BY <2>1, <2>7
<1>3. IInv /\ NoSendOnClosedChannel /\ [Next]_vars => NoSendOnClosedChannel'
  <2> SUFFICES ASSUME IInv, ~ crashed, [Next]_vars PROVE ~ crashed'
    BY DEF NoSendOnClosedChannel
  <2>1. \A c \in Controllers : ~ SendOnClosedPanics(c)
    BY <1>2
  <2>2. \A c \in Controllers : ControllerStep(c) => UNCHANGED crashed
    BY <2>1 DEF ControllerStep, UserStarted, UserInfo, UserError, UserLeaves, UserStopped, Send
  <2>3. LockHolderStep => UNCHANGED crashed
    BY DEF LockHolderStep, RunDone, AddUsersDone, AddUserAtMax, AddIdleUser, AddNewUser,
       AddNewUserFails, RemoveDone, StopDone
  <2>4. Run \/ Stop \/ UNCHANGED vars => UNCHANGED crashed
    BY DEF Run, Stop, vars
  <2>5. \A n \in 1..(MaxActiveUsers + 1) : AddUsers(n) \/ RemoveUsers(n) => UNCHANGED crashed
    BY DEF AddUsers, RemoveUsers
  <2>6. \A c \in Controllers : CloseStopChan(c) \/ StopReturns(c) => UNCHANGED crashed
    BY DEF CloseStopChan, StopReturns
  <2>7. \A g \in Gens : HandleStatus(g) => UNCHANGED crashed
    BY DEF HandleStatus
  <2> QED BY <2>2, <2>3, <2>4, <2>5, <2>6, <2>7 DEF Next, Ended
<1> QED BY <1>1, <1>3, InductiveInvariant, PTL DEF Spec

-----------------------------------------------------------------------------
(* The active controllers run, or have run and wait for Stop to return; the *)
(* ones that removeUsers leaves alone are not being stopped.               *)
Busy == {c \in Controllers : phase[c] \notin {"unborn", "idle"}}
Kept == IF op \in {"remove", "stop"} THEN Len(active) - todo ELSE Len(active)

BusyInv ==
  /\ waiting \subseteq Busy
  /\ \A i \in 1..Kept : active[i] \in Busy \ waiting

LEMMA BusyLaunch ==
  ASSUME Inv1, BusyInv, Adding, UNCHANGED <<op, waiting>>, NEW c \in Controllers, Launch(c)
  PROVE  BusyInv'
<1>0. /\ phase \in [Controllers -> Phases] /\ active \in Seq(Controllers) /\ Len(active) \in Nat
      /\ \A i \in 1..Len(active) : active[i] \in Controllers
  BY DEF Inv1, TypeOK
<1>1. waiting = {} /\ op \notin {"remove", "stop"}
  BY DEF Inv1, Shape, Adding
<1>2. active' = Append(active, c) /\ phase' = [phase EXCEPT ![c] = "starting"]
  BY DEF Launch
<1>3. /\ Len(active') = Len(active) + 1 /\ active'[Len(active) + 1] = c
      /\ \A i \in 1..Len(active) : active'[i] = active[i]
  BY <1>0, <1>2, AppendProperties
<1>4. Busy \subseteq Busy' /\ c \in Busy'
  BY <1>0, <1>2 DEF Busy
<1>5. Kept = Len(active) /\ Kept' = Len(active')
  BY <1>1 DEF Kept
<1>6. ASSUME NEW i \in 1..Kept' PROVE active'[i] \in Busy'
  <2>1. CASE i = Len(active) + 1
    BY <1>3, <1>4, <2>1
  <2>2. CASE i # Len(active) + 1
    <3>1. i \in 1..Kept /\ active'[i] = active[i]
      BY <1>0, <1>3, <1>5, <2>2
    <3> QED BY <1>4, <3>1 DEF BusyInv
  <2> QED BY <2>1, <2>2
<1> QED BY <1>1, <1>6 DEF BusyInv

LEMMA BusyStep == Inv1 /\ Members /\ BusyInv /\ [Next]_vars => BusyInv'
<1> SUFFICES ASSUME Inv1, Members, BusyInv, [Next]_vars PROVE BusyInv'
  OBVIOUS
<1> USE DEF opVars, lifeVars, sendVars, tally, counters
<1>0. /\ phase \in [Controllers -> Phases] /\ idle \in Seq(Controllers)
      /\ active \in Seq(Controllers) /\ Len(active) \in Nat /\ todo \in Nat
      /\ \A i \in 1..Len(active) : active[i] \in Controllers
  BY DEF Inv1, TypeOK
<1>a. \A i, j \in 1..Len(active) : active[i] = active[j] => i = j
  BY DEF Members
<1>1. ASSUME Busy \subseteq Busy', UNCHANGED <<waiting, active>>, Kept' = Kept PROVE BusyInv'
  BY <1>1 DEF BusyInv
<1>2. CASE AddIdleUser
  <2>1. Head(idle) \in Controllers
    BY <1>0, <1>2, HeadTailProperties DEF AddIdleUser
  <2> QED BY <1>2, <2>1, BusyLaunch DEF AddIdleUser
<1>3. ASSUME NEW c \in Controllers, AddNewUser(c) PROVE BusyInv'
  BY <1>3, BusyLaunch DEF AddNewUser
<1>4. ASSUME NEW k \in 0..Len(active), op = "none", op' \in {"remove", "stop"}, todo' = k,
             waiting' = LastActive(k), UNCHANGED <<active, phase>>
      PROVE  BusyInv'
  <2>1. Kept = Len(active) /\ Kept' = Len(active) - k
    BY <1>4 DEF Kept
  <2>2. waiting' \subseteq Busy'
    <3> SUFFICES ASSUME NEW j \in (Len(active) - k + 1)..Len(active) PROVE active[j] \in Busy
      BY <1>4 DEF LastActive, Busy
    <3>1. j \in 1..Kept
      BY <1>0, <2>1
    <3> QED BY <3>1 DEF BusyInv
  <2>3. ASSUME NEW i \in 1..Kept' PROVE active'[i] \in Busy' \ waiting'
    <3>1. i \in 1..Kept /\ i \in 1..Len(active) /\ i <= Len(active) - k
      BY <1>0, <2>1
    <3>2. active'[i] \in Busy'
      BY <1>4, <3>1 DEF BusyInv, Busy
    <3>3. ASSUME NEW j \in (Len(active) - k + 1)..Len(active) PROVE active[j] # active[i]
      <4>1. j \in 1..Len(active) /\ j # i
        BY <1>0, <3>1
      <4> QED BY <1>a, <3>1, <4>1
    <3> QED BY <1>4, <3>2, <3>3 DEF LastActive
  <2> QED BY <2>2, <2>3 DEF BusyInv
<1>5. ASSUME NEW n \in 1..(MaxActiveUsers + 1), RemoveUsers(n) PROVE BusyInv'
  <2> DEFINE k == IF n > Len(active) THEN Len(active) ELSE n
  <2>1. k \in 0..Len(active)
    BY <1>0
  <2> QED BY <1>4, <1>5, <2>1 DEF RemoveUsers
<1>6. CASE Stop
  BY <1>0, <1>4, <1>6 DEF Stop
<1>7. ASSUME NEW c \in Controllers, StopReturns(c) PROVE BusyInv'
  <2>1. /\ c \in waiting /\ waiting' = waiting \ {c} /\ UNCHANGED <<active, op, todo>>
        /\ \A d \in Controllers : d # c => phase'[d] = phase[d]
    BY <1>0, <1>7 DEF StopReturns
  <2>2. Busy \ {c} \subseteq Busy'
    BY <2>1 DEF Busy
  <2> QED BY <2>1, <2>2 DEF BusyInv, Kept
<1>8. CASE RemoveDone
  <2> DEFINE m == Len(active) - todo
  <2>1. m \in Nat /\ Kept = m /\ op' \notin {"remove", "stop"} /\ waiting = {} /\ waiting' = {}
        /\ phase' = phase
    BY <1>0, <1>8 DEF RemoveDone, Inv1, Shape, Kept
  <2>2. Len(active') = m /\ \A i \in 1..m : active'[i] = active[i]
    <3>1. \A i \in 1..m : active[i] \in Controllers
      BY <1>0, <2>1
    <3>2. active' = SubSeq(active, 1, m)
      BY <1>8 DEF RemoveDone
    <3> QED BY <1>0, <2>1, <3>1, <3>2, SubSeqProperties
  <2>3. Kept' = Kept /\ Busy' = Busy
    BY <2>1, <2>2 DEF Kept, Busy
  <2> QED BY <2>1, <2>2, <2>3 DEF BusyInv
<1>9. ASSUME NEW c \in Controllers, ControllerStep(c) \/ CloseStopChan(c) PROVE BusyInv'
  <2>1. UNCHANGED <<op, todo, waiting, active>> /\ Busy \subseteq Busy'
    BY <1>0, <1>9 DEF ControllerStep, UserStarted, UserInfo, UserError, UserLeaves, UserStopped,
       SendOnClosedPanics, CloseStopChan, Busy
  <2> QED BY <1>1, <2>1 DEF Kept
<1>10. ASSUME NEW g \in Gens, HandleStatus(g) PROVE BusyInv'
  BY <1>1, <1>10 DEF HandleStatus, Busy, Kept
<1>11. \A n \in 1..(MaxActiveUsers + 1) : AddUsers(n) => BusyInv'
  BY <1>1 DEF AddUsers, Busy, Kept
<1>12. Run \/ RunDone \/ AddUsersDone \/ AddUserAtMax \/ AddNewUserFails \/ StopDone => BusyInv'
  BY <1>1 DEF Run, RunDone, AddUsersDone, AddUserAtMax, AddNewUserFails, StopDone, Adding, Busy, Kept
<1>13. UNCHANGED vars => BusyInv'
  BY <1>1 DEF vars, Busy, Kept
<1> QED
  BY <1>2, <1>3, <1>5, <1>6, <1>7, <1>8, <1>9, <1>10, <1>11, <1>12, <1>13
     DEF Next, LockHolderStep, Ended

(* Every step is one of the controller's life, or leaves it alone.         *)
LEMMA LifeStep ==
  ASSUME Inv1, Members, BusyInv, [Next]_vars, NEW c \in Controllers
  PROVE  [Life(c)!Next]_(Life(c)!vars)
<1> USE DEF opVars, lifeVars, sendVars, tally, counters
<1>0. phase \in [Controllers -> Phases] /\ idle \in Seq(Controllers)
  BY DEF Inv1, TypeOK
<1>1. ASSUME phase'[c] = phase[c], c \in stopping' <=> c \in stopping
      PROVE  [Life(c)!Next]_(Life(c)!vars)
  BY <1>1 DEF Life!vars
<1>2. ASSUME NEW d \in Controllers, phase[d] \in {"unborn", "idle"}, Launch(d), Adding
      PROVE  [Life(c)!Next]_(Life(c)!vars)
  <2>1. phase' = [phase EXCEPT ![d] = "starting"] /\ stopping' = stopping /\ d \notin stopping
    BY <1>2 DEF Launch, Adding, Inv1, Shape
  <2>2. CASE c = d
    BY <1>0, <1>2, <2>1, <2>2 DEF Life!Next, Life!Run
  <2>3. CASE c # d
    BY <1>0, <1>1, <2>1, <2>3
  <2> QED BY <2>2, <2>3
<1>3. CASE AddIdleUser
  <2>1. Head(idle) = idle[1] /\ 1 \in 1..Len(idle) /\ idle[1] \in Controllers
    BY <1>0, <1>3, HeadTailProperties DEF AddIdleUser
  <2>2. phase[Head(idle)] = "idle"
    BY <2>1 DEF Members
  <2> QED BY <1>2, <1>3, <2>1, <2>2 DEF AddIdleUser
<1>4. ASSUME NEW d \in Controllers, AddNewUser(d) PROVE [Life(c)!Next]_(Life(c)!vars)
  BY <1>2, <1>4 DEF AddNewUser
<1>5. ASSUME NEW d \in Controllers, CloseStopChan(d) PROVE [Life(c)!Next]_(Life(c)!vars)
  <2>1. d \in waiting \ stopping /\ stopping' = stopping \union {d} /\ phase' = phase
    BY <1>5 DEF CloseStopChan
  <2>2. CASE c = d
    <3>1. phase[c] \notin {"unborn", "idle"}
      BY <2>1, <2>2 DEF BusyInv, Busy
    <3> QED BY <2>1, <2>2, <3>1 DEF Life!Next, Life!CallStop
  <2>3. CASE c # d
    BY <1>1, <2>1, <2>3
  <2> QED BY <2>2, <2>3
<1>6. ASSUME NEW d \in Controllers, StopReturns(d) PROVE [Life(c)!Next]_(Life(c)!vars)
  <2>1. /\ d \in stopping /\ phase[d] = "stopped" /\ stopping' = stopping \ {d}
        /\ phase' = [phase EXCEPT ![d] = "idle"]
    BY <1>6 DEF StopReturns
  <2>2. CASE c = d
    BY <1>0, <2>1, <2>2 DEF Life!Next, Life!StopReturns
  <2>3. CASE c # d
    BY <1>0, <1>1, <2>1, <2>3
  <2> QED BY <2>2, <2>3
<1>7. ASSUME NEW d \in Controllers, ControllerStep(d) PROVE [Life(c)!Next]_(Life(c)!vars)
  <2>1. stopping' = stopping
    BY <1>7 DEF ControllerStep, UserStarted, UserInfo, UserError, UserLeaves, UserStopped,
       SendOnClosedPanics
  <2>2. CASE UserStarted(c)
    BY <1>0, <2>1, <2>2 DEF UserStarted, Life!Next, Life!Started
  <2>3. CASE UserLeaves(c)
    BY <1>0, <2>1, <2>3 DEF UserLeaves, Life!Next, Life!Leave
  <2>4. CASE UserStopped(c)
    BY <1>0, <2>1, <2>4 DEF UserStopped, Life!Next, Life!Stopped
  <2>5. CASE ~ (UserStarted(c) \/ UserLeaves(c) \/ UserStopped(c))
    <3>1. phase'[c] = phase[c]
      BY <1>0, <1>7, <2>5 DEF ControllerStep, UserStarted, UserInfo, UserError, UserLeaves,
         UserStopped, SendOnClosedPanics
    <3> QED BY <1>1, <2>1, <3>1
  <2> QED BY <2>2, <2>3, <2>4, <2>5
<1>8. Run \/ RunDone \/ AddUsersDone \/ AddUserAtMax \/ AddNewUserFails \/ RemoveDone \/ StopDone
        \/ Stop \/ UNCHANGED vars => UNCHANGED <<phase, stopping>>
  BY DEF Run, RunDone, AddUsersDone, AddUserAtMax, AddNewUserFails, RemoveDone, StopDone, Stop, vars
<1>9. \A n \in 1..(MaxActiveUsers + 1) : AddUsers(n) \/ RemoveUsers(n) => UNCHANGED <<phase, stopping>>
  BY DEF AddUsers, RemoveUsers
<1>10. \A g \in Gens : HandleStatus(g) => UNCHANGED <<phase, stopping>>
  BY DEF HandleStatus
<1> QED
  BY <1>1, <1>3, <1>4, <1>5, <1>6, <1>7, <1>8, <1>9, <1>10 DEF Next, LockHolderStep, Ended

(* The load test uses each of its controllers as they are made to be used: *)
(* it calls Stop only of one that runs, and not again before that Stop has *)
(* returned, and Run only when no Run and no Stop is going on.             *)
THEOREM UsesControllersRightly == Spec => ControllersLive
<1> DEFINE A == \A c \in Controllers : [Life(c)!Next]_(Life(c)!vars)
<1>1. Init => BusyInv
  <2> SUFFICES ASSUME Init PROVE BusyInv
    OBVIOUS
  <2>1. Kept = 0 /\ waiting = {}
    BY EmptySeq DEF Init, Kept
  <2> QED BY <2>1 DEF BusyInv
<1>2. IInv /\ BusyInv /\ [Next]_vars => BusyInv'
  BY BusyStep DEF IInv
<1>3. IInv /\ BusyInv /\ [Next]_vars => [A]_vars
  BY LifeStep DEF IInv
<1>4. ControllersLive <=> [][A]_vars
  BY DEF ControllersLive
<1> HIDE DEF A
<1> QED BY <1>1, <1>2, <1>3, <1>4, InductiveInvariant, PTL DEF Spec
=============================================================================
