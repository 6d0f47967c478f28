--------------------------- MODULE GenUsersProofs ---------------------------
(* Theorems about GenUsers, for any users, targets and frequencies.        *)
EXTENDS GenUsers, FiniteSetTheorems, TLAPS

USE TargetsAssumption, UsersAssumption, WeightedAssumption

LEMMA TargetType == Target \in [Kinds -> Nat]
BY DEF Target, Kinds

LEMMA KindOfType == \A a \in Actions : KindOf[a] \in Kinds \union {NoKind}
BY DEF KindOf, Kinds, Actions

LEMMA NoActionMakesTeams == \A a \in Actions : KindOf[a] # "teams"
BY DEF KindOf, Kinds, Actions

LEMMA OrderType == \A i \in 1..4 : Order[i] \in Kinds
BY DEF Order, Kinds

LEMMA MakingFinite ==
  ASSUME NEW k \in Kinds
  PROVE  IsFiniteSet(Making(k)) /\ Cardinality(Making(k)) \in Nat
BY FS_Subset, FS_CardinalityType DEF Making

-----------------------------------------------------------------------------
(* A user begins to make something, has made it, or has failed to.         *)

LEMMA BeginsToMake ==
  ASSUME TypeOK, CountersExact, NEW u \in Users, NEW k \in Kinds,
         making[u] = NoKind, inc(k), making' = [making EXCEPT ![u] = k], made' = made
  PROVE  CountersExact' /\ count' \in [Kinds -> Nat]
<1>1. /\ count \in [Kinds -> Nat] /\ made \in [Kinds -> Nat]
      /\ making \in [Users -> Kinds \union {NoKind}]
  BY DEF TypeOK
<1>2. count' = [count EXCEPT ![k] = @ + 1] /\ count[k] # Target[k]
  BY DEF inc
<1>3. ASSUME NEW j \in Kinds
      PROVE  count'[j] = made'[j] + Cardinality(Making(j)') /\ count'[j] <= Target[j]
  <2>1. count[j] = made[j] + Cardinality(Making(j)) /\ count[j] <= Target[j]
    BY DEF CountersExact
  <2>2. CASE j = k
    <3>1. Making(j)' = Making(j) \union {u} /\ u \notin Making(j)
      BY <2>2, <1>1 DEF Making
    <3>2. Cardinality(Making(j)') = Cardinality(Making(j)) + 1
      BY <3>1, MakingFinite, FS_AddElement
    <3>3. count'[j] = count[j] + 1
      BY <1>1, <1>2, <2>2
    <3>4. count[j] \in Nat /\ made[j] \in Nat /\ Target[j] \in Nat
          /\ Cardinality(Making(j)) \in Nat
      BY <1>1, TargetType, MakingFinite
    <3>5. count[j] + 1 <= Target[j]
      BY <3>4, <2>1, <2>2, <1>2
    <3> QED BY <3>2, <3>3, <3>4, <3>5, <2>1
  <2>3. CASE j # k
    <3>1. Making(j)' = Making(j)
      BY <2>3, <1>1 DEF Making
    <3> QED BY <3>1, <2>1, <2>3, <1>1, <1>2
  <2> QED BY <2>2, <2>3
<1>4. count' \in [Kinds -> Nat]
  BY <1>1, <1>2
<1> QED BY <1>3, <1>4 DEF CountersExact

LEMMA NoLongerMaking ==
  ASSUME TypeOK, NEW u \in Users, making[u] \in Kinds,
         making' = [making EXCEPT ![u] = NoKind], NEW j \in Kinds
  PROVE  Cardinality(Making(j)) =
           Cardinality(Making(j)') + (IF j = making[u] THEN 1 ELSE 0)
         /\ Cardinality(Making(j)') \in Nat
<1>1. making \in [Users -> Kinds \union {NoKind}]
  BY DEF TypeOK
<1>2. CASE j = making[u]
  <2>1. Making(j)' = Making(j) \ {u} /\ u \in Making(j)
    BY <1>1, <1>2 DEF Making
  <2> QED BY <2>1, <1>2, MakingFinite, FS_RemoveElement, FS_CardinalityType
<1>3. CASE j # making[u]
  <2>1. Making(j)' = Making(j)
    BY <1>1, <1>3 DEF Making
  <2> QED BY <2>1, <1>3, MakingFinite
<1> QED BY <1>2, <1>3

LEMMA HasMade ==
  ASSUME TypeOK, CountersExact, NEW u \in Users, making[u] \in Kinds,
         made' = [made EXCEPT ![making[u]] = @ + 1],
         making' = [making EXCEPT ![u] = NoKind], count' = count
  PROVE  CountersExact' /\ made' \in [Kinds -> Nat]
<1>1. count \in [Kinds -> Nat] /\ made \in [Kinds -> Nat]
  BY DEF TypeOK
<1>2. ASSUME NEW j \in Kinds
      PROVE  count'[j] = made'[j] + Cardinality(Making(j)') /\ count'[j] <= Target[j]
  <2>1. count[j] = made[j] + Cardinality(Making(j)) /\ count[j] <= Target[j]
    BY DEF CountersExact
  <2>2. made'[j] = made[j] + (IF j = making[u] THEN 1 ELSE 0)
    BY <1>1
  <2>3. count[j] \in Nat /\ made[j] \in Nat
    BY <1>1
  <2>4. Cardinality(Making(j)) = Cardinality(Making(j)') + (IF j = making[u] THEN 1 ELSE 0)
        /\ Cardinality(Making(j)') \in Nat
    BY NoLongerMaking
  <2> QED BY <2>1, <2>2, <2>3, <2>4
<1> QED BY <1>2, <1>1 DEF CountersExact

LEMMA HasFailed ==
  ASSUME TypeOK, CountersExact, NEW u \in Users, making[u] \in Kinds,
         dec(making[u]), making' = [making EXCEPT ![u] = NoKind], made' = made
  PROVE  CountersExact' /\ count' \in [Kinds -> Nat]
<1>1. count \in [Kinds -> Nat] /\ made \in [Kinds -> Nat]
  BY DEF TypeOK
<1>2. ASSUME NEW j \in Kinds
      PROVE  /\ count'[j] = made'[j] + Cardinality(Making(j)')
             /\ count'[j] <= Target[j] /\ count'[j] \in Nat
  <2>1. count[j] = made[j] + Cardinality(Making(j)) /\ count[j] <= Target[j]
    BY DEF CountersExact
  <2>2. count'[j] = count[j] - (IF j = making[u] THEN 1 ELSE 0)
    BY <1>1 DEF dec
  <2>3. Target[j] \in Nat /\ count[j] \in Nat /\ made[j] \in Nat
    BY <1>1, TargetType
  <2>4. Cardinality(Making(j)) = Cardinality(Making(j)') + (IF j = making[u] THEN 1 ELSE 0)
        /\ Cardinality(Making(j)') \in Nat
    BY NoLongerMaking
  <2> QED BY <2>1, <2>2, <2>3, <2>4
<1>3. count' \in [Kinds -> Nat]
  BY <1>1, <1>2 DEF dec
<1> QED BY <1>2, <1>3 DEF CountersExact

-----------------------------------------------------------------------------
(* Counters are read only after acting, from the first on; a user makes    *)
(* what it has counted in the place where it counted it, and while it may. *)
InPlace ==
  \A u \in Users :
    /\ pc[u] \notin {"check", "trim"} => reading[u] = 1
    /\ pc[u] = "createTeam" => making[u] \in {"teams", NoKind}
    /\ pc[u] = "pick" /\ making[u] # NoKind =>
         \E a \in actions[u] : KindOf[a] = making[u]
    /\ pc[u] \notin {"createTeam", "pick"} => making[u] = NoKind

IInv == TypeOK /\ CountersExact /\ InPlace

LEMMA IInvInit == Init => IInv
<1> SUFFICES ASSUME Init PROVE IInv
  OBVIOUS
<1>1. TypeOK
  BY DEF Init, TypeOK, InitSteps, Over
<1>2. CountersExact
  <2>1. \A k \in Kinds : Making(k) = {}
    BY DEF Init, Making
  <2> QED BY <2>1, FS_EmptySet, TargetType DEF Init, CountersExact
<1>3. InPlace
  BY DEF Init, InPlace
<1> QED BY <1>1, <1>2, <1>3 DEF IInv

LEMMA CountersQuiet ==
  ASSUME CountersExact, UNCHANGED <<count, made, making>>
  PROVE  CountersExact'
BY DEF CountersExact, Making

(* A user that moves while nothing is counted.                             *)
LEMMA MoveKeeps ==
  ASSUME IInv, NEW u \in Users, making[u] = NoKind,
         NEW l \in InitSteps \union {"pick", "check", "trim", "idle"} \union Over,
         Goto(u, l), UNCHANGED <<count, made, making, stop, command>>,
         NEW r \in 1..4, reading' = [reading EXCEPT ![u] = r],
         l \notin {"check", "trim"} => r = 1,
         actions' = actions, member' \in [Users -> BOOLEAN]
  PROVE  IInv'
<1>1. TypeOK'
  BY DEF IInv, TypeOK, Goto
<1>2. CountersExact'
  BY CountersQuiet DEF IInv
<1>3. InPlace'
  BY DEF IInv, TypeOK, InPlace, Goto
<1> QED BY <1>1, <1>2, <1>3 DEF IInv

(* Where an initial action leads.                                          *)
LEMMA ProceedLeads ==
  ASSUME TypeOK, NEW u \in Users, pc[u] \in InitSteps, NEW ok \in BOOLEAN, Proceed(u, ok)
  PROVE  \E l \in InitSteps \union {"pick", "leaving"} :
           /\ Goto(u, l)
           /\ l = "leaving" => stop[u]
           /\ l # pc[u] => ok \/ l = "leaving"
<1>1. After(pc[u]) \in (InitSteps \union {"pick"}) \ {pc[u]}
  BY DEF After, InitSteps
<1>2. stop[u] \in BOOLEAN
  BY DEF TypeOK
<1> DEFINE l == IF stop[u] THEN "leaving" ELSE IF ok THEN After(pc[u]) ELSE pc[u]
<1>3. Goto(u, l)
  BY DEF Proceed
<1>4. l \in InitSteps \union {"pick", "leaving"}
  BY <1>1
<1>5. l = "leaving" => stop[u]
  BY <1>1 DEF InitSteps
<1>6. l # pc[u] => ok \/ l = "leaving"
  OBVIOUS
<1> HIDE DEF l
<1> QED BY <1>3, <1>4, <1>5, <1>6

LEMMA ProceedKeeps ==
  ASSUME IInv, NEW u \in Users, pc[u] \in InitSteps, making[u] = NoKind,
         NEW ok \in BOOLEAN, Proceed(u, ok),
         UNCHANGED <<count, made, making, actions, reading, stop, command>>,
         member' \in [Users -> BOOLEAN]
  PROVE  IInv'
<1>1. PICK l \in InitSteps \union {"pick", "leaving"} : Goto(u, l)
  BY ProceedLeads DEF IInv
<1>2. reading[u] = 1 /\ reading' = [reading EXCEPT ![u] = 1]
  BY DEF IInv, InPlace, InitSteps, TypeOK
<1>3. l \notin {"check", "trim"} /\ l \in InitSteps \union {"pick", "check", "trim", "idle"} \union Over
  BY DEF InitSteps, Over
<1>4. 1 \in 1..4 /\ actions' = actions /\ UNCHANGED <<count, made, making, stop, command>>
  OBVIOUS
<1> HIDE DEF Goto
<1> QED BY <1>1, <1>2, <1>3, <1>4, MoveKeeps

(* A user that ends, made or not, what it had counted.                     *)
LEMMA EndsMaking ==
  ASSUME IInv, NEW u \in Users, making' = [making EXCEPT ![u] = NoKind],
         NEW l \in InitSteps \union {"pick", "check", "leaving"}, Goto(u, l), reading[u] = 1,
         UNCHANGED <<actions, reading, member, stop, command>>,
         CountersExact', count' \in [Kinds -> Nat], made' \in [Kinds -> Nat]
  PROVE  IInv'
<1>1. TypeOK'
  BY DEF IInv, TypeOK, Goto, Over
<1>2. InPlace'
  BY DEF IInv, TypeOK, InPlace, Goto
<1> QED BY <1>1, <1>2 DEF IInv

LEMMA CountKeeps ==
  ASSUME IInv, NEW u \in Users, NEW k \in Kinds, making[u] = NoKind, inc(k),
         making' = [making EXCEPT ![u] = k],
         \/ pc[u] = "createTeam" /\ k = "teams"
         \/ pc[u] = "pick" /\ \E a \in actions[u] : KindOf[a] = k,
         UNCHANGED <<made, pc, actions, reading, member, stop, command>>
  PROVE  IInv'
<1>1. CountersExact' /\ count' \in [Kinds -> Nat]
  BY BeginsToMake DEF IInv
<1>2. TypeOK'
  BY <1>1 DEF IInv, TypeOK
<1>3. InPlace'
  BY DEF IInv, TypeOK, InPlace
<1> QED BY <1>1, <1>2, <1>3 DEF IInv

LEMMA UserKeeps == ASSUME IInv, NEW u \in Users, User(u) PROVE IInv'
<1>0. /\ pc[u] \in InitSteps \union {"pick", "check", "trim", "idle"} \union Over
      /\ reading[u] \in 1..4 /\ member[u] \in BOOLEAN /\ member \in [Users -> BOOLEAN]
      /\ making \in [Users -> Kinds \union {NoKind}]
      /\ pc[u] \notin {"createTeam", "pick"} => making[u] = NoKind
      /\ pc[u] \notin {"check", "trim"} => reading[u] = 1
      /\ reading \in [Users -> 1..4]
  BY DEF IInv, TypeOK, InPlace
<1>1. CASE SignUpOrLogin(u)
  <2>1. pc[u] \in InitSteps /\ making[u] = NoKind
    BY <1>0, <1>1 DEF SignUpOrLogin, InitSteps
  <2> QED BY <1>0, <1>1, <2>1, ProceedKeeps DEF SignUpOrLogin
<1>2. CASE TeamTargetReached(u)
  <2>1. pc[u] \in InitSteps
    BY <1>2 DEF TeamTargetReached, InitSteps
  <2> QED BY <1>0, <1>2, <2>1, ProceedKeeps DEF TeamTargetReached
<1>3. CASE CountTeam(u)
  BY <1>3, CountKeeps DEF CountTeam, Kinds
<1>4. CASE TeamMade(u) \/ TeamNotMade(u)
  <2>1. "teams" \in Kinds /\ making[u] = "teams"
    BY <1>4 DEF Kinds, TeamMade, TeamNotMade
  <2>2. pc[u] \in {"createTeam", "pick"}
    BY <2>1, <1>0
  <2>3. reading[u] = 1
    BY <2>2, <1>0
  <2>4. PICK ok \in BOOLEAN : Proceed(u, ok)
    BY <1>4 DEF TeamMade, TeamNotMade
  <2>5. pc[u] = "createTeam"
    BY <2>1, <2>2, NoActionMakesTeams DEF IInv, InPlace, TypeOK
  <2>6. PICK l \in InitSteps \union {"pick", "leaving"} : Goto(u, l)
    BY <2>4, <2>5, ProceedLeads DEF IInv, InitSteps
  <2>7. making' = [making EXCEPT ![u] = NoKind]
        /\ UNCHANGED <<actions, reading, member, stop, command>>
    BY <1>4 DEF TeamMade, TeamNotMade
  <2>8. CountersExact' /\ count' \in [Kinds -> Nat] /\ made' \in [Kinds -> Nat]
    <3>1. CASE TeamMade(u)
      BY <3>1, <2>1, HasMade DEF TeamMade, IInv, TypeOK
    <3>2. CASE TeamNotMade(u)
      BY <3>2, <2>1, HasFailed DEF TeamNotMade, IInv, TypeOK
    <3> QED BY <1>4, <3>1, <3>2
  <2> HIDE DEF Goto
  <2> QED BY <2>3, <2>6, <2>7, <2>8, EndsMaking
<1>5. CASE joinTeam(u)
  <2>1. pc[u] \in InitSteps /\ making[u] = NoKind
    BY <1>0, <1>5 DEF joinTeam, InitSteps
  <2>2. member' \in [Users -> BOOLEAN]
    BY <1>0, <1>5 DEF joinTeam
  <2>3. PICK ok \in BOOLEAN : Proceed(u, ok)
    BY <1>5 DEF joinTeam
  <2> QED BY <1>5, <2>1, <2>2, <2>3, ProceedKeeps DEF joinTeam
<1>6. CASE joinChannel(u)
  <2>1. pc[u] \in InitSteps /\ making[u] = NoKind
    BY <1>0, <1>6 DEF joinChannel, InitSteps
  <2> QED BY <1>0, <1>6, <2>1, ProceedKeeps DEF joinChannel
<1>7. CASE ActUncounted(u)
  <2>1. reading' = [reading EXCEPT ![u] = 1]
    BY <1>0, <1>7 DEF ActUncounted
  <2> QED BY <1>0, <1>7, <2>1, MoveKeeps DEF ActUncounted
<1>8. CASE Counts(u)
  <2>1. PICK a \in Actions : Count(u, a)
    BY <1>8 DEF Counts, Begins
  <2> QED BY <2>1, CountKeeps, KindOfType DEF Count
<1>9. CASE Made(u) \/ NotMade(u)
  <2>1. making[u] \in Kinds /\ pc[u] = "pick"
    BY <1>9, <1>0 DEF Made, NotMade
  <2>2. making' = [making EXCEPT ![u] = NoKind] /\ Goto(u, "check")
        /\ UNCHANGED <<actions, reading, member, stop, command>>
    BY <1>9 DEF Made, NotMade
  <2>3. CountersExact' /\ count' \in [Kinds -> Nat] /\ made' \in [Kinds -> Nat]
    <3>1. CASE Made(u)
      BY <3>1, <2>1, HasMade DEF Made, IInv, TypeOK
    <3>2. CASE NotMade(u)
      BY <3>2, <2>1, HasFailed DEF NotMade, IInv, TypeOK
    <3> QED BY <1>9, <3>1, <3>2
  <2> HIDE DEF Goto
  <2> QED BY <1>0, <2>1, <2>2, <2>3, EndsMaking
<1>10. CASE done(u)
  <2>1. making[u] = NoKind /\ UNCHANGED <<count, made, making, actions, member, stop, command>>
    BY <1>0, <1>10 DEF done
  <2>2. \/ Goto(u, "leaving") /\ reading' = [reading EXCEPT ![u] = 1]
        \/ reading[u] # 4 /\ Goto(u, "check") /\ reading' = [reading EXCEPT ![u] = reading[u] + 1]
        \/ Goto(u, "trim") /\ reading' = [reading EXCEPT ![u] = 2]
    BY <1>10 DEF done, Goto, IInv, TypeOK
  <2>3. reading[u] # 4 => reading[u] + 1 \in 1..4
    BY <1>0
  <2> HIDE DEF Goto
  <2> QED BY <1>0, <2>1, <2>2, <2>3, MoveKeeps DEF Over
<1>11. CASE Trim(u)
  <2>1. /\ making[u] = NoKind /\ UNCHANGED <<count, made, making, member, stop, command>>
        /\ actions' \in [Users -> SUBSET Actions]
        /\ \A v \in Users : v # u => actions'[v] = actions[v]
    BY <1>0, <1>11 DEF Trim, IInv, TypeOK
  <2>2. \/ Goto(u, "idle") /\ reading' = [reading EXCEPT ![u] = 1]
        \/ reading[u] # 4 /\ Goto(u, "trim") /\ reading' = [reading EXCEPT ![u] = reading[u] + 1]
    BY <1>11 DEF Trim, Goto, IInv, TypeOK
  <2>3. reading[u] # 4 => reading[u] + 1 \in 1..4
    BY <1>0
  <2>4. TypeOK'
    BY <2>1, <2>2, <2>3 DEF IInv, TypeOK, Goto
  <2>5. CountersExact'
    BY <2>1, CountersQuiet DEF IInv
  <2>6. InPlace'
    BY <2>1, <2>2, <1>0 DEF IInv, TypeOK, InPlace, Goto
  <2> QED BY <2>4, <2>5, <2>6 DEF IInv
<1>12. CASE Idle(u)
  <2>1. PICK l \in {"leaving", "pick"} : Goto(u, l)
    BY <1>12 DEF Idle
  <2>2. reading' = [reading EXCEPT ![u] = 1] /\ making[u] = NoKind
        /\ UNCHANGED <<count, made, making, actions, member, stop, command>>
    BY <1>0, <1>12 DEF Idle
  <2>3. 1 \in 1..4
    OBVIOUS
  <2> HIDE DEF Goto
  <2> QED BY <1>0, <2>1, <2>2, <2>3, MoveKeeps DEF Over
<1>13. CASE Leave(u)
  <2>1. reading' = [reading EXCEPT ![u] = 1] /\ making[u] = NoKind /\ Goto(u, "stopped")
        /\ UNCHANGED <<count, made, making, actions, member, stop, command>>
    BY <1>0, <1>13 DEF Leave
  <2>2. 1 \in 1..4
    OBVIOUS
  <2> HIDE DEF Goto
  <2> QED BY <1>0, <2>1, <2>2, MoveKeeps DEF Over
<1> QED BY <1>1, <1>2, <1>3, <1>4, <1>5, <1>6, <1>7, <1>8, <1>9, <1>10, <1>11, <1>12, <1>13
        DEF User

LEMMA IInvStep == IInv /\ [Next]_vars => IInv'
<1> SUFFICES ASSUME IInv, [Next]_vars PROVE IInv'
  OBVIOUS
<1>1. CASE \E u \in Users : User(u)
  BY <1>1, UserKeeps
<1>2. CASE (\E u \in Users : Stop(u)) \/ CommandEnds \/ UNCHANGED vars
  <2>1. UNCHANGED <<count, made, pc, making, actions, reading, member>>
        /\ stop' \in [Users -> BOOLEAN] /\ command' \in {"waiting", "over"}
    BY <1>2 DEF Stop, CommandEnds, vars, IInv, TypeOK
  <2>2. TypeOK' /\ InPlace'
    BY <2>1 DEF IInv, TypeOK, InPlace
  <2> QED BY <2>1, <2>2, CountersQuiet DEF IInv
<1> QED BY <1>1, <1>2 DEF Next

LEMMA IInvAlways == Spec => []IInv
BY IInvInit, IInvStep, PTL DEF Spec

(* Every variable keeps its type: no counter is ever below zero.           *)
THEOREM TypeCorrect == Spec => []TypeOK
<1>1. IInv => TypeOK
  BY DEF IInv
<1> QED BY <1>1, IInvAlways, PTL

(* The shared counters are what the server has made and what is being made,*)
(* and never more than the targets.                                        *)
THEOREM CountsWhatIsMade == Spec => []CountersExact
<1>1. IInv => CountersExact
  BY DEF IInv
<1> QED BY <1>1, IInvAlways, PTL

-----------------------------------------------------------------------------
LEMMA OthersAlone ==
  ASSUME IInv, NEW u \in Users, User(u), NEW v \in Users, v # u
  PROVE  pc'[v] = pc[v] /\ actions'[v] = actions[v] /\ reading'[v] = reading[v]
BY DEF User, SignUpOrLogin, TeamTargetReached, CountTeam, TeamMade, TeamNotMade, joinTeam,
       joinChannel, ActUncounted, Counts, Begins, Count, Made, NotMade, done, Trim, Idle, Leave,
       Proceed, Goto, IInv, TypeOK

LEMMA UserStops ==
  ASSUME NEW u \in Users, User(u)
  PROVE  stop' = stop /\ command' = command
BY DEF User, SignUpOrLogin, TeamTargetReached, CountTeam, TeamMade, TeamNotMade, joinTeam,
       joinChannel, ActUncounted, Counts, Begins, Count, Made, NotMade, done, Trim, Idle, Leave

(* The actions given up at a target are those that work towards it.        *)
LEMMA GivesUpOnly ==
  ASSUME NEW i \in 2..4, NEW a \in Actions, NEW k \in Kinds, KindOf[a] = k, k # Order[i]
  PROVE  a \notin GivenUp(Order[i])
BY DEF GivenUp, KindOf, Order, Kinds, Actions

(* A user that makes things whose target is missed goes on, or is stopped. *)
LEMMA GoesOn ==
  ASSUME IInv, NEW u \in Users, User(u), NEW k \in Kinds, Makes(u, k), count[k] # Target[k]
  PROVE  Makes(u, k)' \/ stop[u]
<1>0. /\ pc[u] \notin Over /\ pc \in [Users -> InitSteps \union {"pick", "check", "trim", "idle"} \union Over]
      /\ actions \in [Users -> SUBSET Actions] /\ reading \in [Users -> 1..4]
      /\ pc[u] \notin {"check", "trim"} => reading[u] = 1
  BY DEF Makes, IInv, TypeOK, InPlace
<1>1. PICK a \in actions[u] : KindOf[a] = k
  BY DEF Makes
<1>2. ASSUME actions' = actions, pc'[u] \notin Over \union {"check"} PROVE Makes(u, k)'
  BY <1>2, <1>1 DEF Makes
<1>3. ASSUME actions' = actions, pc'[u] = "check", reading'[u] = 1 PROVE Makes(u, k)'
  BY <1>3, <1>1 DEF Makes, Over
<1>4. CASE SignUpOrLogin(u) \/ TeamTargetReached(u) \/ joinTeam(u) \/ joinChannel(u)
  <2>1. pc[u] \in InitSteps /\ actions' = actions
    BY <1>4 DEF SignUpOrLogin, TeamTargetReached, joinTeam, joinChannel, InitSteps
  <2>2. PICK ok \in BOOLEAN : Proceed(u, ok)
    BY <1>4 DEF SignUpOrLogin, TeamTargetReached, joinTeam, joinChannel
  <2>3. PICK l \in InitSteps \union {"pick", "leaving"} : Goto(u, l) /\ (l = "leaving" => stop[u])
    BY <2>1, <2>2, ProceedLeads DEF IInv
  <2>4. pc'[u] = l
    BY <2>3, <1>0 DEF Goto
  <2> QED BY <2>1, <2>3, <2>4, <1>2 DEF InitSteps, Over
<1>5. CASE TeamMade(u) \/ TeamNotMade(u)
  <2>1. making[u] = "teams" /\ actions' = actions
    BY <1>5 DEF TeamMade, TeamNotMade
  <2>2. PICK ok \in BOOLEAN : Proceed(u, ok)
    BY <1>5 DEF TeamMade, TeamNotMade
  <2>3. pc[u] \in InitSteps
    BY <2>1, NoActionMakesTeams DEF IInv, InPlace, TypeOK, InitSteps, Kinds
  <2>4. PICK l \in InitSteps \union {"pick", "leaving"} : Goto(u, l) /\ (l = "leaving" => stop[u])
    BY <2>3, <2>2, ProceedLeads DEF IInv
  <2>5. pc'[u] = l
    BY <2>4, <1>0 DEF Goto
  <2> QED BY <2>1, <2>4, <2>5, <1>2 DEF InitSteps, Over
<1>6. CASE CountTeam(u) \/ Counts(u)
  <2>1. actions' = actions /\ pc' = pc /\ pc[u] \in {"createTeam", "pick"}
    BY <1>6 DEF CountTeam, Counts, Begins, Count
  <2> QED BY <2>1, <1>2 DEF Over
<1>7. CASE ActUncounted(u) \/ Made(u) \/ NotMade(u)
  <2>1. actions' = actions /\ pc'[u] = "check" /\ reading' = reading /\ pc[u] = "pick"
    BY <1>7, <1>0 DEF ActUncounted, Made, NotMade, Goto
  <2> QED BY <2>1, <1>0, <1>3
<1>8. CASE done(u)
  <2>1. actions' = actions /\ pc[u] = "check"
    BY <1>8 DEF done
  <2>2. \A i \in 1..(reading[u] - 1) : Order[i] # k
    BY <2>1 DEF Makes
  <2>3. CASE Reached(u)
    <3>1. Order[reading[u]] # k
      BY <2>3 DEF Reached
    <3>2. CASE reading[u] = 4
      <4>1. \A i \in 1..4 : Order[i] # k
        BY <2>2, <3>1, <3>2
      <4> QED BY <4>1 DEF Order, Kinds
    <3>3. CASE reading[u] # 4
      <4>1. pc'[u] = "check" /\ reading'[u] = reading[u] + 1
        BY <1>8, <2>3, <3>3, <1>0 DEF done
      <4>2. \A i \in 1..(reading'[u] - 1) : Order[i] # k
        BY <2>2, <3>1, <4>1, <1>0
      <4> QED BY <4>1, <4>2, <2>1, <1>1 DEF Makes, Over
    <3> QED BY <3>2, <3>3
  <2>4. CASE ~ Reached(u)
    <3>1. pc'[u] = "trim"
      BY <1>8, <2>4, <1>0 DEF done, Goto
    <3> QED BY <3>1, <2>1, <1>2 DEF Over
  <2> QED BY <2>3, <2>4
<1>9. CASE Trim(u)
  <2>1. pc'[u] \in {"trim", "idle"} /\ pc[u] = "trim"
    BY <1>9, <1>0 DEF Trim, Goto
  <2>2. a \in actions'[u]
    <3>1. CASE Reached(u)
      <4>1. k # Order[reading[u]]
        BY <3>1 DEF Reached
      <4>2. actions'[u] = actions[u] \ GivenUp(Order[reading[u]])
        BY <3>1, <1>9, <1>0 DEF Trim
      <4>3. CASE reading[u] = 1
        <5>1. GivenUp(Order[1]) = {}
          BY NoActionMakesTeams DEF GivenUp, Order
        <5> QED BY <5>1, <4>2, <4>3, <1>1
      <4>4. CASE reading[u] # 1
        <5>1. a \in Actions /\ reading[u] \in 2..4
          BY <4>4, <1>0, <1>1
        <5> QED BY <5>1, <4>1, <4>2, <1>1, GivesUpOnly
      <4> QED BY <4>3, <4>4
    <3>2. CASE ~ Reached(u)
      BY <3>2, <1>9, <1>1 DEF Trim
    <3> QED BY <3>1, <3>2
  <2> QED BY <2>1, <2>2, <1>1 DEF Makes, Over
<1>10. CASE Idle(u)
  <2>1. actions' = actions /\ (stop[u] \/ pc'[u] = "pick")
    BY <1>10, <1>0 DEF Idle, Goto
  <2> QED BY <2>1, <1>2 DEF Over
<1>11. CASE Leave(u)
  BY <1>11, <1>0 DEF Leave, Over
<1> QED BY <1>4, <1>5, <1>6, <1>7, <1>8, <1>9, <1>10, <1>11 DEF User

(* Only a user that makes such things takes one back.                      *)
LEMMA TakesBack ==
  ASSUME IInv, NEW u \in Users, User(u), NEW k \in Kinds \ {"teams"},
         count[k] = Target[k], count'[k] < Target[k]
  PROVE  Makes(u, k)'
<1>0. Target[k] \in Nat /\ count \in [Kinds -> Nat] /\ actions \in [Users -> SUBSET Actions]
  BY TargetType DEF IInv, TypeOK
<1>1. ~ UNCHANGED count
  BY <1>0
<1>2. \/ CountTeam(u) \/ Counts(u) \/ TeamNotMade(u) \/ NotMade(u)
  BY <1>1 DEF User, SignUpOrLogin, TeamTargetReached, TeamMade, joinTeam, joinChannel,
     ActUncounted, Made, done, Trim, Idle, Leave
<1>3. ~ CountTeam(u) /\ ~ TeamNotMade(u)
  <2>1. k # "teams" /\ k \in Kinds /\ count'[k] # count[k]
    BY <1>0
  <2>2. ~ CountTeam(u)
    BY <1>0, <2>1 DEF CountTeam, inc
  <2>3. ~ TeamNotMade(u)
    BY <1>0, <2>1 DEF TeamNotMade, dec
  <2> QED BY <2>2, <2>3
<1>4. ~ Counts(u)
  BY <1>0, KindOfType DEF Counts, Begins, Count, inc
<1>5. NotMade(u)
  BY <1>2, <1>3, <1>4
<1>6. making[u] = k
  BY <1>5, <1>0 DEF NotMade, dec
<1>7. pc'[u] = "check" /\ reading'[u] = 1 /\ actions' = actions
      /\ \E a \in actions[u] : KindOf[a] = k
  BY <1>5, <1>6 DEF NotMade, Goto, IInv, InPlace, TypeOK
<1> QED BY <1>7 DEF Makes, Over

LEMMA SomeoneStep == IInv /\ SomeoneMakesIt /\ [Next]_vars => SomeoneMakesIt'
<1> SUFFICES ASSUME IInv, SomeoneMakesIt, [Next]_vars, command' = "waiting",
                    NEW k \in Kinds \ {"teams"}, count'[k] < Target[k]
             PROVE  \E u \in Users : Makes(u, k)' \/ stop'[u]
  BY DEF SomeoneMakesIt
<1>0. Target[k] \in Nat /\ count[k] \in Nat /\ count[k] <= Target[k]
  BY TargetType DEF IInv, TypeOK, CountersExact
<1>1. ASSUME NEW u \in Users, User(u) PROVE \E v \in Users : Makes(v, k)' \/ stop'[v]
  <2>1. stop' = stop /\ command = "waiting"
    BY <1>1, UserStops
  <2>2. CASE count[k] = Target[k]
    BY <2>2, <1>1, TakesBack
  <2>3. CASE count[k] # Target[k]
    <3>1. PICK v \in Users : Makes(v, k) \/ stop[v]
      BY <2>1, <2>3, <1>0 DEF SomeoneMakesIt
    <3>2. CASE v = u
      BY <3>1, <3>2, <2>1, <2>3, <1>1, GoesOn
    <3>3. CASE v # u
      BY <3>1, <3>3, <2>1, <1>1, OthersAlone DEF Makes
    <3> QED BY <3>2, <3>3
  <2> QED BY <2>2, <2>3
<1>2. ASSUME NEW u \in Users, Stop(u) PROVE \E v \in Users : Makes(v, k)' \/ stop'[v]
  BY <1>2 DEF Stop, IInv, TypeOK
<1>3. ~ CommandEnds
  BY DEF CommandEnds
<1>4. CASE UNCHANGED vars
  BY <1>4 DEF vars, SomeoneMakesIt, Makes
<1> QED BY <1>1, <1>2, <1>3, <1>4 DEF Next

(* While the command waits, a target that is missed has somebody left who  *)
(* makes up for it, or a user that was stopped early.                      *)
THEOREM NobodyLeavesTooSoon == Spec => []SomeoneMakesIt
<1>1. Init => SomeoneMakesIt
  <2> SUFFICES ASSUME Init, NEW k \in Kinds \ {"teams"} PROVE \E u \in Users : Makes(u, k)
    BY DEF SomeoneMakesIt
  <2>1. PICK u \in Users : TRUE
    OBVIOUS
  <2>2. \E a \in Actions : KindOf[a] = k
    BY DEF KindOf, Actions, Kinds
  <2>3. pc[u] = "signUp" /\ actions[u] = Actions
    BY DEF Init
  <2> QED BY <2>2, <2>3 DEF Makes, Over
<1> QED BY <1>1, SomeoneStep, IInvAlways, PTL DEF Spec
=============================================================================
