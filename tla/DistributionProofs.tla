------------------------- MODULE DistributionProofs -------------------------
(* Theorems about Distribution, for any agents, loads and amounts.         *)
EXTENDS Distribution, FiniteSetTheorems, TLAPS

USE AgentsAssumption

(***************************************************************************)
(* Sums over the agents, as the fold of the community modules defines them.*)
(* The fold takes the same agent first whatever it sums, so facts about two*)
(* sums are proved by induction on the set of agents.                      *)
(***************************************************************************)
Some(s) == CHOOSE x \in s : TRUE

(* What holds of the empty set, and of a set when it holds of the set      *)
(* without the element that is taken first, holds of every set of agents.  *)
LEMMA AgentInduction ==
  ASSUME NEW Good, {} \in Good,
         \A s \in SUBSET Agents : s # {} /\ s \ {Some(s)} \in Good => s \in Good
  PROVE  \A s \in SUBSET Agents : s \in Good
<1> DEFINE Bad == {s \in SUBSET Agents : s \notin Good}
<1>1. IsWellFoundedOn(StrictSubsetOrdering(Agents), SUBSET Agents)
  BY FS_StrictSubsetOrderingWellFounded, FS_FiniteSubsetsOfFinite
<1>2. SUFFICES ASSUME Bad # {} PROVE FALSE
  OBVIOUS
<1>3. PICK s \in Bad : \A u \in Bad : <<u, s>> \notin StrictSubsetOrdering(Agents)
  BY <1>1, <1>2, WFMin
<1>4. s \in SUBSET Agents /\ s # {}
  BY <1>3
<1>7. Some(s) \in s
  BY <1>4 DEF Some
<1>5. <<s \ {Some(s)}, s>> \in StrictSubsetOrdering(Agents)
  BY <1>4, <1>7 DEF StrictSubsetOrdering
<1>6. s \ {Some(s)} \in Good
  BY <1>3, <1>4, <1>5
<1> QED BY <1>3, <1>4, <1>6

(* One user of an agent for each number up to what f says of the agent:    *)
(* what the fold computes is how many of these there are.                  *)
Units(f, s) == UNION {{a} \X (1..f[a]) : a \in s}

LEMMA OwnUnits ==
  ASSUME NEW a, NEW n \in Nat
  PROVE  IsFiniteSet({a} \X (1..n)) /\ Cardinality({a} \X (1..n)) = n
<1>1. IsFiniteSet(1..n) /\ Cardinality(1..n) = n
  BY FS_Interval
<1>2. IsFiniteSet({a}) /\ Cardinality({a}) = 1
  BY FS_Singleton
<1>3. IsFiniteSet({a} \X (1..n)) /\ Cardinality({a} \X (1..n)) = 1 * n
  BY <1>1, <1>2, FS_Product, Zenon
<1> QED BY <1>3

LEMMA UnitsOfOne ==
  ASSUME NEW f \in [Agents -> Nat], NEW s \in SUBSET Agents, NEW a \in s,
         IsFiniteSet(Units(f, s \ {a}))
  PROVE  /\ IsFiniteSet(Units(f, s))
         /\ Cardinality(Units(f, s)) = f[a] + Cardinality(Units(f, s \ {a}))
<1> DEFINE own == {a} \X (1..f[a])  others == Units(f, s \ {a})
<1>0. f[a] \in Nat
  OBVIOUS
<1>1. Units(f, s) = own \cup others /\ own \cap others = {}
  BY DEF Units
<1>4. IsFiniteSet(own) /\ Cardinality(own) = f[a]
  BY <1>0, OwnUnits
<1>5. /\ IsFiniteSet(own \cup others)
      /\ Cardinality(own \cup others) = Cardinality(own) + Cardinality(others) - Cardinality({})
  BY <1>1, <1>4, FS_Union
<1>6. Cardinality({}) = 0 /\ Cardinality(others) \in Nat
  BY FS_EmptySet, FS_CardinalityType
<1> HIDE DEF own, others
<1> QED BY <1>0, <1>1, <1>4, <1>5, <1>6 DEF others

LEMMA UnitsFinite ==
  ASSUME NEW f \in [Agents -> Nat], NEW s \in SUBSET Agents
  PROVE  IsFiniteSet(Units(f, s))
<1> DEFINE Good == {t \in SUBSET Agents : IsFiniteSet(Units(f, t))}
<1>1. {} \in Good
  <2>1. Units(f, {}) = {}
    BY DEF Units
  <2> QED BY <2>1, FS_EmptySet
<1>2. ASSUME NEW t \in SUBSET Agents, t # {}, t \ {Some(t)} \in Good PROVE t \in Good
  <2>1. Some(t) \in t
    BY <1>2 DEF Some
  <2> QED BY <1>2, <2>1, UnitsOfOne
<1> HIDE DEF Good
<1>3. s \in Good
  BY <1>1, <1>2, AgentInduction
<1> QED BY <1>3 DEF Good

Total(f) == MapThenSumSet(LAMBDA a : f[a], Agents)

Folded(f) ==
  CHOOSE iter : iter = [s \in SUBSET Agents |->
                          IF s = {} THEN 0 ELSE f[Some(s)] + iter[s \ {Some(s)}]]

LEMMA TotalIsFolded ==
  ASSUME NEW f
  PROVE  Total(f) = Folded(f)[Agents]
BY DEF Total, Folded, Some, MapThenSumSet, MapThenFoldSet

(* The recursion of the fold has a solution.                               *)
LEMMA FoldedUnfolds ==
  ASSUME NEW f \in [Agents -> Nat]
  PROVE  \A s \in SUBSET Agents :
           Folded(f)[s] = IF s = {} THEN 0 ELSE f[Some(s)] + Folded(f)[s \ {Some(s)}]
<1> DEFINE g == [s \in SUBSET Agents |-> Cardinality(Units(f, s))]
<1>1. ASSUME NEW s \in SUBSET Agents
      PROVE  g[s] = IF s = {} THEN 0 ELSE f[Some(s)] + g[s \ {Some(s)}]
  <2>1. CASE s = {}
    <3>1. Units(f, s) = {}
      BY <2>1 DEF Units
    <3> QED BY <2>1, <3>1, FS_EmptySet
  <2>2. CASE s # {}
    <3>1. Some(s) \in s
      BY <2>2 DEF Some
    <3>2. Cardinality(Units(f, s)) = f[Some(s)] + Cardinality(Units(f, s \ {Some(s)}))
      BY <3>1, UnitsFinite, UnitsOfOne
    <3> QED BY <2>2, <3>2
  <2> QED BY <2>1, <2>2
<1>2. g = [s \in SUBSET Agents |-> IF s = {} THEN 0 ELSE f[Some(s)] + g[s \ {Some(s)}]]
  BY <1>1
<1> HIDE DEF g
<1>3. Folded(f) = [s \in SUBSET Agents |->
                     IF s = {} THEN 0 ELSE f[Some(s)] + Folded(f)[s \ {Some(s)}]]
  BY <1>2 DEF Folded
<1> QED BY <1>3

LEMMA FoldedEmpty ==
  ASSUME NEW f \in [Agents -> Nat]
  PROVE  Folded(f)[{}] = 0
BY FoldedUnfolds

LEMMA FoldedType ==
  ASSUME NEW f \in [Agents -> Nat]
  PROVE  \A s \in SUBSET Agents : Folded(f)[s] \in Nat
<1> DEFINE Good == {s \in SUBSET Agents : Folded(f)[s] \in Nat}
<1>1. {} \in Good
  BY FoldedEmpty
<1>2. ASSUME NEW s \in SUBSET Agents, s # {}, s \ {Some(s)} \in Good PROVE s \in Good
  <2>1. Some(s) \in s
    BY <1>2 DEF Some
  <2> QED BY <1>2, <2>1, FoldedUnfolds
<1> HIDE DEF Good
<1>3. \A s \in SUBSET Agents : s \in Good
  BY <1>1, <1>2, AgentInduction
<1> QED BY <1>3 DEF Good

LEMMA TotalType ==
  ASSUME NEW f \in [Agents -> Nat]
  PROVE  Total(f) \in Nat
BY FoldedType, TotalIsFolded

LEMMA TotalZero ==
  ASSUME NEW f \in [Agents -> Nat], \A a \in Agents : f[a] = 0
  PROVE  Total(f) = 0
<1> DEFINE Good == {s \in SUBSET Agents : Folded(f)[s] = 0}
<1>1. {} \in Good
  BY FoldedEmpty
<1>2. ASSUME NEW s \in SUBSET Agents, s # {}, s \ {Some(s)} \in Good PROVE s \in Good
  <2>1. Some(s) \in s
    BY <1>2 DEF Some
  <2> QED BY <1>2, <2>1, FoldedUnfolds
<1> HIDE DEF Good
<1>3. Agents \in Good
  BY <1>1, <1>2, AgentInduction
<1> QED BY <1>3, TotalIsFolded DEF Good

LEMMA TotalMonotone ==
  ASSUME NEW f \in [Agents -> Nat], NEW g \in [Agents -> Nat],
         \A a \in Agents : f[a] <= g[a]
  PROVE  Total(f) <= Total(g)
<1> DEFINE Good == {s \in SUBSET Agents : Folded(f)[s] <= Folded(g)[s]}
<1>1. {} \in Good
  BY FoldedEmpty
<1>2. ASSUME NEW s \in SUBSET Agents, s # {}, s \ {Some(s)} \in Good PROVE s \in Good
  <2> DEFINE x == Some(s)  t == s \ {x}
  <2>1. x \in Agents /\ t \in SUBSET Agents
    BY <1>2 DEF Some
  <2>2. Folded(f)[s] = f[x] + Folded(f)[t] /\ Folded(g)[s] = g[x] + Folded(g)[t]
    BY <1>2, FoldedUnfolds
  <2>3. Folded(f)[t] \in Nat /\ Folded(g)[t] \in Nat /\ Folded(f)[t] <= Folded(g)[t]
    BY <1>2, <2>1, FoldedType
  <2>4. f[x] \in Nat /\ g[x] \in Nat /\ f[x] <= g[x]
    BY <2>1
  <2> HIDE DEF x, t
  <2> QED BY <2>2, <2>3, <2>4
<1> HIDE DEF Good
<1>3. Agents \in Good
  BY <1>1, <1>2, AgentInduction
<1> QED BY <1>3, TotalIsFolded DEF Good

LEMMA TotalPlus ==
  ASSUME NEW f \in [Agents -> Nat], NEW g \in [Agents -> Nat], NEW h \in [Agents -> Nat],
         \A a \in Agents : h[a] = f[a] + g[a]
  PROVE  Total(h) = Total(f) + Total(g)
<1> DEFINE Good == {s \in SUBSET Agents : Folded(h)[s] = Folded(f)[s] + Folded(g)[s]}
<1>1. {} \in Good
  BY FoldedEmpty
<1>2. ASSUME NEW s \in SUBSET Agents, s # {}, s \ {Some(s)} \in Good PROVE s \in Good
  <2> DEFINE x == Some(s)  t == s \ {x}
  <2>1. x \in Agents /\ t \in SUBSET Agents
    BY <1>2 DEF Some
  <2>2. /\ Folded(f)[s] = f[x] + Folded(f)[t] /\ Folded(g)[s] = g[x] + Folded(g)[t]
        /\ Folded(h)[s] = h[x] + Folded(h)[t]
    BY <1>2, FoldedUnfolds
  <2>3. /\ Folded(f)[t] \in Nat /\ Folded(g)[t] \in Nat
        /\ Folded(h)[t] = Folded(f)[t] + Folded(g)[t]
    BY <1>2, <2>1, FoldedType
  <2>4. f[x] \in Nat /\ g[x] \in Nat /\ h[x] = f[x] + g[x]
    BY <2>1
  <2> HIDE DEF x, t
  <2> QED BY <2>2, <2>3, <2>4
<1> HIDE DEF Good
<1>3. Agents \in Good
  BY <1>1, <1>2, AgentInduction
<1> QED BY <1>3, TotalIsFolded DEF Good

(* A sum follows the change of one of its terms.                           *)
LEMMA TotalFollows ==
  ASSUME NEW f \in [Agents -> Nat], NEW g \in [Agents -> Nat], NEW a \in Agents,
         \A b \in Agents \ {a} : g[b] = f[b]
  PROVE  Total(g) - g[a] = Total(f) - f[a]
<1> DEFINE Rest(h, s) == Folded(h)[s] - (IF a \in s THEN h[a] ELSE 0)
           Good == {s \in SUBSET Agents : Rest(g, s) = Rest(f, s)}
<1>1. {} \in Good
  BY FoldedEmpty
<1>2. ASSUME NEW s \in SUBSET Agents, s # {}, s \ {Some(s)} \in Good PROVE s \in Good
  <2> DEFINE x == Some(s)  t == s \ {x}
  <2>1. x \in s /\ x \in Agents /\ t \in SUBSET Agents
    BY <1>2 DEF Some
  <2>2. Folded(f)[s] = f[x] + Folded(f)[t] /\ Folded(g)[s] = g[x] + Folded(g)[t]
    BY <1>2, FoldedUnfolds
  <2>3. Folded(f)[t] \in Nat /\ Folded(g)[t] \in Nat /\ Rest(g, t) = Rest(f, t)
    BY <1>2, <2>1, FoldedType
  <2>4. {f[x], g[x], f[a], g[a]} \subseteq Nat /\ (x # a => g[x] = f[x])
    BY <2>1
  <2>5. (a \in s <=> a \in t \/ a = x) /\ x \notin t
    BY <2>1
  <2> HIDE DEF x, t
  <2> QED BY <2>2, <2>3, <2>4, <2>5
<1> HIDE DEF Good
<1>3. Agents \in Good
  BY <1>1, <1>2, AgentInduction
<1> QED BY <1>3, TotalIsFolded DEF Good

-----------------------------------------------------------------------------
LEMMA DistTypeStep == DistTypeOK /\ [DistNext]_distVars => DistTypeOK'
<1> SUFFICES ASSUME DistTypeOK, [DistNext]_distVars PROVE DistTypeOK'
  OBVIOUS
<1>1. CASE AddOne
  BY <1>1 DEF AddOne, DistTypeOK
<1>2. CASE RemoveOne
  BY <1>2 DEF RemoveOne, DistTypeOK
<1>3. CASE UNCHANGED distVars
  BY <1>3 DEF distVars, DistTypeOK
<1> QED BY <1>1, <1>2, <1>3 DEF DistNext

(* Every variable keeps its type.                                          *)
THEOREM DistTypeCorrect == DistSpec => []DistTypeOK
<1>1. DistInit => DistTypeOK
  BY DEF DistInit, DistTypeOK
<1> QED BY <1>1, DistTypeStep, PTL DEF DistSpec

LEMMA NeverBelowZeroStep ==
  DistTypeOK /\ NeverBelowZero /\ [DistNext]_distVars => NeverBelowZero'
<1> SUFFICES ASSUME DistTypeOK, NeverBelowZero, [DistNext]_distVars PROVE NeverBelowZero'
  OBVIOUS
<1>1. CASE AddOne
  BY <1>1 DEF AddOne, NeverBelowZero
<1>2. CASE RemoveOne
  <2>1. kind = "remove" /\ kind' = kind /\ start' = start
    BY <1>2 DEF RemoveOne
  <2>2. PICK a \in Agents :
          dist' = IF Load(a) > 0 THEN [dist EXCEPT ![a] = @ + 1] ELSE dist
    BY <1>2 DEF RemoveOne
  <2>3. \A b \in Agents : dist[b] \in Nat /\ start[b] \in Nat /\ dist[b] <= start[b]
    BY <2>1 DEF DistTypeOK, NeverBelowZero
  <2>4. ASSUME NEW b \in Agents PROVE dist'[b] <= start[b]
    <3>1. CASE b = a /\ Load(a) > 0
      <4>1. start[a] - dist[a] > 0
        BY <3>1, <2>1 DEF Load
      <4>2. dist'[b] = dist[a] + 1
        BY <3>1, <2>2 DEF DistTypeOK
      <4> QED BY <4>1, <4>2, <2>3, <3>1
    <3>2. CASE ~ (b = a /\ Load(a) > 0)
      <4>1. dist'[b] = dist[b]
        BY <3>2, <2>2 DEF DistTypeOK
      <4> QED BY <4>1, <2>3
    <3> QED BY <3>1, <3>2
  <2> QED BY <2>1, <2>4 DEF NeverBelowZero
<1>3. CASE UNCHANGED distVars
  BY <1>3 DEF distVars, NeverBelowZero
<1> QED BY <1>1, <1>2, <1>3 DEF DistNext

(* deletionDistribution asks no agent for more users than it has.          *)
THEOREM RemovesWhatIsThere == DistSpec => []NeverBelowZero
<1>1. DistInit => NeverBelowZero
  BY DEF DistInit, NeverBelowZero
<1> QED BY <1>1, NeverBelowZeroStep, DistTypeCorrect, PTL DEF DistSpec

LEMMA LoadInt ==
  ASSUME DistTypeOK, NEW a \in Agents
  PROVE  Load(a) \in Int /\ dist[a] \in Nat
BY DEF DistTypeOK, Load

LEMMA EvenStep == DistTypeOK /\ DistTypeOK' /\ Even /\ [DistNext]_distVars => Even'
<1> SUFFICES ASSUME DistTypeOK, DistTypeOK', Even, [DistNext]_distVars PROVE Even'
  OBVIOUS
<1>0. \A a \in Agents : Load(a) \in Int /\ Load(a)' \in Int
  BY LoadInt DEF DistTypeOK, Load
<1>1. CASE AddOne
  <2>1. kind = "add" /\ kind' = kind /\ start' = start
    BY <1>1 DEF AddOne
  <2>2. PICK a \in Agents : /\ \A b \in Agents : Load(a) <= Load(b)
                            /\ dist' = [dist EXCEPT ![a] = @ + 1]
    BY <1>1 DEF AddOne
  <2>3. \A b \in Agents : Load(b)' = IF b = a THEN Load(b) + 1 ELSE Load(b)
    BY <2>1, <2>2 DEF Load, DistTypeOK
  <2>4. \A b \in Agents : b # a => (b \in Chosen' => b \in Chosen)
    BY <2>2 DEF Chosen, DistTypeOK
  <2>5. ASSUME NEW c \in Chosen', NEW b \in Agents PROVE Load(c)' <= Load(b)' + 1
    <3>0. c \in Agents
      BY DEF Chosen
    <3>1. CASE c = a
      <4>1. Load(a) <= Load(b)
        BY <2>2
      <4> QED BY <4>1, <3>1, <2>3, <1>0
    <3>2. CASE c # a
      <4>1. Load(c) <= Load(b) + 1
        BY <3>0, <3>2, <2>4, <2>1 DEF Even
      <4> QED BY <4>1, <3>0, <3>2, <2>3, <1>0
    <3> QED BY <3>1, <3>2
  <2> QED BY <2>1, <2>5 DEF Even
<1>2. CASE RemoveOne
  <2>1. kind = "remove" /\ kind' = kind /\ start' = start
    BY <1>2 DEF RemoveOne
  <2>2. PICK a \in Agents :
          /\ \A b \in Agents : Load(a) >= Load(b)
          /\ dist' = IF Load(a) > 0 THEN [dist EXCEPT ![a] = @ + 1] ELSE dist
    BY <1>2 DEF RemoveOne
  <2>3. CASE Load(a) > 0
    <3>1. dist' = [dist EXCEPT ![a] = @ + 1]
      BY <2>2, <2>3
    <3>2. \A b \in Agents : Load(b)' = IF b = a THEN Load(b) - 1 ELSE Load(b)
      BY <2>1, <3>1 DEF Load, DistTypeOK
    <3>3. \A b \in Agents : b # a => (b \in Chosen' => b \in Chosen)
      BY <3>1 DEF Chosen, DistTypeOK
    <3>4. ASSUME NEW c \in Chosen', NEW b \in Agents PROVE Load(b)' <= Load(c)' + 1
      <4>0. c \in Agents
        BY DEF Chosen
      <4>1. CASE c = a
        <5>1. Load(b) <= Load(a)
          BY <2>2, <1>0
        <5> QED BY <5>1, <4>1, <3>2, <1>0
      <4>2. CASE c # a
        <5>1. Load(b) <= Load(c) + 1
          BY <4>0, <4>2, <3>3, <2>1 DEF Even
        <5> QED BY <5>1, <4>0, <4>2, <3>2, <1>0
      <4> QED BY <4>1, <4>2
    <3> QED BY <2>1, <3>4 DEF Even
  <2>4. CASE ~ (Load(a) > 0)
    BY <2>1, <2>2, <2>4 DEF Even, Chosen, Load
  <2> QED BY <2>3, <2>4
<1>3. CASE UNCHANGED distVars
  BY <1>3 DEF distVars, Even, Chosen, Load
<1> QED BY <1>1, <1>2, <1>3 DEF DistNext

(* Whatever agents have at first, those that gain or lose users end within *)
(* one of one another, and nobody is better placed than they are.          *)
THEOREM DividesEvenly == DistSpec => []Even
<1>1. DistInit => Even
  BY DEF DistInit, Even, Chosen
<1> QED BY <1>1, EvenStep, DistTypeCorrect, PTL DEF DistSpec

-----------------------------------------------------------------------------
(* How many users the turns so far have given: one each, but for the turns *)
(* that were lost because nobody had a user left.                          *)
Given ==
  IF kind = "add" THEN Total(dist) + left = amount
  ELSE \/ Total(dist) + left = amount
       \/ Total(dist) + left <= amount /\ \A a \in Agents : dist[a] = start[a]

LEMMA TotalOneMore ==
  ASSUME NEW f \in [Agents -> Nat], NEW a \in Agents
  PROVE  Total([f EXCEPT ![a] = @ + 1]) = Total(f) + 1
<1> DEFINE g == [f EXCEPT ![a] = @ + 1]
<1>1. g \in [Agents -> Nat] /\ g[a] = f[a] + 1 /\ \A b \in Agents \ {a} : g[b] = f[b]
  OBVIOUS
<1> HIDE DEF g
<1>2. Total(g) - g[a] = Total(f) - f[a]
  BY <1>1, TotalFollows
<1>3. Total(f) \in Nat /\ Total(g) \in Nat /\ f[a] \in Nat
  BY <1>1, TotalType
<1>4. Total(g) = Total(f) + 1
  BY <1>1, <1>2, <1>3
<1> QED BY <1>4 DEF g

LEMMA GivenStep ==
  DistTypeOK /\ NeverBelowZero /\ Given /\ [DistNext]_distVars => Given'
<1> SUFFICES ASSUME DistTypeOK, NeverBelowZero, Given, [DistNext]_distVars PROVE Given'
  OBVIOUS
<1>0. left \in Int /\ amount \in Nat /\ Total(dist) \in Nat /\ dist \in [Agents -> Nat]
  BY TotalType DEF DistTypeOK
<1>1. CASE AddOne
  <2>1. kind = "add" /\ left' = left - 1 /\ UNCHANGED <<kind, amount, start>>
    BY <1>1 DEF AddOne
  <2>2. PICK a \in Agents : dist' = [dist EXCEPT ![a] = @ + 1]
    BY <1>1 DEF AddOne
  <2>3. Total(dist') = Total(dist) + 1
    BY <1>0, <2>2, TotalOneMore
  <2> QED BY <1>0, <2>1, <2>3 DEF Given
<1>2. CASE RemoveOne
  <2>1. kind = "remove" /\ left' = left - 1 /\ UNCHANGED <<kind, amount, start>>
    BY <1>2 DEF RemoveOne
  <2>2. PICK a \in Agents :
          /\ \A b \in Agents : Load(a) >= Load(b)
          /\ dist' = IF Load(a) > 0 THEN [dist EXCEPT ![a] = @ + 1] ELSE dist
    BY <1>2 DEF RemoveOne
  <2>3. \A b \in Agents : /\ Load(b) = start[b] - dist[b] /\ dist[b] <= start[b]
                          /\ start[b] \in Nat /\ dist[b] \in Nat
    BY <2>1 DEF Load, NeverBelowZero, DistTypeOK
  <2>4. CASE Load(a) > 0
    <3>1. Total(dist') = Total(dist) + 1
      BY <1>0, <2>2, <2>4, TotalOneMore
    <3>2. Total(dist) + left = amount
      BY <2>1, <2>3, <2>4 DEF Given
    <3> QED BY <1>0, <2>1, <3>1, <3>2 DEF Given
  <2>5. CASE ~ (Load(a) > 0)
    <3>1. \A b \in Agents : dist[b] = start[b]
      BY <2>2, <2>3, <2>5
    <3>2. dist' = dist /\ start' = start
      BY <2>1, <2>2, <2>5
    <3>3. Total(dist) + left <= amount
      BY <1>0, <2>1 DEF Given
    <3>4. Total(dist') + left' <= amount'
      BY <1>0, <2>1, <3>2, <3>3
    <3>5. \A b \in Agents : dist'[b] = start'[b]
      BY <3>1, <3>2
    <3> QED BY <2>1, <3>4, <3>5 DEF Given
  <2> QED BY <2>4, <2>5
<1>3. CASE UNCHANGED distVars
  BY <1>3 DEF distVars, Given
<1> QED BY <1>1, <1>2, <1>3 DEF DistNext

LEMMA GivenAll ==
  ASSUME DistTypeOK, NeverBelowZero, Given
  PROVE  AllDone
<1> SUFFICES ASSUME left = 0
             PROVE  Total(dist) = IF kind = "remove" /\ Total(start) < amount
                                    THEN Total(start) ELSE amount
  BY DEF AllDone, Total
<1>1. dist \in [Agents -> Nat] /\ start \in [Agents -> Nat] /\ amount \in Nat
      /\ kind \in {"add", "remove"}
  BY DEF DistTypeOK
<1>2. Total(dist) \in Nat /\ Total(start) \in Nat
  BY <1>1, TotalType
<1>3. CASE kind = "add"
  BY <1>2, <1>3 DEF Given
<1>4. CASE kind = "remove"
  <2>1. Total(dist) <= Total(start)
    BY <1>1, <1>4, TotalMonotone DEF NeverBelowZero
  <2>2. CASE Total(dist) + left = amount
    BY <1>1, <1>2, <1>4, <2>1, <2>2
  <2>3. CASE Total(dist) + left <= amount /\ \A a \in Agents : dist[a] = start[a]
    <3>1. dist = start
      BY <1>1, <2>3
    <3> QED BY <1>1, <1>2, <1>4, <2>3, <3>1
  <2> QED BY <1>4, <2>2, <2>3 DEF Given
<1> QED BY <1>1, <1>3, <1>4

(* The loops give all the users they were asked to give: none is lost on   *)
(* the way, and none is taken away twice.                                  *)
THEOREM GivesAll == DistSpec => []AllDone
<1>1. DistInit => Given /\ NeverBelowZero
  <2> SUFFICES ASSUME DistInit PROVE Given /\ NeverBelowZero
    OBVIOUS
  <2>1. Total(dist) = 0
    BY TotalZero DEF DistInit
  <2> QED BY <2>1 DEF DistInit, Given, NeverBelowZero
<1> QED BY <1>1, GivenStep, GivenAll, NeverBelowZeroStep, DistTypeCorrect, PTL DEF DistSpec
=============================================================================
