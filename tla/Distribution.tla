---------------------------- MODULE Distribution ----------------------------
(***************************************************************************)
(* How the coordinator's cluster divides users among its agents:           *)
(* additionDistribution and deletionDistribution of                        *)
(* src/coordinator/cluster/util.go.  One step is one turn of their loops.  *)
(* sort.Slice is not stable, so any of the least (or most) loaded agents   *)
(* may come first.                                                         *)
(*                                                                         *)
(* A definition named Bug... is the next one with a mistake in it, which   *)
(* some property must tell apart.                                          *)
(***************************************************************************)
EXTENDS Naturals, FiniteSets, FiniteSetsExt

CONSTANT Agents  \* the agents of the cluster

ASSUME AgentsAssumption == IsFiniteSet(Agents) /\ Agents # {}

VARIABLES
  kind,    \* users are to be added, or removed
  amount,  \* how many
  start,   \* the users each agent has
  dist,    \* distMap
  left     \* turns that are left

distVars == <<kind, amount, start, dist, left>>

DistTypeOK ==
  /\ kind \in {"add", "remove"}
  /\ amount \in Nat
  /\ start \in [Agents -> Nat]
  /\ dist \in [Agents -> Nat]
  /\ left \in 0..amount

(* sortableAgent.users                                                     *)
Load(a) == IF kind = "add" THEN start[a] + dist[a] ELSE start[a] - dist[a]

Begin(k, n, users) ==
  /\ kind' = k
  /\ amount' = n
  /\ start' = users
  /\ dist' = [a \in Agents |-> 0]
  /\ left' = n

BugAddAnywhere ==
  /\ kind = "add"
  /\ left > 0
  /\ \E a \in Agents : dist' = [dist EXCEPT ![a] = @ + 1]
  /\ left' = left - 1
  /\ UNCHANGED <<kind, amount, start>>

AddOne ==
  /\ kind = "add"
  /\ left > 0
  /\ \E a \in Agents :
       /\ \A b \in Agents : Load(a) <= Load(b)
       /\ dist' = [dist EXCEPT ![a] = @ + 1]
  /\ left' = left - 1
  /\ UNCHANGED <<kind, amount, start>>

BugRemoveFromLeast ==
  /\ kind = "remove"
  /\ left > 0
  /\ \E a \in Agents :
       /\ \A b \in Agents : Load(a) <= Load(b)
       /\ dist' = IF Load(a) > 0 THEN [dist EXCEPT ![a] = @ + 1] ELSE dist
  /\ left' = left - 1
  /\ UNCHANGED <<kind, amount, start>>

BugRemoveUnchecked ==
  /\ kind = "remove"
  /\ left > 0
  /\ \E a \in Agents :
       /\ \A b \in Agents : Load(a) >= Load(b)
       /\ dist' = [dist EXCEPT ![a] = @ + 1]
  /\ left' = left - 1
  /\ UNCHANGED <<kind, amount, start>>

(* An agent without users has none taken away: the turn is lost.           *)
RemoveOne ==
  /\ kind = "remove"
  /\ left > 0
  /\ \E a \in Agents :
       /\ \A b \in Agents : Load(a) >= Load(b)
       /\ dist' = IF Load(a) > 0 THEN [dist EXCEPT ![a] = @ + 1] ELSE dist
  /\ left' = left - 1
  /\ UNCHANGED <<kind, amount, start>>

(* The agents that a request is sent to: the keys of distMap.              *)
Chosen == {a \in Agents : dist[a] > 0}

-----------------------------------------------------------------------------
DistInit ==
  /\ kind \in {"add", "remove"}
  /\ amount \in Nat
  /\ start \in [Agents -> Nat]
  /\ dist = [a \in Agents |-> 0]
  /\ left = amount

DistNext == AddOne \/ RemoveOne

DistSpec == DistInit /\ [][DistNext]_distVars

-----------------------------------------------------------------------------
(* Nobody is given a user who would rather have gone to another agent, and *)
(* nobody has one taken away that another should have lost: agents that    *)
(* are touched end within one user of one another, whatever they had.      *)
Even ==
  \A a \in Chosen, b \in Agents :
    IF kind = "add" THEN Load(a) <= Load(b) + 1 ELSE Load(b) <= Load(a) + 1

(* No agent is asked to remove users it does not have: RemoveUsers would   *)
(* answer with an error.                                                   *)
NeverBelowZero == kind = "remove" => \A a \in Agents : dist[a] <= start[a]

(* All users are added; as many as there are of those wanted are removed.  *)
AllDone ==
  left = 0 =>
    LET given == MapThenSumSet(LAMBDA a : dist[a], Agents)
        had   == MapThenSumSet(LAMBDA a : start[a], Agents)
    IN  given = IF kind = "remove" /\ had < amount THEN had ELSE amount
=============================================================================
