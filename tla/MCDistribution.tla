--------------------------- MODULE MCDistribution ---------------------------
(* Distribution from every load and for every amount up to a bound.        *)
EXTENDS Distribution

CONSTANTS
  MaxLoad,    \* users an agent has at first
  MaxAmount   \* users to add or to remove

MCInit ==
  /\ kind \in {"add", "remove"}
  /\ amount \in 0..MaxAmount
  /\ start \in [Agents -> 0..MaxLoad]
  /\ dist = [a \in Agents |-> 0]
  /\ left = amount

MCSpec == MCInit /\ [][DistNext]_distVars
=============================================================================
