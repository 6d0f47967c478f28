--------------------------- MODULE MCCoordinator ---------------------------
(* Small instances of Coordinator: the agents are interchangeable.         *)
EXTENDS Coordinator, TLC

AgentSymmetry == Permutations(Agents)
=============================================================================
