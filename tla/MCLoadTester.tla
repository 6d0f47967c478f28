---------------------------- MODULE MCLoadTester ----------------------------
(* Small instances of LoadTester: the controllers are interchangeable.     *)
EXTENDS LoadTester, TLC

ControllerSymmetry == Permutations(Controllers)
=============================================================================
