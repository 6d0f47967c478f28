\* A noopcontroller's user may wait for good: CHECK_DEADLOCK FALSE.
CONSTANT EventBuffer = 2
SPECIFICATION FairSpec
INVARIANTS ListenSendsOnOpen SimpleLeavesNothing
PROPERTIES ImplementsLife StopEnds
CHECK_DEADLOCK FALSE
