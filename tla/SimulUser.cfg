\* A user that connects, loses its connection, reloads, logs out and in, and is stopped.
CONSTANTS
  EventBuffer = 2
  MaxFetchers = 2
SPECIFICATION FairSpec
INVARIANTS TypeOK NoSendOnClosed ErrorsHaveCause LeavesNothing
PROPERTIES ConnectsAlone ImplementsLife StopEnds
